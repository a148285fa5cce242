----------------------------- MODULE ReadyProofs -----------------------------
(***************************************************************************)
(* Proofs about Ready and the promises under it, for any promises and      *)
(* handlers and any bound on notifications and holds.                      *)
(*                                                                         *)
(* A done or fail list is unused, running, at rest or dead, and what it    *)
(* holds and how far its loop has got tell which registered handlers were  *)
(* called (Calm, InStep).  Between the callbacks with which Deferred opens *)
(* the first loop of a promise this does not hold yet (Opening); no code   *)
(* of the page runs there, because that loop is the innermost one.  The    *)
(* lemmas follow one operation each through these conditions, then the     *)
(* stack of loops, then the steps of Deferred, and those of Ready.  Last   *)
(* come the notifications of a progress list: what was issued and not yet  *)
(* told waits on its stack, and the watchers behind the index are one      *)
(* notification behind the others (Tells, NewsInv).                        *)
(***************************************************************************)
EXTENDS Ready, SequenceTheorems, TLAPS

(* The lists that settle a promise. *)
Settling == {"done", "fail"}

-----------------------------------------------------------------------------
(* What the methods of a callback list return. *)

(* null, which stands for undefined, is no callback, no data and no list;  *)
(* a function of the page is none of Deferred's own callbacks.             *)
LEMMA NullApart ==
    /\ null \notin Handlers
    /\ null \notin Nat
    /\ \A s \in Seq(Entry) : s # null
    /\ \A s \in Seq(Nat) : s # null
    /\ \A h \in Handlers : h \in Entry /\ h \notin Internal
  BY DeferredAssumption DEF Entry

(* fire starts a loop: it goes from firingStart to the length that the     *)
(* list has now.                                                           *)
LEMMA FireFields ==
    ASSUME NEW c \in CallbackList, NEW data \in Nat, c.list # null
    PROVE  LET a == fire(c, data) IN
           /\ a \in CallbackList
           /\ a.list = c.list /\ a.stack = c.stack
           /\ a.firing /\ a.fired /\ a.memory = data
           /\ a.firingIndex = c.firingStart /\ a.firingStart = 0
           /\ a.firingLength = Len(c.list)
  <1>1. c.list \in Seq(Entry) /\ Len(c.list) \in Nat
    BY DEF CallbackList
  <1> QED
    BY <1>1 DEF fire, CallbackList

(* One field of a callback list is assigned, and the others stay. *)
LEMMA SetList ==
    ASSUME NEW c \in CallbackList, NEW l \in Seq(Entry)
    PROVE  LET a == [c EXCEPT !.list = l] IN
           /\ a \in CallbackList
           /\ a.list = l /\ a.stack = c.stack
           /\ a.firing = c.firing /\ a.memory = c.memory
           /\ a.fired = c.fired /\ a.firingIndex = c.firingIndex
           /\ a.firingStart = c.firingStart /\ a.firingLength = c.firingLength
  BY DEF CallbackList

(* The same of firingLength. *)
LEMMA SetLength ==
    ASSUME NEW c \in CallbackList, NEW n \in Nat
    PROVE  LET a == [c EXCEPT !.firingLength = n] IN
           /\ a \in CallbackList
           /\ a.list = c.list /\ a.stack = c.stack
           /\ a.firing = c.firing /\ a.memory = c.memory
           /\ a.fired = c.fired /\ a.firingIndex = c.firingIndex
           /\ a.firingStart = c.firingStart /\ a.firingLength = n
  BY DEF CallbackList

(* The same of firingStart. *)
LEMMA SetStart ==
    ASSUME NEW c \in CallbackList, NEW n \in Nat
    PROVE  LET a == [c EXCEPT !.firingStart = n] IN
           /\ a \in CallbackList
           /\ a.list = c.list /\ a.stack = c.stack
           /\ a.firing = c.firing /\ a.memory = c.memory
           /\ a.fired = c.fired /\ a.firingIndex = c.firingIndex
           /\ a.firingStart = n /\ a.firingLength = c.firingLength
  BY DEF CallbackList

(* add does nothing to a disabled list, lengthens the loop under way,      *)
(* fires a list with a memory from its new end, and only appends to any    *)
(* other.                                                                  *)
LEMMA AddFields ==
    ASSUME NEW c \in CallbackList, NEW e \in Handlers
    PROVE  LET a == add(c, e) IN
           /\ a \in CallbackList
           /\ (c.list = null) => (a = c)
           /\ (c.list # null) =>
                 /\ a.list = Append(c.list, e) /\ Len(a.list) = Len(c.list) + 1
                 /\ a.stack = c.stack /\ a.memory = c.memory
                 /\ c.firing =>
                       /\ a.firing /\ a.fired = c.fired
                       /\ a.firingIndex = c.firingIndex /\ a.firingStart = c.firingStart
                       /\ a.firingLength = Len(c.list) + 1
                 /\ (~c.firing /\ c.memory # null) =>
                       /\ a.firing /\ a.fired
                       /\ a.firingIndex = Len(c.list) /\ a.firingStart = 0
                       /\ a.firingLength = Len(c.list) + 1
                 /\ (~c.firing /\ c.memory = null) =>
                       /\ ~a.firing /\ a.fired = c.fired
                       /\ a.firingIndex = c.firingIndex /\ a.firingStart = c.firingStart
                       /\ a.firingLength = c.firingLength
  <1> DEFINE longer == [c EXCEPT !.list = Append(@, e)]
             from == [longer EXCEPT !.firingStart = Len(c.list)]
  <1>1. CASE c.list = null
    BY <1>1 DEF add
  <1>2. CASE c.list # null
    <2>1. c.list \in Seq(Entry) /\ Len(c.list) \in Nat
      BY <1>2 DEF CallbackList
    <2>2. /\ Append(c.list, e) \in Seq(Entry) /\ Append(c.list, e) # null
          /\ Len(Append(c.list, e)) = Len(c.list) + 1
      <3>1. e \in Entry
        BY DEF Entry
      <3>2. Append(c.list, e) \in Seq(Entry) /\ Len(Append(c.list, e)) = Len(c.list) + 1
        BY <2>1, <3>1
      <3> QED
        BY <3>2, NullApart
    <2>3. /\ longer \in CallbackList
          /\ longer.list = Append(c.list, e) /\ longer.stack = c.stack
          /\ longer.firing = c.firing /\ longer.memory = c.memory
          /\ longer.fired = c.fired /\ longer.firingIndex = c.firingIndex
          /\ longer.firingStart = c.firingStart /\ longer.firingLength = c.firingLength
      BY <2>2, SetList
    <2>4. /\ from \in CallbackList
          /\ from.list = Append(c.list, e) /\ from.stack = c.stack
          /\ from.firingStart = Len(c.list)
      <3> HIDE DEF longer
      <3> QED
        BY <2>1, <2>3, SetStart
    <2>5. CASE c.firing
      <3>1. add(c, e) = [longer EXCEPT !.firingLength = Len(longer.list)]
        BY <1>2, <2>5 DEF add
      <3> DEFINE noticed == [longer EXCEPT !.firingLength = Len(longer.list)]
      <3> HIDE DEF longer, from
      <3>2. /\ noticed \in CallbackList
            /\ noticed.list = longer.list /\ noticed.stack = longer.stack
            /\ noticed.firing = longer.firing /\ noticed.memory = longer.memory
            /\ noticed.fired = longer.fired /\ noticed.firingIndex = longer.firingIndex
            /\ noticed.firingStart = longer.firingStart
            /\ noticed.firingLength = Len(c.list) + 1
        <4>1. Len(longer.list) \in Nat /\ Len(longer.list) = Len(c.list) + 1
          BY <2>1, <2>2, <2>3
        <4> QED
          BY <2>3, <4>1, SetLength
      <3> HIDE DEF noticed
      <3>3. add(c, e) = noticed
        BY <3>1 DEF noticed
      <3> QED
        BY <1>2, <2>2, <2>3, <2>5, <3>2, <3>3
    <2>6. CASE ~c.firing /\ c.memory # null
      <3>1. add(c, e) = fire(from, c.memory)
        BY <1>2, <2>6 DEF add
      <3>2. c.memory \in Nat
        BY <2>6 DEF CallbackList
      <3> HIDE DEF from
      <3> QED
        BY <1>2, <2>2, <2>4, <2>6, <3>1, <3>2, FireFields
    <2>7. CASE ~c.firing /\ c.memory = null
      <3>1. add(c, e) = longer
        BY <1>2, <2>7 DEF add
      <3> HIDE DEF longer
      <3> QED
        BY <1>2, <2>2, <2>3, <2>7, <3>1
    <2> QED
      BY <2>5, <2>6, <2>7
  <1> QED
    BY <1>1, <1>2

(* fireWith does nothing to a disabled list or to one that has fired and   *)
(* is locked, queues the data while the list fires, and otherwise fires.   *)
LEMMA FireWithFields ==
    ASSUME NEW c \in CallbackList, NEW data \in Nat
    PROVE  LET a == fireWith(c, data) IN
           /\ a \in CallbackList
           /\ (c.list = null \/ (c.fired /\ c.stack = null)) => (a = c)
           /\ (c.list # null /\ c.stack # null /\ c.firing) =>
                 /\ a = [c EXCEPT !.stack = Append(@, data)]
                 /\ a.stack = Append(c.stack, data)
                 /\ a.list = c.list /\ a.memory = c.memory
                 /\ a.firing /\ a.fired = c.fired
                 /\ a.firingIndex = c.firingIndex /\ a.firingStart = c.firingStart
                 /\ a.firingLength = c.firingLength
           /\ (c.list # null /\ ~(c.fired /\ c.stack = null) /\ ~(c.stack # null /\ c.firing)) =>
                 a = fire(c, data)
  <1>1. CASE c.list = null \/ (c.fired /\ c.stack = null)
    BY <1>1 DEF fireWith
  <1>2. CASE c.list # null /\ c.stack # null /\ c.firing
    <2>1. fireWith(c, data) = [c EXCEPT !.stack = Append(@, data)]
      BY <1>2 DEF fireWith
    <2>2. c.stack \in Seq(Nat)
      BY <1>2 DEF CallbackList
    <2>3. Append(c.stack, data) \in Seq(Nat)
      BY <2>2
    <2> QED
      BY <1>2, <2>1, <2>3 DEF CallbackList
  <1>3. CASE c.list # null /\ ~(c.fired /\ c.stack = null) /\ ~(c.stack # null /\ c.firing)
    <2>1. fireWith(c, data) = fire(c, data)
      BY <1>3 DEF fireWith
    <2> QED
      BY <1>3, <2>1, FireFields
  <1> QED
    BY <1>1, <1>2, <1>3

(* disable takes the list, its queue and its memory away. *)
LEMMA DisableFields ==
    ASSUME NEW c \in CallbackList
    PROVE  LET a == disable(c) IN
           /\ a \in CallbackList
           /\ a.list = null /\ a.stack = null /\ a.memory = null
           /\ a.firing = c.firing /\ a.fired = c.fired
           /\ a.firingIndex = c.firingIndex /\ a.firingStart = c.firingStart
           /\ a.firingLength = c.firingLength
  BY DEF disable, CallbackList

(* lock takes the queue away, and everything from a list that has no       *)
(* memory.                                                                 *)
LEMMA LockFields ==
    ASSUME NEW c \in CallbackList
    PROVE  LET a == lock(c) IN
           /\ a \in CallbackList
           /\ a.stack = null /\ a.memory = c.memory
           /\ a.firing = c.firing /\ a.fired = c.fired
           /\ a.firingIndex = c.firingIndex /\ a.firingStart = c.firingStart
           /\ a.firingLength = c.firingLength
           /\ a.list = IF c.memory = null THEN null ELSE c.list
  <1>1. CASE c.memory = null
    <2>1. lock(c) = disable(c)
      BY <1>1 DEF lock
    <2> QED
      BY <1>1, <2>1, DisableFields
  <1>2. CASE c.memory # null
    BY <1>2 DEF lock, CallbackList
  <1> QED
    BY <1>1, <1>2

(* At the end of its loop a list fires what is queued; a locked list keeps *)
(* its memory with an empty list, or is disabled when it has none.         *)
LEMMA EndFireFields ==
    ASSUME NEW c \in CallbackList
    PROVE  LET a == endFire(c) IN
           /\ a \in CallbackList
           /\ (c.list = null \/ c.stack = << >>) =>
                 /\ ~a.firing /\ a.fired = c.fired
                 /\ a.list = c.list /\ a.stack = c.stack /\ a.memory = c.memory
                 /\ a.firingStart = c.firingStart
           /\ (c.list # null /\ c.stack \notin {null, << >>}) =>
                 /\ a.firing /\ a.fired
                 /\ a.list = c.list /\ a.stack = Tail(c.stack) /\ a.memory = Head(c.stack)
                 /\ a.firingIndex = c.firingStart /\ a.firingStart = 0
                 /\ a.firingLength = Len(c.list)
           /\ (c.list # null /\ c.stack = null) =>
                 /\ ~a.firing /\ a.fired = c.fired /\ a.stack = null
                 /\ a.memory = c.memory /\ a.firingStart = c.firingStart
                 /\ a.list = IF c.memory # null THEN << >> ELSE null
  <1> DEFINE over == [c EXCEPT !.firing = FALSE]
             next == [over EXCEPT !.stack = Tail(@)]
  <1>1. /\ over \in CallbackList /\ ~over.firing
        /\ over.list = c.list /\ over.stack = c.stack /\ over.memory = c.memory
        /\ over.fired = c.fired /\ over.firingStart = c.firingStart
    BY DEF CallbackList
  <1>2. << >> # null /\ << >> \in Seq(Entry)
    BY NullApart, EmptySeq
  <1>3. CASE c.list = null \/ c.stack = << >>
    <2>1. endFire(c) = over
      BY <1>3, <1>2 DEF endFire
    <2> HIDE DEF over
    <2> QED
      BY <1>1, <1>2, <1>3, <2>1
  <1>4. CASE c.list # null /\ c.stack \notin {null, << >>}
    <2>1. endFire(c) = fire(next, Head(c.stack))
      BY <1>4 DEF endFire
    <2>2. c.stack \in Seq(Nat) /\ c.stack # << >>
      BY <1>4 DEF CallbackList
    <2>3. Tail(c.stack) \in Seq(Nat) /\ Head(c.stack) \in Nat
      BY <2>2
    <2>4. /\ next \in CallbackList /\ next.list = c.list
          /\ next.stack = Tail(c.stack) /\ next.firingStart = c.firingStart
      BY <1>1, <2>3 DEF CallbackList
    <2> HIDE DEF next
    <2> QED
      BY <1>4, <2>1, <2>3, <2>4, FireFields
  <1>5. CASE c.list # null /\ c.stack = null
    <2>1. endFire(c) = IF c.memory # null THEN [over EXCEPT !.list = << >>] ELSE disable(over)
      BY <1>5, <1>2 DEF endFire
    <2>2. CASE c.memory # null
      <3> HIDE DEF over
      <3> QED
        BY <1>1, <1>2, <1>5, <2>1, <2>2 DEF CallbackList
    <2>3. CASE c.memory = null
      <3> HIDE DEF over
      <3> QED
        BY <1>1, <1>2, <1>5, <2>1, <2>3, DisableFields
    <2> QED
      BY <2>2, <2>3
  <1> QED
    BY <1>3, <1>4, <1>5

-----------------------------------------------------------------------------
(* The four conditions that a done or fail list can be in. *)

(* The callbacks that Deferred itself puts at the head of done and fail. *)
Own == <<"settle", "disable", "lock">>

(* The list is still the one that Deferred made, followed by R, the        *)
(* handlers registered for its outcome; later lists hold the last of R     *)
(* only.                                                                   *)
FirstRound(c, R) == Len(c.list) = Len(R) + 3

(* What the list holds, one callback after the other. *)
Follows(c, R) ==
    /\ c.list # null
    /\ FirstRound(c, R) \/ Len(c.list) <= Len(R)
    /\ \A i \in 1..Len(c.list) :
          c.list[i] = IF FirstRound(c, R) /\ i <= 3 THEN Own[i]
                      ELSE R[(i + Len(R)) - Len(c.list)]

(* Nobody has settled the promise. *)
Unused(c, R) ==
    /\ ~c.firing /\ ~c.fired
    /\ c.memory = null /\ c.stack = null /\ c.firingStart = 0
    /\ FirstRound(c, R) /\ Follows(c, R)

(* The one loop that the memory allows at a time. *)
Running(c, R) ==
    /\ c.firing /\ c.fired
    /\ c.memory = 0 /\ c.stack = null /\ c.firingStart = 0
    /\ Follows(c, R)
    /\ c.firingLength = Len(c.list)
    /\ c.firingIndex <= Len(c.list)

(* Everybody was called: the list is empty and keeps its memory. *)
Rested(c) ==
    /\ ~c.firing /\ c.fired
    /\ c.memory = 0 /\ c.stack = null /\ c.firingStart = 0
    /\ c.list = << >>

(* The list of the outcome that did not come about. *)
Dead(c) == c.list = null /\ c.memory = null /\ ~c.firing

(* The loop is still with the callbacks of Deferred. *)
Prelude(c, R) == FirstRound(c, R) /\ c.firingIndex < 3

(* The lists of jQuery.Deferred() are unused; the list of progress is      *)
(* empty.                                                                  *)
LEMMA NewListIsUnused ==
    ASSUME NEW k \in Kinds
    PROVE  /\ NewList(k) \in CallbackList
           /\ (k \in Settling) => Unused(NewList(k), << >>)
           /\ (k = "progress") => /\ NewList(k).list = << >> /\ NewList(k).stack = << >>
                                  /\ ~NewList(k).firing /\ NewList(k).memory = null
                                  /\ NewList(k).firingStart = 0
                                  /\ ~NewList(k).fired
           /\ ~NewList(k).firing /\ ~NewList(k).fired
  <1> DEFINE three == <<"settle", "disable", "lock">>
  <1>1. /\ three \in Seq(Entry) /\ << >> \in Seq(Entry) /\ << >> \in Seq(Nat)
        /\ Len(three) = 3
        /\ three[1] = "settle" /\ three[2] = "disable" /\ three[3] = "lock"
    BY EmptySeq DEF Entry, Internal
  <1>2. three # null /\ << >> # null
    BY <1>1, NullApart
  <1>3. NewList(k) \in CallbackList
    BY <1>1 DEF NewList, CallbackList
  <1>4. ASSUME k \in Settling
        PROVE  Unused(NewList(k), << >>)
    <2>1. k # "progress"
      BY <1>4 DEF Settling
    <2>2. /\ NewList(k).list = three /\ NewList(k).stack = null
          /\ ~NewList(k).firing /\ NewList(k).memory = null
          /\ ~NewList(k).fired /\ NewList(k).firingStart = 0
      BY <2>1 DEF NewList
    <2>3. \A i \in 1..3 : three[i] = Own[i]
      BY DEF Own
    <2> DEFINE c == NewList(k)
               none == << >>
    <2>4. Len(none) = 0
      OBVIOUS
    <2> HIDE DEF three, c, none
    <2>5. c.list = three
      BY <2>2 DEF c
    <2>6. FirstRound(c, none) /\ c.list # null /\ Len(c.list) = 3
      BY <1>1, <1>2, <2>4, <2>5 DEF FirstRound
    <2>7. Follows(c, none)
      BY <2>3, <2>5, <2>6 DEF Follows
    <2>8. Unused(c, none)
      BY <2>2, <2>6, <2>7 DEF Unused, c
    <2> QED
      BY <2>8 DEF c, none
  <1>5. /\ (k = "progress") => /\ NewList(k).list = << >> /\ NewList(k).stack = << >>
                               /\ NewList(k).memory = null /\ NewList(k).firingStart = 0
        /\ ~NewList(k).firing /\ ~NewList(k).fired
    BY DEF NewList
  <1> QED
    BY <1>3, <1>4, <1>5

(* Whether a list follows the registrations depends on its callbacks only. *)
LEMMA SameList ==
    ASSUME NEW c, NEW a, NEW R, a.list = c.list
    PROVE  /\ FirstRound(a, R) <=> FirstRound(c, R)
           /\ Follows(a, R) <=> Follows(c, R)
  <1>1. FirstRound(a, R) <=> FirstRound(c, R)
    BY DEF FirstRound
  <1> QED
    BY <1>1 DEF Follows

(* A handler that is appended to the list and to the registrations leaves  *)
(* them in agreement.                                                      *)
LEMMA FollowsLonger ==
    ASSUME NEW c \in CallbackList, NEW a \in CallbackList, NEW R \in Seq(Handlers),
           NEW h \in Handlers, Follows(c, R), a.list = Append(c.list, h)
    PROVE  /\ Follows(a, Append(R, h))
           /\ FirstRound(a, Append(R, h)) <=> FirstRound(c, R)
           /\ Len(a.list) = Len(c.list) + 1
           /\ Len(Append(R, h)) = Len(R) + 1
  <1> DEFINE l == c.list
             m == Len(l)
             n == Len(R)
             S == Append(R, h)
             t == a.list
  <1>1. l # null /\ l \in Seq(Entry) /\ h \in Entry
    BY DEF Follows, CallbackList, Entry
  <1>2. m \in Nat /\ n \in Nat
    BY <1>1
  <1>3. /\ Len(t) = m + 1 /\ t[m + 1] = h /\ (\A i \in 1..m : t[i] = l[i])
        /\ t \in Seq(Entry)
    BY <1>1
  <1>4. /\ Len(S) = n + 1 /\ S[n + 1] = h /\ (\A i \in 1..n : S[i] = R[i])
    OBVIOUS
  <1>5. t # null
    BY <1>3, NullApart
  <1>6. FirstRound(c, R) <=> m = n + 3
    BY DEF FirstRound
  <1>7. FirstRound(a, S) <=> m = n + 3
    <2> HIDE DEF l, m, n, S, t
    <2>1. FirstRound(a, S) <=> Len(t) = Len(S) + 3
      BY DEF FirstRound, t
    <2> QED
      BY <1>2, <1>3, <1>4, <2>1
  <1>8. m = n + 3 \/ m <= n
    BY <1>6 DEF Follows
  <1>9. \A i \in 1..m : l[i] = IF m = n + 3 /\ i <= 3 THEN Own[i] ELSE R[(i + n) - m]
    BY <1>6 DEF Follows
  <1>10. ASSUME NEW i \in 1..Len(t)
         PROVE  t[i] = IF m = n + 3 /\ i <= 3 THEN Own[i] ELSE S[(i + Len(S)) - Len(t)]
    <2> HIDE DEF l, m, n, S, t
    <2>1. i \in Nat /\ 1 <= i /\ (i \in 1..m \/ i = m + 1) /\ m \in Nat /\ n \in Nat
      BY <1>2, <1>3
    <2>2. (i + Len(S)) - Len(t) = (i + n) - m
      BY <1>2, <1>3, <1>4, <2>1
    <2>3. CASE i \in 1..m
      <3>1. t[i] = l[i]
        BY <2>3, <1>3
      <3>2. CASE m = n + 3 /\ i <= 3
        BY <1>9, <2>3, <3>1, <3>2
      <3>3. CASE ~(m = n + 3 /\ i <= 3)
        <4>1. (i + n) - m \in 1..n
          BY <1>8, <2>1, <2>3, <3>3
        <4>2. S[(i + n) - m] = R[(i + n) - m]
          BY <1>4, <4>1
        <4>3. l[i] = R[(i + n) - m]
          BY <1>9, <2>3, <3>3
        <4> QED
          BY <2>2, <3>1, <3>3, <4>2, <4>3
      <3> QED
        BY <3>2, <3>3
    <2>4. CASE i = m + 1
      <3>1. (i + n) - m = n + 1 /\ ~(m = n + 3 /\ i <= 3)
        BY <2>1, <2>4
      <3> QED
        BY <1>3, <1>4, <2>2, <2>4, <3>1
    <2> QED
      BY <2>1, <2>3, <2>4
  <1>11. FirstRound(a, S) \/ Len(t) <= Len(S)
    <2> HIDE DEF l, m, n, S, t
    <2> QED
      BY <1>2, <1>3, <1>4, <1>7, <1>8
  <1>12. Follows(a, S)
    <2> HIDE DEF l, m, n, S
    <2> QED
      BY <1>5, <1>7, <1>10, <1>11 DEF Follows
  <1> QED
    BY <1>3, <1>4, <1>6, <1>7, <1>12

(* What a registration does to a list in each of the four conditions, with *)
(* R the handlers registered for its outcome.                              *)
Growth(c, R, c2, R2) ==
    /\ c2 \in CallbackList /\ R2 \in Seq(Handlers)
    /\ Len(R2) \in Nat /\ Len(R) <= Len(R2)
    /\ \A i \in 1..Len(R) : R2[i] = R[i]
    /\ Unused(c, R) => Unused(c2, R2)
    /\ Running(c, R) =>
          /\ Running(c2, R2)
          /\ c2.firingIndex = c.firingIndex
          /\ FirstRound(c2, R2) <=> FirstRound(c, R)
          /\ Len(c2.list) + Len(R) = Len(c.list) + Len(R2)
    /\ Rested(c) =>
          \/ c2 = c /\ R2 = R
          \/ /\ Running(c2, R2)
             /\ Len(c2.list) = 1 /\ c2.firingIndex = 0
             /\ Len(R2) = Len(R) + 1
    /\ Dead(c) => Dead(c2)
    /\ (Unused(c, R) \/ Running(c, R) \/ Rested(c) \/ Dead(c)) => (c2.fired = c.fired)

(* A handler is registered, or it is meant for the other outcome. *)
LEMMA Grown ==
    ASSUME NEW c \in CallbackList, NEW R \in Seq(Handlers), NEW h \in Handlers,
           NEW c2, NEW R2,
           (c2 = c /\ R2 = R) \/ (c2 = add(c, h) /\ R2 = Append(R, h))
    PROVE  Growth(c, R, c2, R2)
  <1> DEFINE S == Append(R, h)
             a == add(c, h)
  <1>1. CASE c2 = c /\ R2 = R
    <2>1. Running(c, R) => Len(c.list) \in Nat
      BY DEF Running, Follows, CallbackList
    <2> QED
      BY <1>1, <2>1 DEF Growth
  <1>2. CASE c2 = a /\ R2 = S
    <2>1. /\ S \in Seq(Handlers) /\ Len(S) = Len(R) + 1 /\ Len(S) \in Nat /\ Len(R) \in Nat
          /\ \A i \in 1..Len(R) : S[i] = R[i]
      OBVIOUS
    <2>2. a \in CallbackList
      BY AddFields
    <2> HIDE DEF S
    <2>3. Unused(c, R) => (Unused(a, S) /\ a.fired = c.fired)
      <3> SUFFICES ASSUME Unused(c, R) PROVE Unused(a, S) /\ a.fired = c.fired
        OBVIOUS
      <3>1. Follows(c, R) /\ c.list # null /\ ~c.firing /\ c.memory = null
        BY DEF Unused, Follows
      <3>2. /\ a.list = Append(c.list, h) /\ a.stack = c.stack /\ a.memory = c.memory
            /\ ~a.firing /\ a.fired = c.fired /\ a.firingStart = c.firingStart
        BY <3>1, AddFields
      <3>3. Follows(a, S) /\ (FirstRound(a, S) <=> FirstRound(c, R))
        BY <2>2, <3>1, <3>2, FollowsLonger DEF S
      <3> HIDE DEF a
      <3> QED
        BY <3>2, <3>3 DEF Unused
    <2>4. Running(c, R) =>
             /\ Running(a, S) /\ a.fired = c.fired /\ a.firingIndex = c.firingIndex
             /\ FirstRound(a, S) <=> FirstRound(c, R)
             /\ Len(a.list) + Len(R) = Len(c.list) + Len(S)
      <3> SUFFICES ASSUME Running(c, R)
                   PROVE  /\ Running(a, S) /\ a.fired = c.fired
                          /\ a.firingIndex = c.firingIndex
                          /\ FirstRound(a, S) <=> FirstRound(c, R)
                          /\ Len(a.list) + Len(R) = Len(c.list) + Len(S)
        OBVIOUS
      <3>1. /\ Follows(c, R) /\ c.list # null /\ c.firing
            /\ c.firingIndex <= Len(c.list)
        BY DEF Running, Follows
      <3>2. /\ a.list = Append(c.list, h) /\ a.stack = c.stack /\ a.memory = c.memory
            /\ a.firing /\ a.fired = c.fired /\ a.firingStart = c.firingStart
            /\ a.firingIndex = c.firingIndex /\ a.firingLength = Len(c.list) + 1
        BY <3>1, AddFields
      <3>3. /\ Follows(a, S) /\ (FirstRound(a, S) <=> FirstRound(c, R))
            /\ Len(a.list) = Len(c.list) + 1
        BY <2>2, <3>1, <3>2, FollowsLonger DEF S
      <3>4. Len(c.list) \in Nat /\ c.firingIndex \in Nat
        BY <3>1 DEF CallbackList
      <3> HIDE DEF a
      <3>5. a.firingIndex = c.firingIndex /\ c.firingIndex <= Len(c.list)
        BY <3>1, <3>2
      <3>6. Len(a.list) = Len(c.list) + 1 /\ Len(S) = Len(R) + 1 /\ Len(R) \in Nat
        BY <2>1, <3>3
      <3>7. a.firingIndex <= Len(a.list) /\ Len(a.list) + Len(R) = Len(c.list) + Len(S)
        <4> DEFINE x == c.firingIndex
                   y == Len(c.list)
                   m == Len(R)
                   z == Len(a.list)
                   n == Len(S)
        <4>1. /\ x \in Nat /\ y \in Nat /\ x <= y /\ m \in Nat
              /\ z = y + 1 /\ n = m + 1 /\ a.firingIndex = x
          BY <3>4, <3>5, <3>6
        <4> HIDE DEF x, y, z, m, n
        <4>2. x <= z /\ z + m = y + n
          BY <4>1
        <4> QED
          BY <4>1, <4>2 DEF x, y, z, m, n
      <3> QED
        BY <3>2, <3>3, <3>7 DEF Running
    <2>5. Rested(c) =>
             /\ Running(a, S) /\ a.fired = c.fired
             /\ Len(a.list) = 1 /\ a.firingIndex = 0
      <3> SUFFICES ASSUME Rested(c)
                   PROVE  /\ Running(a, S) /\ a.fired = c.fired
                          /\ Len(a.list) = 1 /\ a.firingIndex = 0
        OBVIOUS
      <3>0. << >> \in Seq(Entry) /\ 0 \in Nat
        BY EmptySeq
      <3>1. /\ c.list = << >> /\ c.list # null /\ ~c.firing /\ c.memory # null
        BY <3>0, NullApart DEF Rested
      <3>2. /\ a.list = Append(c.list, h) /\ a.stack = c.stack /\ a.memory = c.memory
            /\ a.firing /\ a.fired
            /\ a.firingIndex = Len(c.list) /\ a.firingStart = 0
            /\ a.firingLength = Len(c.list) + 1
        BY <3>1, AddFields
      <3>3. Len(c.list) = 0 /\ Follows(c, R)
        BY <2>1, <3>1 DEF Follows
      <3>4. /\ Follows(a, S) /\ Len(a.list) = Len(c.list) + 1
        BY <2>2, <3>2, <3>3, FollowsLonger DEF S
      <3> HIDE DEF a
      <3> QED
        BY <3>2, <3>3, <3>4 DEF Running, Rested
    <2>6. Dead(c) => (a = c)
      BY AddFields DEF Dead
    <2>7. Dead(c) => (Dead(a) /\ a.fired = c.fired)
      BY <2>6
    <2>8. Len(R) <= Len(S)
      BY <2>1
    <2> HIDE DEF a
    <2> QED
      BY <1>2, <2>1, <2>2, <2>3, <2>4, <2>5, <2>7, <2>8 DEF Growth
  <1> QED
    BY <1>1, <1>2

(* resolve and reject: the first call starts the loop, and a later one     *)
(* finds the list locked or gone.                                          *)
LEMMA FireOnce ==
    ASSUME NEW c \in CallbackList, NEW R \in Seq(Handlers)
    PROVE  LET a == fireWith(c, 0) IN
           /\ a \in CallbackList
           /\ Unused(c, R) => /\ Running(a, R) /\ FirstRound(a, R) /\ a.firingIndex = 0
           /\ (Running(c, R) \/ Rested(c) \/ Dead(c)) => (a = c)
  <1> DEFINE a == fireWith(c, 0)
  <1>1. a \in CallbackList
    BY FireWithFields
  <1>2. ASSUME Unused(c, R)
        PROVE  Running(a, R) /\ FirstRound(a, R) /\ a.firingIndex = 0
    <2>1. c.list # null /\ ~c.fired /\ c.stack = null /\ Follows(c, R) /\ FirstRound(c, R)
      BY <1>2 DEF Unused, Follows
    <2>2. a = fire(c, 0)
      BY <2>1, FireWithFields
    <2>3. /\ a.list = c.list /\ a.stack = c.stack
          /\ a.firing /\ a.fired /\ a.memory = 0
          /\ a.firingIndex = c.firingStart /\ a.firingStart = 0
          /\ a.firingLength = Len(c.list)
      BY <2>1, <2>2, FireFields
    <2>4. Follows(a, R) /\ FirstRound(a, R)
      BY <2>1, <2>3, SameList
    <2> HIDE DEF a
    <2>5. Len(c.list) \in Nat /\ c.firingStart = 0
      BY <1>2, <2>1 DEF CallbackList, Unused
    <2> HIDE DEF a
    <2> QED
      BY <2>1, <2>3, <2>4, <2>5 DEF Running
  <1>3. (Running(c, R) \/ Rested(c) \/ Dead(c)) => (a = c)
    BY FireWithFields DEF Running, Rested, Dead
  <1> QED
    BY <1>1, <1>2, <1>3

-----------------------------------------------------------------------------
(* A promise between two turns of its loops, and while one of them is      *)
(* still busy with the callbacks of Deferred: o, l, r and cs are its       *)
(* state, lists, registrations and calls.                                  *)

Final == {"resolved", "rejected"}

(* cs is the beginning of R. *)
Handed(cs, R) ==
    /\ Len(cs) <= Len(R)
    /\ \A i \in 1..Len(cs) : cs[i] = R[i]

(* A promise that code of the page may see: while it is pending nobody was *)
(* called and both lists are unused; once it is settled the other list is  *)
(* dead, the calls are a beginning of the registrations, and its own list  *)
(* either has called them all or is calling them.                          *)
Calm(o, l, r, cs) ==
    /\ (o = "pending") =>
          /\ cs = << >>
          /\ \A k \in Settling : Unused(l[k], r[Outcome(k)])
    /\ \A k \in Settling : (o = Outcome(k)) =>
          /\ Dead(l[Other(k)])
          /\ Handed(cs, r[Outcome(k)])
          /\ \/ Rested(l[k]) /\ Len(cs) = Len(r[Outcome(k)])
             \/ Running(l[k], r[Outcome(k)]) /\ ~Prelude(l[k], r[Outcome(k)])

(* The loop of k is with the callbacks of Deferred: settle comes first,    *)
(* then disable, then lock.                                                *)
Opening(o, l, r, cs, k) ==
    /\ cs = << >>
    /\ Running(l[k], r[Outcome(k)])
    /\ Prelude(l[k], r[Outcome(k)])
    /\ \/ /\ o = "pending" /\ l[k].firingIndex = 0
          /\ Unused(l[Other(k)], r[Outcome(Other(k))])
       \/ /\ o = Outcome(k) /\ l[k].firingIndex >= 1
          /\ \/ Dead(l[Other(k)])
             \/ l[k].firingIndex = 1 /\ Unused(l[Other(k)], r[Outcome(Other(k))])

(* How far a loop has got: the calls, the list and the index agree. *)
InStep(f, l, r, cs) ==
    LET c == l[f.kind]
        R == r[Outcome(f.kind)]
    IN  /\ c.firing
        /\ (f.kind \in Settling) =>
              IF f.running # null
              THEN /\ ~Prelude(c, R)
                   /\ Len(cs) + Len(c.list) = c.firingIndex + Len(R) + 1
              ELSE ~Prelude(c, R) => (Len(cs) + Len(c.list) = c.firingIndex + Len(R))

(* The three kinds of list and the two outcomes. *)
LEMMA KindFacts ==
    /\ \A k \in Settling :
          /\ k \in Kinds /\ k # "progress"
          /\ Other(k) \in Settling /\ Other(k) # k /\ Other(Other(k)) = k
          /\ Outcome(k) \in Final /\ Outcome(k) # "pending"
          /\ Outcome(Other(k)) # Outcome(k)
          /\ \A j \in Settling : j = k \/ j = Other(k)
    /\ \A k \in Kinds : k \in Settling \/ k = "progress"
    /\ \A k \in Kinds : Outcome(k) \in Final
    /\ \A o \in Final : \E k \in Settling : o = Outcome(k)
    /\ "done" \in Settling /\ "fail" \in Settling /\ "progress" \in Kinds
    /\ "progress" \notin Settling
    /\ Outcome("done") = "resolved" /\ Outcome("fail") = "rejected"
    /\ Other("done") = "fail" /\ Other("fail") = "done"
    /\ "pending" \notin Final
  BY DEF Settling, Kinds, Other, Outcome, Final

(* A list that fires is running; the list of the other outcome is idle. *)
LEMMA CalmFiring ==
    ASSUME NEW o \in {"pending", "resolved", "rejected"}, NEW l, NEW r, NEW cs,
           Calm(o, l, r, cs), NEW k \in Settling, l[k].firing
    PROVE  /\ o = Outcome(k)
           /\ Running(l[k], r[Outcome(k)])
           /\ ~Prelude(l[k], r[Outcome(k)])
           /\ Handed(cs, r[Outcome(k)])
           /\ Dead(l[Other(k)])
  <1>1. o # "pending"
    BY DEF Calm, Unused
  <1>2. PICK j \in Settling : o = Outcome(j)
    BY <1>1, KindFacts DEF Final
  <1>3. j = k
    <2>1. CASE j = Other(k)
      <3>1. Other(j) = k
        BY <2>1, KindFacts
      <3>2. Dead(l[k])
        BY <1>2, <3>1 DEF Calm
      <3> QED
        BY <3>2 DEF Dead
    <2> QED
      BY <2>1, KindFacts
  <1>4. ~Rested(l[k])
    BY DEF Rested
  <1> QED
    BY <1>2, <1>3, <1>4 DEF Calm

(* What a registration does to a promise: the loops under way stay in      *)
(* step, and at most the list of its outcome starts a new one.             *)
Regrown(o, l, r, l2, r2, cs) ==
    /\ Calm(o, l2, r2, cs)
    /\ \A f \in Frame : InStep(f, l, r, cs) => InStep(f, l2, r2, cs)
    /\ \A k \in Settling :
          /\ l2[k].fired = l[k].fired
          /\ l[k].firing => l2[k].firing
          /\ (l2[k].firing /\ ~l[k].firing) =>
                /\ o = Outcome(k)
                /\ l2[Other(k)].firing = l[Other(k)].firing
                /\ \A f \in Frame : (f.kind = k /\ f.running = null)
                                        => InStep(f, l2, r2, cs)

(* done, fail and always leave a calm promise calm, in whichever of the    *)
(* four conditions its lists are.                                          *)
LEMMA CalmGrown ==
    ASSUME NEW o \in {"pending", "resolved", "rejected"},
           NEW l \in [Kinds -> CallbackList], NEW r \in [Final -> Seq(Handlers)],
           NEW cs \in Seq(Handlers), NEW h \in Handlers,
           NEW l2 \in [Kinds -> CallbackList], NEW r2 \in [Final -> Seq(Handlers)],
           \A k \in Settling :
              \/ l2[k] = l[k] /\ r2[Outcome(k)] = r[Outcome(k)]
              \/ l2[k] = add(l[k], h) /\ r2[Outcome(k)] = Append(r[Outcome(k)], h),
           l2["progress"] = l["progress"],
           Calm(o, l, r, cs)
    PROVE  Regrown(o, l, r, l2, r2, cs)
  <1> DEFINE R(k) == r[Outcome(k)]
             S(k) == r2[Outcome(k)]
             G(k) == Growth(l[k], R(k), l2[k], S(k))
  <1>1. ASSUME NEW k \in Settling
        PROVE  G(k)
    <2> DEFINE c == l[k]
               c2 == l2[k]
               A == R(k)
               B == S(k)
    <2>1. c \in CallbackList /\ A \in Seq(Handlers) /\ Len(A) \in Nat
      BY KindFacts
    <2>2. (c2 = c /\ B = A) \/ (c2 = add(c, h) /\ B = Append(A, h))
      OBVIOUS
    <2> HIDE DEF c, c2, A, B
    <2>3. Growth(c, A, c2, B)
      BY <2>1, <2>2, Grown
    <2> QED
      BY <2>3 DEF c, c2, A, B
  <1> HIDE DEF G
  <1>0. \A k \in Settling : Len(R(k)) \in Nat
    BY KindFacts
  <1>2. ASSUME NEW k \in Settling
        PROVE  Unused(l[k], R(k)) \/ Running(l[k], R(k)) \/ Rested(l[k]) \/ Dead(l[k])
    BY KindFacts DEF Calm, Final
  <1>3. ASSUME NEW k \in Settling, Handed(cs, R(k))
        PROVE  Handed(cs, S(k))
    <2>1. Len(cs) \in Nat
      OBVIOUS
    <2>2. Len(S(k)) \in Nat /\ Len(R(k)) \in Nat /\ Len(R(k)) <= Len(S(k))
          /\ \A i \in 1..Len(R(k)) : S(k)[i] = R(k)[i]
      BY <1>0, <1>1 DEF G, Growth
    <2> HIDE DEF R, S
    <2> QED
      BY <1>3, <2>1, <2>2 DEF Handed
  <1>4. ASSUME NEW k \in Settling, Running(l[k], R(k)), ~Prelude(l[k], R(k))
        PROVE  Running(l2[k], S(k)) /\ ~Prelude(l2[k], S(k))
    <2> HIDE DEF R, S
    <2> QED
      BY <1>1, <1>4 DEF G, Growth, Prelude
  <1>5. ASSUME NEW k \in Settling, Rested(l[k]), Len(cs) = Len(R(k))
        PROVE  \/ l2[k] = l[k] /\ S(k) = R(k)
               \/ /\ Running(l2[k], S(k)) /\ ~Prelude(l2[k], S(k))
                  /\ Len(cs) + Len(l2[k].list) = l2[k].firingIndex + Len(S(k))
    <2>1. CASE l2[k] = l[k] /\ S(k) = R(k)
      BY <2>1
    <2>2. CASE ~(l2[k] = l[k] /\ S(k) = R(k))
      <3>1. /\ Running(l2[k], S(k))
            /\ Len(l2[k].list) = 1 /\ l2[k].firingIndex = 0
            /\ Len(S(k)) = Len(R(k)) + 1 /\ Len(R(k)) \in Nat
        BY <1>0, <1>1, <1>5, <2>2 DEF G, Growth
      <3> DEFINE n == Len(R(k))
                 m == Len(S(k))
                 c == l2[k]
      <3>2. n \in Nat /\ m = n + 1 /\ Len(cs) = n /\ Len(c.list) = 1 /\ c.firingIndex = 0
        BY <1>5, <3>1
      <3> HIDE DEF n, m, c
      <3>3. Len(c.list) # m + 3 /\ Len(cs) + Len(c.list) = c.firingIndex + m
        BY <3>2
      <3> QED
        BY <3>1, <3>3 DEF n, m, c, Prelude, FirstRound
    <2> QED
      BY <2>1, <2>2
  <1>6. Calm(o, l2, r2, cs)
    <2>1. ASSUME o = "pending"
          PROVE  cs = << >> /\ \A k \in Settling : Unused(l2[k], S(k))
      <3>1. cs = << >> /\ \A k \in Settling : Unused(l[k], R(k))
        BY <2>1 DEF Calm
      <3> QED
        BY <1>1, <3>1 DEF G, Growth
    <2>2. ASSUME NEW k \in Settling, o = Outcome(k)
          PROVE  /\ Dead(l2[Other(k)])
                 /\ Handed(cs, S(k))
                 /\ \/ Rested(l2[k]) /\ Len(cs) = Len(S(k))
                    \/ Running(l2[k], S(k)) /\ ~Prelude(l2[k], S(k))
      <3>1. /\ Dead(l[Other(k)]) /\ Other(k) \in Settling
            /\ Handed(cs, R(k))
            /\ \/ Rested(l[k]) /\ Len(cs) = Len(R(k))
               \/ Running(l[k], R(k)) /\ ~Prelude(l[k], R(k))
        BY <2>2, KindFacts DEF Calm
      <3>2. Dead(l2[Other(k)])
        BY <1>1, <3>1 DEF G, Growth
      <3> HIDE DEF R, S
      <3>3. Handed(cs, S(k))
        BY <1>3, <3>1
      <3> QED
        BY <1>4, <1>5, <3>1, <3>2, <3>3
    <2> QED
      BY <2>1, <2>2 DEF Calm
  <1>7. ASSUME NEW f \in Frame, InStep(f, l, r, cs)
        PROVE  InStep(f, l2, r2, cs)
    <2>1. f.kind \in Kinds
      BY DEF Frame
    <2>2. CASE f.kind = "progress"
      BY <1>7, <2>2, KindFacts DEF InStep
    <2>3. CASE f.kind \in Settling
      <3> DEFINE k == f.kind
                 c == l[k]
                 c2 == l2[k]
                 A == R(k)
                 B == S(k)
      <3>1. c.firing
        BY <1>7 DEF InStep
      <3>2. Running(c, A) /\ ~Prelude(c, A)
        BY <2>3, <3>1, CalmFiring
      <3>3. /\ Running(c2, B) /\ ~Prelude(c2, B) /\ c2.firingIndex = c.firingIndex
            /\ Len(c2.list) + Len(A) = Len(c.list) + Len(B)
            /\ Len(A) \in Nat /\ Len(B) \in Nat
        <4> HIDE DEF R, S
        <4> QED
          BY <1>0, <1>1, <1>4, <2>3, <3>2 DEF G, Growth
      <3>4. c2.firing
        BY <3>3 DEF Running
      <3>5. Len(cs) \in Nat /\ c.firingIndex \in Nat
        BY <2>1 DEF CallbackList
      <3>6. /\ Len(c.list) \in Nat /\ Len(c2.list) \in Nat
        BY <2>1, <3>2, <3>3 DEF Running, Follows, CallbackList
      <3>7. /\ (f.running # null) => (Len(cs) + Len(c.list) = c.firingIndex + Len(A) + 1)
            /\ (f.running = null) => (Len(cs) + Len(c.list) = c.firingIndex + Len(A))
        BY <1>7, <2>3, <3>2 DEF InStep
      <3> DEFINE i == c.firingIndex
                 x == Len(cs)
                 m == Len(c.list)
                 m2 == Len(c2.list)
                 n == Len(A)
                 n2 == Len(B)
      <3>8. /\ (x + m = i + n + 1) => (x + m2 = i + n2 + 1)
            /\ (x + m = i + n) => (x + m2 = i + n2)
        <4>1. i \in Nat /\ x \in Nat /\ m \in Nat /\ m2 \in Nat /\ n \in Nat /\ n2 \in Nat
              /\ m2 + n = m + n2
          BY <3>3, <3>5, <3>6
        <4> HIDE DEF i, x, m, m2, n, n2
        <4> QED
          BY <4>1
      <3> HIDE DEF c, c2, A, B
      <3>9. /\ (f.running # null) => (Len(cs) + Len(c2.list) = c2.firingIndex + Len(B) + 1)
            /\ (f.running = null) => (Len(cs) + Len(c2.list) = c2.firingIndex + Len(B))
        BY <3>3, <3>7, <3>8
      <3> QED
        BY <3>3, <3>4, <3>9 DEF InStep, c2, B
    <2> QED
      BY <2>1, <2>2, <2>3, KindFacts
  <1>8. ASSUME NEW k \in Settling
        PROVE  /\ l2[k].fired = l[k].fired
               /\ l[k].firing => l2[k].firing
    <2>1. l2[k].fired = l[k].fired
      BY <1>1, <1>2 DEF G, Growth
    <2>2. ASSUME l[k].firing
          PROVE  l2[k].firing
      <3>1. Running(l[k], R(k)) /\ ~Prelude(l[k], R(k))
        BY <2>2, CalmFiring
      <3>2. Running(l2[k], S(k))
        <4> HIDE DEF R, S
        <4> QED
          BY <1>4, <3>1
      <3> QED
        BY <3>2 DEF Running
    <2> QED
      BY <2>1, <2>2
  <1>9. ASSUME NEW k \in Settling, l2[k].firing, ~l[k].firing
        PROVE  /\ o = Outcome(k)
               /\ l2[Other(k)].firing = l[Other(k)].firing
               /\ \A f \in Frame : (f.kind = k /\ f.running = null) => InStep(f, l2, r2, cs)
    <2>1. o = Outcome(k) /\ Dead(l2[Other(k)])
      BY <1>6, <1>9, CalmFiring
    <2>2. Dead(l[Other(k)]) /\ (Rested(l[k]) /\ Len(cs) = Len(R(k)))
      BY <1>9, <2>1 DEF Calm, Running
    <2>3. ~l2[Other(k)].firing /\ ~l[Other(k)].firing
      BY <2>1, <2>2 DEF Dead
    <2>4. l2[Other(k)].firing = l[Other(k)].firing
      <3>1. l2[Other(k)].firing \in BOOLEAN /\ l[Other(k)].firing \in BOOLEAN
        BY KindFacts DEF CallbackList
      <3> QED
        BY <2>3, <3>1
    <2>5. Len(cs) + Len(l2[k].list) = l2[k].firingIndex + Len(S(k))
      <3> HIDE DEF R, S
      <3> QED
        BY <1>5, <1>9, <2>2
    <2> QED
      BY <1>9, <2>1, <2>4, <2>5, KindFacts DEF InStep
  <1> QED
    BY <1>6, <1>7, <1>8, <1>9 DEF Regrown

(* The lists of a promise when one of them is fired, goes on to its next   *)
(* callback, comes to its end, or has called one of Deferred's callbacks.  *)
Fired(l, k) == [l EXCEPT ![k] = fireWith(l[k], 0)]

Advanced(l, k) == [l EXCEPT ![k].firingIndex = @ + 1]

Ended(l, k) == [l EXCEPT ![k] = endFire(l[k])]

(* What resolve and reject do: nothing, or the first loop of a list. *)
SettledOnce(o, l, l2, r, cs, k) ==
    /\ l2 \in [Kinds -> CallbackList]
    /\ \/ l2 = l
       \/ /\ o = "pending" /\ Opening(o, l2, r, cs, k)
          /\ ~l[k].firing /\ l2[k].firing /\ cs = << >>

(* resolve or reject, called by code of the page. *)
LEMMA CalmFired ==
    ASSUME NEW o \in {"pending", "resolved", "rejected"},
           NEW l \in [Kinds -> CallbackList], NEW r \in [Final -> Seq(Handlers)],
           NEW cs \in Seq(Handlers), NEW k \in Settling, NEW l2,
           l2 = Fired(l, k),
           Calm(o, l, r, cs)
    PROVE  SettledOnce(o, l, l2, r, cs, k)
  <1> DEFINE c == l[k]
             R == r[Outcome(k)]
             a == fireWith(c, 0)
  <1>1. c \in CallbackList /\ R \in Seq(Handlers) /\ k \in Kinds
    BY KindFacts
  <1>2. /\ a \in CallbackList
        /\ Unused(c, R) => /\ Running(a, R) /\ FirstRound(a, R) /\ a.firingIndex = 0
        /\ (Running(c, R) \/ Rested(c) \/ Dead(c)) => (a = c)
    BY <1>1, FireOnce
  <1>3. l2 = [l EXCEPT ![k] = a]
    BY DEF Fired
  <1> HIDE DEF a
  <1>4. l2 \in [Kinds -> CallbackList] /\ l2[k] = a /\ (\A j \in Kinds : j # k => l2[j] = l[j])
    BY <1>1, <1>2, <1>3
  <1>5. CASE o = "pending"
    <2>1. cs = << >> /\ Unused(c, R) /\ Other(k) \in Settling /\ Other(k) # k
          /\ Unused(l[Other(k)], r[Outcome(Other(k))])
      BY <1>5, KindFacts DEF Calm
    <2>2. l2[Other(k)] = l[Other(k)]
      BY <1>4, <2>1, KindFacts
    <2>3. Running(a, R) /\ FirstRound(a, R) /\ a.firingIndex = 0
      BY <1>2, <2>1
    <2>4. ~l[k].firing /\ l2[k].firing
      BY <1>4, <2>1, <2>3 DEF Unused, Running
    <2>5. Opening(o, l2, r, cs, k)
      <3> HIDE DEF R
      <3>1. Running(l2[k], R) /\ FirstRound(l2[k], R) /\ l2[k].firingIndex = 0
        BY <1>4, <2>3
      <3>2. Prelude(l2[k], R)
        BY <3>1 DEF Prelude
      <3> QED
        BY <1>5, <2>1, <2>2, <3>1, <3>2 DEF Opening, R
    <2> QED
      BY <1>4, <1>5, <2>1, <2>4, <2>5 DEF SettledOnce
  <1>6. CASE o # "pending"
    <2>1. PICK j \in Settling : o = Outcome(j)
      BY <1>6, KindFacts DEF Final
    <2>2. Running(c, R) \/ Rested(c) \/ Dead(c)
      BY <2>1, KindFacts DEF Calm
    <2>3. a = l[k]
      BY <1>2, <2>2
    <2>4. l2 = l
      BY <1>3, <2>3
    <2> QED
      BY <1>4, <2>4 DEF SettledOnce
  <1> QED
    BY <1>5, <1>6

(* While the promise opens, the next callback of the list is Deferred's    *)
(* own: settle at index 0, disable at 1, lock at 2.                        *)
LEMMA OpeningFacts ==
    ASSUME NEW o, NEW l \in [Kinds -> CallbackList], NEW r \in [Final -> Seq(Handlers)],
           NEW cs, NEW k \in Settling, Opening(o, l, r, cs, k)
    PROVE  /\ l[k].firing /\ l[k].fired
           /\ ~l[Other(k)].firing
           /\ HasNext(l[k])
           /\ Callback(l[k]) = Own[l[k].firingIndex + 1]
           /\ l[k].firingIndex \in {0, 1, 2}
           /\ Callback(l[k]) \in Internal
           /\ (Callback(l[k]) = "settle") <=> (l[k].firingIndex = 0)
           /\ (Callback(l[k]) = "disable") <=> (l[k].firingIndex = 1)
           /\ (Callback(l[k]) = "lock") <=> (l[k].firingIndex = 2)
           /\ (l[k].firingIndex = 0) => (o = "pending")
           /\ (l[k].firingIndex # 0) => (o = Outcome(k))
           /\ Len(l[k].list) = Len(r[Outcome(k)]) + 3
           /\ Len(r[Outcome(k)]) \in Nat
           /\ cs = << >>
  <1> DEFINE c == l[k]
             R == r[Outcome(k)]
             i == c.firingIndex
             n == Len(R)
             m == Len(c.list)
  <1>1. /\ Running(c, R) /\ Prelude(c, R) /\ cs = << >>
        /\ (i = 0) => (o = "pending")
        /\ (i # 0) => (o = Outcome(k))
        /\ Dead(l[Other(k)]) \/ Unused(l[Other(k)], r[Outcome(Other(k))])
    <2>1. /\ Running(c, R) /\ Prelude(c, R) /\ cs = << >>
          /\ \/ o = "pending" /\ i = 0 /\ Unused(l[Other(k)], r[Outcome(Other(k))])
             \/ /\ o = Outcome(k) /\ i >= 1
                /\ Dead(l[Other(k)]) \/ Unused(l[Other(k)], r[Outcome(Other(k))])
      BY DEF Opening
    <2> HIDE DEF c, R, i
    <2>2. ~(0 >= 1)
      OBVIOUS
    <2> QED
      BY <2>1, <2>2
  <1>2. c \in CallbackList /\ R \in Seq(Handlers) /\ n \in Nat /\ i \in Nat
    <2>1. k \in Kinds /\ Outcome(k) \in Final
      BY KindFacts
    <2>2. c \in CallbackList /\ R \in Seq(Handlers)
      BY <2>1
    <2> HIDE DEF c, R
    <2> QED
      BY <2>2 DEF CallbackList
  <1>3. FirstRound(c, R) /\ m = n + 3 /\ i < 3
    BY <1>1 DEF Prelude, FirstRound
  <1>4. c.list # null /\ c.firingLength = m /\ c.firing /\ c.fired
        /\ (\A j \in 1..m : c.list[j] = IF FirstRound(c, R) /\ j <= 3 THEN Own[j]
                                        ELSE R[(j + n) - m])
    BY <1>1 DEF Running, Follows
  <1> HIDE DEF c, R, n, m, i
  <1>5. i \in {0, 1, 2} /\ i + 1 \in 1..m /\ i + 1 <= 3 /\ i < m
    BY <1>2, <1>3
  <1>6. c.list[i + 1] = Own[i + 1]
    BY <1>3, <1>4, <1>5
  <1>7. Own[1] = "settle" /\ Own[2] = "disable" /\ Own[3] = "lock"
    BY DEF Own
  <1>8. /\ Own[i + 1] \in Internal
        /\ (Own[i + 1] = "settle") <=> (i = 0)
        /\ (Own[i + 1] = "disable") <=> (i = 1)
        /\ (Own[i + 1] = "lock") <=> (i = 2)
    <2>1. CASE i = 0
      BY <1>7, <2>1 DEF Internal
    <2>2. CASE i = 1
      BY <1>7, <2>2 DEF Internal
    <2>3. CASE i = 2
      BY <1>7, <2>3 DEF Internal
    <2> QED
      BY <1>5, <2>1, <2>2, <2>3
  <1>9. HasNext(c) /\ Callback(c) = Own[i + 1]
    BY <1>4, <1>5, <1>6 DEF HasNext, Callback, i
  <1>10. ~l[Other(k)].firing
    BY <1>1 DEF Dead, Unused
  <1> QED
    BY <1>1, <1>2, <1>3, <1>4, <1>5, <1>8, <1>9, <1>10 DEF c, R, n, m, i

(* The index of a list moves on. *)
LEMMA Advance ==
    ASSUME NEW c \in CallbackList, NEW R \in Seq(Handlers),
           Running(c, R), c.firingIndex < Len(c.list), NEW a,
           a = [c EXCEPT !.firingIndex = @ + 1]
    PROVE  /\ a \in CallbackList
           /\ a.firingIndex = c.firingIndex + 1
           /\ a.list = c.list
           /\ Running(a, R)
           /\ FirstRound(a, R) <=> FirstRound(c, R)
           /\ a.fired = c.fired /\ a.firing = c.firing
  <1>1. /\ a \in CallbackList /\ a.firingIndex = c.firingIndex + 1
        /\ a.list = c.list /\ a.stack = c.stack /\ a.memory = c.memory
        /\ a.fired = c.fired /\ a.firing = c.firing
        /\ a.firingStart = c.firingStart /\ a.firingLength = c.firingLength
    BY DEF CallbackList
  <1>2. /\ FirstRound(a, R) <=> FirstRound(c, R)
        /\ Follows(a, R)
    BY <1>1, SameList DEF Running
  <1>3. a.firingIndex <= Len(a.list)
    <2> DEFINE i == c.firingIndex
               m == Len(c.list)
    <2>1. i \in Nat /\ m \in Nat /\ i < m
      BY DEF CallbackList, Running, Follows
    <2> HIDE DEF i, m
    <2>2. i + 1 <= m
      BY <2>1
    <2> QED
      BY <1>1, <2>2 DEF i, m
  <1> QED
    BY <1>1, <1>2, <1>3 DEF Running

(* What one of Deferred's own callbacks leaves: the promise has its        *)
(* outcome, and goes on opening or is calm.                                *)
InternalDone(l, r, cs, k, b, l2, p) ==
    /\ l2 \in [Kinds -> CallbackList]
    /\ p = Outcome(k)
    /\ Opening(p, l2, r, cs, k) \/ Calm(p, l2, r, cs)
    /\ \A f \in Frame : (f.kind = k /\ f.running = null) => InStep(f, l2, r, cs)
    /\ \A f \in Frame : (f.kind # k /\ InStep(f, l, r, cs)) => InStep(f, l2, r, cs)
    /\ \A j \in Kinds : l2[j].fired = l[j].fired /\ l2[j].firing = l[j].firing
    /\ l2["progress"] = IF b = "lock" THEN lock(l["progress"]) ELSE l["progress"]

(* One of the three callbacks of Deferred. *)
LEMMA OpeningStep ==
    ASSUME NEW o \in {"pending", "resolved", "rejected"},
           NEW l \in [Kinds -> CallbackList], NEW r \in [Final -> Seq(Handlers)],
           NEW cs, NEW k \in Settling, Opening(o, l, r, cs, k),
           NEW b, b = Callback(l[k]), NEW l2,
           l2 = afterCall(l, k, b),
           NEW p, p = IF b = "settle" THEN Outcome(k) ELSE o
    PROVE  InternalDone(l, r, cs, k, b, l2, p)
  <1> DEFINE j == Other(k)
             c == l[k]
             R == r[Outcome(k)]
             e == l[j]
             S == r[Outcome(j)]
             g == l["progress"]
             c2 == [c EXCEPT !.firingIndex = @ + 1]
             e2 == IF b = "disable" THEN disable(e) ELSE e
             g2 == IF b = "lock" THEN lock(g) ELSE g
             i == c.firingIndex
  <1>1. /\ k \in Kinds /\ j \in Kinds /\ j # k /\ k # "progress" /\ j # "progress"
        /\ "progress" \in Kinds /\ j \in Settling /\ Outcome(j) # Outcome(k)
        /\ Outcome(k) \in Final /\ Outcome(j) \in Final
        /\ \A x \in Kinds : x = k \/ x = j \/ x = "progress"
        /\ \A x \in Settling : x = k \/ x = j
        /\ Other(j) = k /\ "progress" \notin Settling
        /\ Outcome(k) # "pending"
    BY KindFacts
  <1>2. /\ c \in CallbackList /\ e \in CallbackList /\ g \in CallbackList
        /\ R \in Seq(Handlers) /\ S \in Seq(Handlers) /\ Len(R) \in Nat
    BY <1>1
  <1>3. /\ c.firing /\ c.fired /\ ~e.firing
        /\ i \in {0, 1, 2}
        /\ (b = "settle") <=> (i = 0)
        /\ (b = "disable") <=> (i = 1)
        /\ (b = "lock") <=> (i = 2)
        /\ (i = 0) => (o = "pending")
        /\ (i # 0) => (o = Outcome(k))
        /\ Len(c.list) = Len(R) + 3
        /\ cs = << >>
    BY OpeningFacts
  <1>4. Running(c, R) /\ FirstRound(c, R)
    BY DEF Opening, Prelude
  <1>5. /\ c2 \in CallbackList /\ c2.firingIndex = i + 1 /\ c2.list = c.list
        /\ Running(c2, R) /\ FirstRound(c2, R)
        /\ c2.fired = c.fired /\ c2.firing = c.firing
    <2>1. i < Len(c.list)
      <3> DEFINE n == Len(R)
                 m == Len(c.list)
      <3>1. n \in Nat /\ m = n + 3 /\ i \in {0, 1, 2}
        BY <1>2, <1>3
      <3> HIDE DEF n, m, i
      <3>2. i < m
        BY <3>1
      <3> QED
        BY <3>2 DEF m
    <2> QED
      BY <1>2, <1>4, <2>1, Advance
  <1>6. /\ e2 \in CallbackList /\ e2.firing = e.firing /\ e2.fired = e.fired
        /\ Dead(e) => Dead(e2)
        /\ (b = "disable") => Dead(e2)
        /\ (b # "disable") => (e2 = e)
    <2>1. CASE b = "disable"
      BY <1>2, <1>3, <2>1, DisableFields DEF Dead
    <2>2. CASE b # "disable"
      BY <1>2, <2>2
    <2> QED
      BY <2>1, <2>2
  <1>7. g2 \in CallbackList /\ g2.firing = g.firing /\ g2.fired = g.fired
    BY <1>2, LockFields
  <1>8. /\ l2[k] = c2 /\ l2[j] = e2 /\ l2["progress"] = g2
        /\ l2 \in [Kinds -> CallbackList]
    <2>1. l2 = afterCall(l, k, b)
      OBVIOUS
    <2> HIDE DEF c
    <2>2. l2[k] = [c EXCEPT !.firingIndex = @ + 1]
      BY <1>1, <2>1 DEF afterCall, c
    <2>3. l2[j] = IF b = "disable" THEN disable(l[j]) ELSE l[j]
      BY <1>1, <2>1 DEF afterCall
    <2>4. l2["progress"] = IF b = "lock" THEN lock(l["progress"]) ELSE l["progress"]
      BY <1>1, <2>1 DEF afterCall
    <2>5. l2 = [x \in Kinds |-> l2[x]]
      BY <2>1 DEF afterCall
    <2>6. l2[k] = c2 /\ l2[j] = e2 /\ l2["progress"] = g2
      BY <2>2, <2>3, <2>4
    <2>7. \A x \in Kinds : l2[x] \in CallbackList
      <3> HIDE DEF c2, e2, g2
      <3> QED
        BY <1>1, <1>5, <1>6, <1>7, <2>6
    <2> QED
      BY <2>5, <2>6, <2>7
  <1> HIDE DEF c2, e2, g2
  <1>9. p = Outcome(k)
    BY <1>3
  <1>10. ASSUME NEW f \in Frame, f.kind = k, f.running = null
         PROVE  InStep(f, l2, r, cs)
    <2>1. c2.firing
      BY <1>3, <1>5
    <2>2. ~Prelude(c2, R) => (Len(cs) + Len(c2.list) = c2.firingIndex + Len(R))
      <3> DEFINE n == Len(R)
                 m == Len(c.list)
      <3>1. ASSUME ~Prelude(c2, R)
            PROVE  i = 2
        <4>1. ~(i + 1 < 3)
          BY <1>5, <3>1 DEF Prelude
        <4> HIDE DEF i
        <4> QED
          BY <1>3, <4>1
      <3>2. n \in Nat /\ m = n + 3 /\ Len(cs) = 0
        BY <1>2, <1>3
      <3> HIDE DEF n, m, i
      <3>3. (i = 2) => (Len(cs) + m = (i + 1) + n)
        BY <3>2
      <3> QED
        BY <1>5, <3>1, <3>3 DEF n, m, i
    <2> QED
      BY <1>1, <1>8, <1>10, <2>1, <2>2 DEF InStep
  <1>11. ASSUME NEW f \in Frame, f.kind # k, InStep(f, l, r, cs)
         PROVE  InStep(f, l2, r, cs)
    <2>1. f.kind \in Kinds
      BY DEF Frame
    <2>2. f.kind # j
      BY <1>3, <1>11 DEF InStep
    <2>3. f.kind = "progress"
      BY <1>1, <1>11, <2>1, <2>2
    <2> QED
      BY <1>1, <1>7, <1>8, <1>11, <2>3 DEF InStep
  <1>12. \A x \in Kinds : l2[x].fired = l[x].fired /\ l2[x].firing = l[x].firing
    BY <1>1, <1>5, <1>6, <1>7, <1>8
  <1>13. Opening(p, l2, r, cs, k) \/ Calm(p, l2, r, cs)
    <2>1. CASE i = 0 \/ i = 1
      <3>1. Prelude(c2, R) /\ c2.firingIndex >= 1
        <4>1. i + 1 < 3 /\ i + 1 >= 1
          BY <2>1
        <4> QED
          BY <1>5, <4>1 DEF Prelude
      <3>2. Dead(e2) \/ (c2.firingIndex = 1 /\ Unused(e2, S))
        <4>1. CASE i = 0
          <5>1. Unused(e, S) /\ e2 = e
            BY <1>1, <1>3, <1>6, <4>1 DEF Opening
          <5> QED
            BY <1>5, <4>1, <5>1
        <4>2. CASE i = 1
          BY <1>3, <1>6, <4>2
        <4> QED
          BY <2>1, <4>1, <4>2
      <3> QED
        BY <1>3, <1>5, <1>8, <1>9, <3>1, <3>2 DEF Opening
    <2>2. CASE i = 2
      <3>1. ~Prelude(c2, R)
        BY <1>5, <2>2 DEF Prelude
      <3>2. Dead(e2)
        <4>1. Dead(e)
          BY <1>3, <2>2 DEF Opening
        <4> QED
          BY <1>6, <4>1
      <3>3. Handed(cs, R)
        <4>1. Len(cs) = 0 /\ \A x \in 1..Len(cs) : FALSE
          BY <1>3
        <4> QED
          BY <1>2, <4>1 DEF Handed
      <3> QED
        BY <1>1, <1>5, <1>8, <1>9, <3>1, <3>2, <3>3 DEF Calm
    <2> QED
      BY <1>3, <2>1, <2>2
  <1> QED
    BY <1>8, <1>9, <1>10, <1>11, <1>12, <1>13 DEF g2, InternalDone

(* What a loop calls next, after the callbacks of Deferred, is the next of *)
(* the handlers registered.                                                *)
(* h is the registered handler after those that cs has called.             *)
FollowsOn(cs, R, h) ==
    /\ Len(cs) + 1 <= Len(R)
    /\ h = R[Len(cs) + 1]
    /\ h \in Handlers

(* The callback that a loop is about to call is the first registered       *)
(* handler that was not called.                                            *)
LEMMA NextIsRegistered ==
    ASSUME NEW o \in {"pending", "resolved", "rejected"},
           NEW l \in [Kinds -> CallbackList], NEW r \in [Final -> Seq(Handlers)],
           NEW cs \in Seq(Handlers), NEW k \in Settling, Calm(o, l, r, cs),
           NEW f \in Frame, f.kind = k, f.running = null, InStep(f, l, r, cs),
           HasNext(l[k])
    PROVE  FollowsOn(cs, r[Outcome(k)], Callback(l[k]))
  <1> DEFINE c == l[k]
             R == r[Outcome(k)]
             i == c.firingIndex
             n == Len(R)
             m == Len(c.list)
             x == Len(cs)
             h == Callback(c)
  <1>1. k \in Kinds /\ Outcome(k) \in Final /\ k # "progress"
    BY KindFacts
  <1>2. c \in CallbackList /\ R \in Seq(Handlers)
    BY <1>1
  <1>3. c.firing
    BY DEF InStep
  <1>4. Running(c, R) /\ ~Prelude(c, R)
    BY <1>3, CalmFiring
  <1>5. x + m = i + n
    BY <1>4 DEF InStep
  <1>6. /\ c.list # null /\ c.firingLength = m
        /\ FirstRound(c, R) \/ m <= n
        /\ \A j \in 1..m : c.list[j] = IF FirstRound(c, R) /\ j <= 3 THEN Own[j]
                                       ELSE R[(j + n) - m]
    BY <1>4 DEF Running, Follows
  <1>7. i < m /\ h = c.list[i + 1]
    BY <1>6 DEF HasNext, Callback
  <1>8. n \in Nat /\ x \in Nat /\ i \in Nat /\ m \in Nat
    <2> HIDE DEF c, R
    <2> QED
      BY <1>2, <1>6 DEF CallbackList
  <1>9. FirstRound(c, R) => ~(i + 1 <= 3)
    <2>1. FirstRound(c, R) => ~(i < 3)
      BY <1>4 DEF Prelude
    <2> HIDE DEF i
    <2> QED
      BY <1>8, <2>1
  <1> HIDE DEF c, R, i, n, m, x, h
  <1>10. i + 1 \in 1..m /\ (i + 1 + n) - m = x + 1 /\ x + 1 <= n
    BY <1>5, <1>7, <1>8
  <1>11. h = R[x + 1]
    BY <1>6, <1>7, <1>9, <1>10
  <1>12. R[x + 1] \in Handlers
    BY <1>2, <1>8, <1>10 DEF n
  <1> QED
    BY <1>10, <1>11, <1>12 DEF h, c, x, R, n, FollowsOn

(* The other loops of the promise stay in step. *)
Undisturbed(k, l, r, cs, l2, ds) ==
    \A g \in Frame : (g.kind # k /\ InStep(g, l, r, cs)) => InStep(g, l2, r, ds)

(* What the call of a handler leaves: the calls are still a beginning of   *)
(* the registrations, and the loop is in step with one of them running.    *)
CallDone(o, l, r, cs, k, ds) ==
    /\ o = Outcome(k)
    /\ Handed(ds, r[Outcome(k)])
    /\ Calm(o, l, r, ds)
    /\ \A g \in Frame : (g.kind = k /\ g.running # null) => InStep(g, l, r, ds)
    /\ Undisturbed(k, l, r, cs, l, ds)

(* A handler is called. *)
LEMMA CallStep ==
    ASSUME NEW o \in {"pending", "resolved", "rejected"},
           NEW l \in [Kinds -> CallbackList], NEW r \in [Final -> Seq(Handlers)],
           NEW cs \in Seq(Handlers), NEW k \in Settling, Calm(o, l, r, cs),
           NEW f \in Frame, f.kind = k, f.running = null, InStep(f, l, r, cs),
           HasNext(l[k]), NEW ds, ds = Append(cs, Callback(l[k]))
    PROVE  CallDone(o, l, r, cs, k, ds)
  <1> DEFINE c == l[k]
             R == r[Outcome(k)]
             i == c.firingIndex
             n == Len(R)
             m == Len(c.list)
             x == Len(cs)
             h == Callback(c)
  <1>1. k \in Kinds /\ Outcome(k) \in Final /\ k # "progress"
    BY KindFacts
  <1>2. c \in CallbackList /\ R \in Seq(Handlers)
    BY <1>1
  <1>3. c.firing
    BY DEF InStep
  <1>4. o = Outcome(k) /\ Running(c, R) /\ ~Prelude(c, R) /\ Handed(cs, R) /\ Dead(l[Other(k)])
    BY <1>3, CalmFiring
  <1>5. x + m = i + n
    BY <1>4 DEF InStep
  <1>6. n \in Nat /\ x \in Nat /\ i \in Nat /\ m \in Nat
    <2> HIDE DEF c, R
    <2> QED
      BY <1>2, <1>4 DEF CallbackList, Running, Follows
  <1>7. x + 1 <= n /\ h = R[x + 1] /\ h \in Handlers
    <2> HIDE DEF h, c, R, x, n
    <2>1. FollowsOn(cs, r[Outcome(k)], Callback(l[k]))
      BY NextIsRegistered
    <2> QED
      BY <2>1 DEF FollowsOn, h, c, R, x, n
  <1>8. ds = Append(cs, h)
    OBVIOUS
  <1> HIDE DEF h
  <1>9. Len(ds) = x + 1 /\ ds[x + 1] = h /\ (\A j \in 1..x : ds[j] = cs[j])
    BY <1>7, <1>8
  <1> HIDE DEF c, R, i, n, m, x
  <1>10. Handed(ds, R)
    <2>1. x <= n /\ \A j \in 1..x : cs[j] = R[j]
      BY <1>4 DEF Handed, x, n
    <2>2. \A j \in 1..(x + 1) : ds[j] = R[j]
      <3> SUFFICES ASSUME NEW j \in 1..(x + 1) PROVE ds[j] = R[j]
        OBVIOUS
      <3>1. j \in 1..x \/ j = x + 1
        BY <1>6
      <3> QED
        BY <1>7, <1>9, <2>1, <3>1
    <2>3. Len(ds) <= Len(R)
      BY <1>7, <1>9 DEF n
    <2> QED
      BY <1>9, <2>2, <2>3 DEF Handed
  <1>11. Calm(o, l, r, ds)
    <2>1. o # "pending" /\ \A j \in Settling : (o = Outcome(j)) => j = k
      BY <1>4, KindFacts
    <2>2. ~(Rested(l[k]))
      BY <1>3 DEF Rested, c
    <2> QED
      BY <1>4, <1>10, <2>1, <2>2 DEF Calm, c, R
  <1>12. ASSUME NEW g \in Frame, g.kind = k, g.running # null
         PROVE  InStep(g, l, r, ds)
    <2>1. Len(ds) + m = i + n + 1
      BY <1>5, <1>6, <1>9
    <2> QED
      BY <1>3, <1>4, <1>12, <2>1 DEF InStep, c, R, m, i, n
  <1>13. ASSUME NEW g \in Frame, g.kind # k, InStep(g, l, r, cs)
         PROVE  InStep(g, l, r, ds)
    <2>1. g.kind \in Kinds /\ g.kind # Other(k)
      BY <1>4, <1>13 DEF Frame, InStep, Dead
    <2>2. g.kind \notin Settling
      BY <1>13, <2>1, KindFacts
    <2> QED
      BY <1>13, <2>2 DEF InStep
  <1> QED
    BY <1>4, <1>10, <1>11, <1>12, <1>13 DEF R, CallDone, Undisturbed

(* What the return of a handler leaves: the loop is in step again. *)
ReturnDone(o, l, r, cs, k, l2) ==
    /\ l2 \in [Kinds -> CallbackList]
    /\ Calm(o, l2, r, cs)
    /\ \A g \in Frame : (g.kind = k /\ g.running = null) => InStep(g, l2, r, cs)
    /\ Undisturbed(k, l, r, cs, l2, cs)
    /\ \A j \in Kinds : l2[j].fired = l[j].fired /\ l2[j].firing = l[j].firing
    /\ l2["progress"] = l["progress"]

(* It returns. *)
LEMMA ReturnStep ==
    ASSUME NEW o \in {"pending", "resolved", "rejected"},
           NEW l \in [Kinds -> CallbackList], NEW r \in [Final -> Seq(Handlers)],
           NEW cs \in Seq(Handlers), NEW k \in Settling, Calm(o, l, r, cs),
           NEW f \in Frame, f.kind = k, f.running # null, InStep(f, l, r, cs),
           NEW l2, l2 = Advanced(l, k)
    PROVE  ReturnDone(o, l, r, cs, k, l2)
  <1> DEFINE c == l[k]
             R == r[Outcome(k)]
             a == [c EXCEPT !.firingIndex = @ + 1]
             i == c.firingIndex
             n == Len(R)
             m == Len(c.list)
             x == Len(cs)
  <1>1. k \in Kinds /\ Outcome(k) \in Final /\ k # "progress" /\ "progress" \in Kinds
    BY KindFacts
  <1>2. c \in CallbackList /\ R \in Seq(Handlers)
    BY <1>1
  <1>3. c.firing
    BY DEF InStep
  <1>4. o = Outcome(k) /\ Running(c, R) /\ ~Prelude(c, R) /\ Handed(cs, R) /\ Dead(l[Other(k)])
    BY <1>3, CalmFiring
  <1>5. x + m = i + n + 1
    BY <1>4 DEF InStep
  <1>6. n \in Nat /\ x \in Nat /\ i \in Nat /\ m \in Nat /\ x <= n
    <2> HIDE DEF c, R
    <2> QED
      BY <1>2, <1>4 DEF CallbackList, Running, Follows, Handed
  <1>7. i < m
    <2> HIDE DEF n, x, i, m
    <2> QED
      BY <1>5, <1>6
  <1>8. /\ a \in CallbackList /\ a.firingIndex = i + 1 /\ a.list = c.list
        /\ Running(a, R)
        /\ FirstRound(a, R) <=> FirstRound(c, R)
        /\ a.fired = c.fired /\ a.firing = c.firing
    <2>1. c.firingIndex < Len(c.list) /\ Running(c, R)
      BY <1>4, <1>7
    <2>2. a = [c EXCEPT !.firingIndex = @ + 1]
      OBVIOUS
    <2> HIDE DEF c, R, a
    <2> QED
      BY <1>2, <2>1, <2>2, Advance DEF i
  <1>9. l2 = [l EXCEPT ![k] = a]
    BY DEF Advanced
  <1> HIDE DEF a
  <1>10. /\ l2[k] = a /\ (\A j \in Kinds : j # k => l2[j] = l[j])
         /\ l2 \in [Kinds -> CallbackList]
    BY <1>1, <1>8, <1>9
  <1>11. ~Prelude(a, R)
    <2>1. FirstRound(c, R) => ~(i < 3)
      BY <1>4 DEF Prelude
    <2> HIDE DEF i
    <2>2. FirstRound(a, R) => ~(i + 1 < 3)
      BY <1>6, <1>8, <2>1
    <2> QED
      BY <1>8, <2>2 DEF Prelude
  <1>12. Calm(o, l2, r, cs)
    <2>1. o # "pending" /\ Other(k) # k /\ Other(k) \in Kinds
          /\ \A j \in Settling : (o = Outcome(j)) => j = k
      BY <1>4, KindFacts
    <2>2. l2[Other(k)] = l[Other(k)]
      BY <1>10, <2>1
    <2> HIDE DEF R
    <2> QED
      BY <1>4, <1>8, <1>10, <1>11, <2>1, <2>2 DEF Calm, R
  <1>13. ASSUME NEW g \in Frame, g.kind = k, g.running = null
         PROVE  InStep(g, l2, r, cs)
    <2>1. x + m = (i + 1) + n
      <3> HIDE DEF n, x, i, m
      <3> QED
        BY <1>5, <1>6
    <2>2. Len(cs) + Len(a.list) = a.firingIndex + Len(R)
      <3> HIDE DEF c
      <3> QED
        BY <1>8, <2>1
    <2> QED
      BY <1>3, <1>8, <1>10, <1>13, <2>2 DEF InStep
  <1>14. ASSUME NEW g \in Frame, g.kind # k, InStep(g, l, r, cs)
         PROVE  InStep(g, l2, r, cs)
    <2>1. g.kind \in Kinds
      BY DEF Frame
    <2> QED
      BY <1>10, <1>14, <2>1 DEF InStep
  <1> QED
    BY <1>1, <1>8, <1>10, <1>12, <1>13, <1>14 DEF ReturnDone, Undisturbed

(* What the end of a loop leaves: nothing is queued, and everybody         *)
(* registered was called.                                                  *)
EndDone(o, l, r, cs, k, l2) ==
    /\ l2 \in [Kinds -> CallbackList]
    /\ Calm(o, l2, r, cs)
    /\ o = Outcome(k) /\ Len(cs) = Len(r[Outcome(k)])
    /\ ~endFire(l[k]).firing
    /\ Undisturbed(k, l, r, cs, l2, cs)
    /\ \A j \in Kinds : l2[j].fired = l[j].fired
    /\ \A j \in Kinds : l2[j].firing => l[j].firing
    /\ l2["progress"] = l["progress"]

(* The loop has come to the end of the list. *)
LEMMA EndStep ==
    ASSUME NEW o \in {"pending", "resolved", "rejected"},
           NEW l \in [Kinds -> CallbackList], NEW r \in [Final -> Seq(Handlers)],
           NEW cs \in Seq(Handlers), NEW k \in Settling, Calm(o, l, r, cs),
           NEW f \in Frame, f.kind = k, f.running = null, InStep(f, l, r, cs),
           ~HasNext(l[k]), NEW l2, l2 = Ended(l, k)
    PROVE  EndDone(o, l, r, cs, k, l2)
  <1> DEFINE c == l[k]
             R == r[Outcome(k)]
             a == endFire(c)
             i == c.firingIndex
             n == Len(R)
             m == Len(c.list)
             x == Len(cs)
  <1>1. k \in Kinds /\ Outcome(k) \in Final /\ k # "progress" /\ "progress" \in Kinds
    BY KindFacts
  <1>2. c \in CallbackList /\ R \in Seq(Handlers)
    BY <1>1
  <1>3. c.firing
    BY DEF InStep
  <1>4. o = Outcome(k) /\ Running(c, R) /\ ~Prelude(c, R) /\ Handed(cs, R) /\ Dead(l[Other(k)])
    BY <1>3, CalmFiring
  <1>5. x + m = i + n
    BY <1>4 DEF InStep
  <1>6. n \in Nat /\ x \in Nat /\ i \in Nat /\ m \in Nat
    <2> HIDE DEF c, R
    <2> QED
      BY <1>2, <1>4 DEF CallbackList, Running, Follows
  <1>7. i = m
    <2>1. i <= m /\ c.list # null /\ c.firingLength = m
      BY <1>4 DEF Running, Follows
    <2>2. ~(i < m)
      BY <2>1 DEF HasNext
    <2> HIDE DEF i, m
    <2> QED
      BY <1>6, <2>1, <2>2
  <1>8. x = n
    <2> HIDE DEF n, x, i, m
    <2> QED
      BY <1>5, <1>6, <1>7
  <1>9. /\ a \in CallbackList /\ ~a.firing /\ a.fired = c.fired /\ a.stack = null
        /\ a.memory = c.memory /\ a.firingStart = c.firingStart /\ a.list = << >>
    <2>1. c.list # null /\ c.stack = null /\ c.memory = 0
      BY <1>4 DEF Running, Follows
    <2>2. c.memory # null
      BY <2>1, NullApart
    <2> HIDE DEF c
    <2> QED
      BY <1>2, <2>1, <2>2, EndFireFields
  <1>10. l2 = [l EXCEPT ![k] = a]
    BY DEF Ended
  <1> HIDE DEF a
  <1>11. /\ l2[k] = a /\ (\A j \in Kinds : j # k => l2[j] = l[j])
         /\ l2 \in [Kinds -> CallbackList]
    BY <1>1, <1>9, <1>10
  <1>12. Rested(a)
    BY <1>4, <1>9 DEF Rested, Running
  <1>13. Calm(o, l2, r, cs)
    <2>1. o # "pending" /\ Other(k) # k /\ Other(k) \in Kinds
          /\ \A j \in Settling : (o = Outcome(j)) => j = k
      BY <1>4, KindFacts
    <2>2. l2[Other(k)] = l[Other(k)]
      BY <1>11, <2>1
    <2> QED
      BY <1>4, <1>8, <1>11, <1>12, <2>1, <2>2 DEF Calm
  <1>14. ASSUME NEW g \in Frame, g.kind # k, InStep(g, l, r, cs)
         PROVE  InStep(g, l2, r, cs)
    <2>1. g.kind \in Kinds
      BY DEF Frame
    <2> QED
      BY <1>11, <1>14, <2>1 DEF InStep
  <1>15. \A j \in Kinds : l2[j].fired = l[j].fired /\ (l2[j].firing => l[j].firing)
    BY <1>9, <1>11
  <1> QED
    BY <1>1, <1>4, <1>8, <1>9, <1>11, <1>13, <1>14, <1>15 DEF a, EndDone, Undisturbed

-----------------------------------------------------------------------------
(* The stack of loops. *)

(* No list has two loops on the stack. *)
Apart(F) ==
    \A i, j \in DOMAIN F : (F[i].of = F[j].of /\ F[i].kind = F[j].kind) => i = j

(* A loop is put on the stack. *)
LEMMA Pushed ==
    ASSUME NEW F \in Seq(Frame), NEW e \in Frame, NEW G, G = <<e>> \o F
    PROVE  /\ G \in Seq(Frame) /\ G # << >> /\ Head(G) = e
           /\ \A i \in DOMAIN G : G[i] = e \/ \E j \in DOMAIN F : G[i] = F[j]
           /\ (Apart(F) /\ \A j \in DOMAIN F : F[j].of # e.of \/ F[j].kind # e.kind) => Apart(G)
  <1>1. /\ Len(G) = Len(F) + 1 /\ G[1] = e /\ G \in Seq(Frame)
        /\ \A i \in 2..Len(G) : G[i] = F[i - 1] /\ i - 1 \in 1..Len(F)
    <2>1. <<e>> \in Seq(Frame) /\ Len(<<e>>) = 1 /\ <<e>>[1] = e
      OBVIOUS
    <2> DEFINE E == <<e>>
    <2> HIDE DEF E
    <2>2. E \in Seq(Frame) /\ Len(E) = 1 /\ E[1] = e /\ G = E \o F
      BY <2>1 DEF E
    <2> QED
      BY <2>2
  <1>2. Len(F) \in Nat /\ DOMAIN F = 1..Len(F) /\ DOMAIN G = 1..Len(G)
    BY <1>1
  <1>3. \A i \in DOMAIN G : i = 1 \/ (i \in 2..Len(G) /\ i - 1 \in DOMAIN F /\ G[i] = F[i - 1])
    BY <1>1, <1>2
  <1>4. G # << >> /\ Head(G) = e
    BY <1>1, <1>2
  <1>5. ASSUME Apart(F), \A j \in DOMAIN F : F[j].of # e.of \/ F[j].kind # e.kind
        PROVE  Apart(G)
    <2> SUFFICES ASSUME NEW i \in DOMAIN G, NEW j \in DOMAIN G,
                        G[i].of = G[j].of, G[i].kind = G[j].kind
                 PROVE  i = j
      BY DEF Apart
    <2>1. CASE i = 1 /\ j = 1
      BY <2>1
    <2>2. CASE i # 1 /\ j = 1
      BY <1>1, <1>3, <1>5, <2>2
    <2>3. CASE i = 1 /\ j # 1
      BY <1>1, <1>3, <1>5, <2>3
    <2>4. CASE i # 1 /\ j # 1
      <3>1. /\ i - 1 \in DOMAIN F /\ j - 1 \in DOMAIN F /\ G[i] = F[i - 1] /\ G[j] = F[j - 1]
            /\ i \in 2..Len(G) /\ j \in 2..Len(G)
        BY <1>3, <2>4
      <3>2. i - 1 = j - 1
        BY <1>5, <3>1 DEF Apart
      <3> QED
        BY <1>1, <1>2, <3>1, <3>2
    <2> QED
      BY <2>1, <2>2, <2>3, <2>4
  <1> QED
    BY <1>1, <1>3, <1>4, <1>5

(* The innermost loop is taken off; those below are of other lists. *)
LEMMA Popped ==
    ASSUME NEW F \in Seq(Frame), F # << >>, Apart(F)
    PROVE  /\ Tail(F) \in Seq(Frame) /\ Apart(Tail(F))
           /\ \A i \in DOMAIN Tail(F) : \E j \in DOMAIN F :
                 /\ Tail(F)[i] = F[j]
                 /\ F[j].of # Head(F).of \/ F[j].kind # Head(F).kind
  <1> DEFINE G == Tail(F)
  <1>1. /\ G \in Seq(Frame) /\ Len(G) = Len(F) - 1 /\ Len(F) \in Nat /\ Len(F) # 0
        /\ \A i \in 1..Len(G) : G[i] = F[i + 1]
        /\ Head(F) = F[1]
    OBVIOUS
  <1> HIDE DEF G
  <1>2. DOMAIN F = 1..Len(F) /\ DOMAIN G = 1..Len(G)
    BY <1>1
  <1>3. \A i \in DOMAIN G : i + 1 \in DOMAIN F /\ i + 1 # 1 /\ G[i] = F[i + 1] /\ i \in Nat
    BY <1>1, <1>2
  <1>4. 1 \in DOMAIN F
    BY <1>1, <1>2
  <1>5. ASSUME NEW i \in DOMAIN G
        PROVE  \E j \in DOMAIN F :
                 /\ G[i] = F[j]
                 /\ F[j].of # Head(F).of \/ F[j].kind # Head(F).kind
    BY <1>1, <1>3, <1>4 DEF Apart
  <1>6. ASSUME NEW i \in DOMAIN G, NEW j \in DOMAIN G,
               G[i].of = G[j].of, G[i].kind = G[j].kind
        PROVE  i = j
    <2>1. i + 1 = j + 1
      BY <1>3, <1>6 DEF Apart
    <2> QED
      BY <1>3, <2>1
  <1>7. Apart(G)
    BY <1>6 DEF Apart
  <1> QED
    BY <1>1, <1>5, <1>7 DEF G

(* The handler that the innermost loop has called begins or returns. *)
Runs(F, h) == [F EXCEPT ![1].running = h]

(* The innermost loop changes what it runs; those below are of other       *)
(* lists.                                                                  *)
LEMMA HeadRuns ==
    ASSUME NEW F \in Seq(Frame), F # << >>, Apart(F), NEW h \in Handlers \cup {null},
           NEW G, G = Runs(F, h)
    PROVE  /\ G \in Seq(Frame) /\ G # << >> /\ Apart(G)
           /\ Head(G) \in Frame /\ Head(F) \in Frame
           /\ Head(G).of = Head(F).of /\ Head(G).kind = Head(F).kind /\ Head(G).running = h
           /\ \A i \in DOMAIN G : G[i] = Head(G) \/ \E j \in DOMAIN F :
                 /\ G[i] = F[j]
                 /\ F[j].of # Head(F).of \/ F[j].kind # Head(F).kind
  <1> DEFINE e == [F[1] EXCEPT !.running = h]
  <1>1. Len(F) \in Nat /\ Len(F) # 0 /\ DOMAIN F = 1..Len(F) /\ Head(F) = F[1]
        /\ 1 \in DOMAIN F /\ F[1] \in Frame
    OBVIOUS
  <1>2. e \in Frame /\ e.of = F[1].of /\ e.kind = F[1].kind /\ e.running = h
    BY <1>1 DEF Frame
  <1>3. G = [F EXCEPT ![1] = e]
    BY DEF Runs
  <1> HIDE DEF e
  <1>4. G \in Seq(Frame) /\ Len(G) = Len(F) /\ DOMAIN G = 1..Len(F) /\ G[1] = e
        /\ \A i \in 1..Len(F) : i # 1 => G[i] = F[i]
    BY <1>1, <1>2, <1>3
  <1>5. G # << >> /\ Head(G) = e
    BY <1>1, <1>4
  <1>6. \A i \in 1..Len(F) : G[i].of = F[i].of /\ G[i].kind = F[i].kind
    BY <1>1, <1>2, <1>4
  <1>7. Apart(G)
    BY <1>1, <1>4, <1>6 DEF Apart
  <1>8. ASSUME NEW i \in DOMAIN G, i # 1
        PROVE  \E j \in DOMAIN F :
                 /\ G[i] = F[j]
                 /\ F[j].of # Head(F).of \/ F[j].kind # Head(F).kind
    BY <1>1, <1>4, <1>8 DEF Apart
  <1> QED
    BY <1>1, <1>2, <1>4, <1>5, <1>7, <1>8

(* Every loop on the stack F is in step with the lists L, the              *)
(* registrations R and the calls C.                                        *)
Stepping(F, L, R, C) ==
    /\ Apart(F)
    /\ \A i \in DOMAIN F : InStep(F[i], L[F[i].of], R[F[i].of], C[F[i].of])

(* Every loop that was in step is so afterwards; every one but that of g. *)
Carried(L, R, C, L2, R2, C2) ==
    \A f \in Frame : InStep(f, L[f.of], R[f.of], C[f.of])
                         => InStep(f, L2[f.of], R2[f.of], C2[f.of])

CarriedBut(g, L, R, C, L2, R2, C2) ==
    \A f \in Frame : (f.of # g.of \/ f.kind # g.kind)
        => (InStep(f, L[f.of], R[f.of], C[f.of])
               => InStep(f, L2[f.of], R2[f.of], C2[f.of]))

(* A step that starts no loop keeps them in step. *)
LEMMA StepStay ==
    ASSUME NEW F \in Seq(Frame), NEW L, NEW R, NEW C, NEW L2, NEW R2, NEW C2,
           Stepping(F, L, R, C),
           Carried(L, R, C, L2, R2, C2)
    PROVE  Stepping(F, L2, R2, C2)
  <1>1. \A i \in DOMAIN F : F[i] \in Frame
    OBVIOUS
  <1> QED
    BY <1>1 DEF Stepping, Carried

(* A loop that starts now: its list was at rest. *)
Enters(e, L, L2, R2, C2) ==
    ~L[e.of][e.kind].firing /\ InStep(e, L2[e.of], R2[e.of], C2[e.of])

(* So does a step that starts one. *)
LEMMA StepPush ==
    ASSUME NEW F \in Seq(Frame), NEW L, NEW R, NEW C, NEW L2, NEW R2, NEW C2,
           Stepping(F, L, R, C),
           Carried(L, R, C, L2, R2, C2),
           NEW e \in Frame, Enters(e, L, L2, R2, C2),
           NEW G, G = <<e>> \o F
    PROVE  G \in Seq(Frame) /\ Stepping(G, L2, R2, C2)
  <1>1. \A i \in DOMAIN F : F[i] \in Frame
    OBVIOUS
  <1>2. \A i \in DOMAIN F : L[F[i].of][F[i].kind].firing
    BY DEF Stepping, InStep
  <1>3. \A j \in DOMAIN F : F[j].of # e.of \/ F[j].kind # e.kind
    BY <1>2 DEF Enters
  <1>4. /\ G \in Seq(Frame) /\ G # << >> /\ Head(G) = e /\ Apart(G)
        /\ \A i \in DOMAIN G : G[i] = e \/ \E j \in DOMAIN F : G[i] = F[j]
    <2>1. Apart(F)
      BY DEF Stepping
    <2>2. /\ G \in Seq(Frame) /\ G # << >> /\ Head(G) = e
          /\ \A i \in DOMAIN G : G[i] = e \/ \E j \in DOMAIN F : G[i] = F[j]
      BY Pushed
    <2>3. Apart(G)
      BY <1>3, <2>1, Pushed
    <2> QED
      BY <2>2, <2>3
  <1>5. \A i \in DOMAIN G : InStep(G[i], L2[G[i].of], R2[G[i].of], C2[G[i].of])
    <2> SUFFICES ASSUME NEW i \in DOMAIN G
                 PROVE  InStep(G[i], L2[G[i].of], R2[G[i].of], C2[G[i].of])
      OBVIOUS
    <2>1. CASE G[i] = e
      BY <2>1 DEF Enters
    <2>2. CASE \E j \in DOMAIN F : G[i] = F[j]
      BY <1>1, <2>2 DEF Stepping, Carried
    <2> QED
      BY <1>4, <2>1, <2>2
  <1> QED
    BY <1>4, <1>5 DEF Stepping

(* The innermost loop has called h, or null when the handler is back. *)
RunsOn(F, h, L2, R2, C2) ==
    LET G == Runs(F, h) IN
       /\ G \in Seq(Frame) /\ G # << >> /\ Head(G) \in Frame
       /\ Head(G).of = Head(F).of /\ Head(G).kind = Head(F).kind
       /\ Head(G).running = h
       /\ InStep(Head(G), L2[Head(G).of], R2[Head(G).of], C2[Head(G).of])
             => Stepping(G, L2, R2, C2)

(* The steps of the innermost loop: G is what becomes of the stack. *)
LEMMA StepHead ==
    ASSUME NEW F \in Seq(Frame), F # << >>,
           NEW L, NEW R, NEW C, NEW L2, NEW R2, NEW C2,
           Stepping(F, L, R, C),
           CarriedBut(Head(F), L, R, C, L2, R2, C2)
    PROVE  /\ Head(F) \in Frame
           /\ InStep(Head(F), L[Head(F).of], R[Head(F).of], C[Head(F).of])
           /\ Stepping(Tail(F), L2, R2, C2) /\ Tail(F) \in Seq(Frame)
           /\ InStep(Head(F), L2[Head(F).of], R2[Head(F).of], C2[Head(F).of])
                 => Stepping(F, L2, R2, C2)
           /\ \A h \in Handlers \cup {null} : RunsOn(F, h, L2, R2, C2)
  <1> DEFINE e == Head(F)
  <1>1. /\ e \in Frame /\ Apart(F) /\ 1 \in DOMAIN F /\ F[1] = e
        /\ \A i \in DOMAIN F : F[i] \in Frame
    BY DEF Stepping
  <1>2. \A i \in DOMAIN F : InStep(F[i], L[F[i].of], R[F[i].of], C[F[i].of])
    BY DEF Stepping
  <1>3. \A i \in DOMAIN F : (F[i].of # e.of \/ F[i].kind # e.kind)
            => InStep(F[i], L2[F[i].of], R2[F[i].of], C2[F[i].of])
    BY <1>1, <1>2 DEF CarriedBut
  <1>4. Stepping(Tail(F), L2, R2, C2) /\ Tail(F) \in Seq(Frame)
    <2> DEFINE T == Tail(F)
    <2>1. /\ T \in Seq(Frame) /\ Apart(T)
          /\ \A i \in DOMAIN T : \E j \in DOMAIN F :
                /\ T[i] = F[j]
                /\ F[j].of # e.of \/ F[j].kind # e.kind
      BY <1>1, Popped
    <2> HIDE DEF T, e
    <2>2. \A i \in DOMAIN T : InStep(T[i], L2[T[i].of], R2[T[i].of], C2[T[i].of])
      BY <1>3, <2>1
    <2> QED
      BY <2>1, <2>2 DEF Stepping, T
  <1>5. ASSUME InStep(e, L2[e.of], R2[e.of], C2[e.of])
        PROVE  Stepping(F, L2, R2, C2)
    <2>1. \A i \in DOMAIN F : F[i] = e \/ F[i].of # e.of \/ F[i].kind # e.kind
      BY <1>1 DEF Apart
    <2>2. \A i \in DOMAIN F : InStep(F[i], L2[F[i].of], R2[F[i].of], C2[F[i].of])
      <3> HIDE DEF e
      <3> QED
        BY <1>3, <1>5, <2>1
    <2> QED
      BY <1>1, <2>2 DEF Stepping
  <1>6. ASSUME NEW h \in Handlers \cup {null}
        PROVE  RunsOn(F, h, L2, R2, C2)
    <2> DEFINE G == Runs(F, h)
    <2>1. /\ G \in Seq(Frame) /\ G # << >> /\ Apart(G)
          /\ Head(G) \in Frame
          /\ Head(G).of = e.of /\ Head(G).kind = e.kind /\ Head(G).running = h
          /\ \A i \in DOMAIN G : G[i] = Head(G) \/ \E j \in DOMAIN F :
                /\ G[i] = F[j]
                /\ F[j].of # e.of \/ F[j].kind # e.kind
      <3>1. G = Runs(F, h)
        OBVIOUS
      <3> HIDE DEF G, e
      <3>2. F # << >> /\ Apart(F) /\ h \in Handlers \cup {null}
        BY <1>1
      <3>3. /\ G \in Seq(Frame) /\ G # << >> /\ Apart(G)
            /\ Head(G) \in Frame /\ Head(F) \in Frame
            /\ Head(G).of = Head(F).of /\ Head(G).kind = Head(F).kind /\ Head(G).running = h
        BY <3>1, <3>2, HeadRuns
      <3>4. \A i \in DOMAIN G : G[i] = Head(G) \/ \E j \in DOMAIN F :
                /\ G[i] = F[j]
                /\ F[j].of # Head(F).of \/ F[j].kind # Head(F).kind
        BY <3>1, <3>2, HeadRuns
      <3> QED
        BY <3>3, <3>4 DEF e
    <2> DEFINE g == Head(G)
    <2> HIDE DEF G, e
    <2>2. ASSUME InStep(g, L2[g.of], R2[g.of], C2[g.of])
          PROVE  Stepping(G, L2, R2, C2)
      <3>1. \A i \in DOMAIN G : G[i] = g \/ \E j \in DOMAIN F :
                /\ G[i] = F[j]
                /\ F[j].of # e.of \/ F[j].kind # e.kind
        BY <2>1
      <3> HIDE DEF g
      <3>2. \A i \in DOMAIN G : InStep(G[i], L2[G[i].of], R2[G[i].of], C2[G[i].of])
        BY <1>3, <2>2, <3>1
      <3> QED
        BY <2>1, <3>2 DEF Stepping
    <2> QED
      BY <2>1, <2>2 DEF G, g, e, RunsOn
  <1> QED
    BY <1>1, <1>2, <1>4, <1>5, <1>6

-----------------------------------------------------------------------------
(* The invariant of the promises. *)

(* The innermost loop is that of list k of d, and it runs no handler. *)
AtHead(d, k) ==
    frames # << >> /\ Head(frames) = [of |-> d, kind |-> k, running |-> null]

(* Code of the page never sees a promise between the callbacks with which  *)
(* Deferred opens its first loop.                                          *)
PromiseInv ==
    \A d \in Deferreds :
       \/ Calm(state[d], lists[d], regs[d], called[d])
       \/ \E k \in Settling :
             AtHead(d, k) /\ Opening(state[d], lists[d], regs[d], called[d], k)

(* The stack of loops as it is. *)
FramesInv == Stepping(frames, lists, regs, called)

(* The list of progress holds functions of the page only, and fires what   *)
(* it remembers to the length that it has.                                 *)
ListensOnly(p) ==
    /\ p.list \in {null} \cup Seq(Handlers)
    /\ p.firing => (p.memory # null /\ p.list # null /\ p.firingLength = Len(p.list))

ProgressInv == \A d \in Deferreds : ListensOnly(lists[d]["progress"])

(* The inductive invariant of the promises. *)
DeferredInv == TypeOK /\ PromiseInv /\ FramesInv /\ ProgressInv

(* New promises satisfy it. *)
LEMMA DeferredInitially == DeferredInit => DeferredInv
  <1> SUFFICES ASSUME DeferredInit PROVE DeferredInv
    OBVIOUS
  <1> DEFINE none == << >>
  <1>1. none \in Seq(Handlers) /\ none \in Seq(Nat) /\ none \in Seq(Frame) /\ Len(none) = 0
    BY EmptySeq
  <1>2. \A k \in Kinds :
           /\ NewList(k) \in CallbackList
           /\ (k \in Settling) => Unused(NewList(k), none)
           /\ (k = "progress") => /\ NewList(k).list = none /\ NewList(k).stack = none
                                  /\ ~NewList(k).firing /\ NewList(k).memory = null
           /\ ~NewList(k).firing /\ ~NewList(k).fired
    BY NewListIsUnused
  <1> HIDE DEF none
  <1>3. TypeOK
    <2>1. lists \in [Deferreds -> [Kinds -> CallbackList]]
      BY <1>2 DEF DeferredInit
    <2>2. /\ frames = none /\ threw = {}
          /\ regs = [d \in Deferreds |-> [x \in Final |-> none]]
          /\ watchers = [d \in Deferreds |-> {}]
          /\ called = [d \in Deferreds |-> none]
          /\ heard = [h \in Handlers |-> none]
          /\ news = [d \in Deferreds |-> 0]
          /\ state = [d \in Deferreds |-> "pending"]
      BY DEF DeferredInit, none, Final
    <2>3. 0 \in 0..MaxNews
      BY DeferredAssumption
    <2> QED
      BY <1>1, <2>1, <2>2, <2>3 DEF TypeOK, Final
  <1>4. PromiseInv
    <2> SUFFICES ASSUME NEW d \in Deferreds
                 PROVE  Calm(state[d], lists[d], regs[d], called[d])
      BY DEF PromiseInv
    <2>1. /\ state[d] = "pending" /\ called[d] = none
          /\ \A x \in Final : regs[d][x] = none
          /\ \A k \in Kinds : lists[d][k] = NewList(k)
      BY DEF DeferredInit, none, Final
    <2>2. \A k \in Settling : Unused(lists[d][k], regs[d][Outcome(k)])
      BY <1>2, <2>1, KindFacts
    <2>3. \A k \in Settling : state[d] # Outcome(k)
      BY <2>1, KindFacts
    <2> QED
      BY <2>1, <2>2, <2>3 DEF Calm, none
  <1>5. FramesInv
    <2>1. frames = none /\ DOMAIN none = {}
      BY DEF DeferredInit, none
    <2> QED
      BY <2>1 DEF FramesInv, Stepping, Apart
  <1>6. ProgressInv
    BY <1>1, <1>2, KindFacts DEF ProgressInv, ListensOnly, DeferredInit
  <1> QED
    BY <1>3, <1>4, <1>5, <1>6 DEF DeferredInv

(* A promise is calm unless the innermost loop is opening it. *)
LEMMA CalmOrAtHead ==
    ASSUME DeferredInv, NEW d \in Deferreds, \A k \in Settling : ~AtHead(d, k)
    PROVE  Calm(state[d], lists[d], regs[d], called[d])
  BY DEF DeferredInv, PromiseInv

(* So every promise is calm when code of the page runs. *)
LEMMA CalmForThePage ==
    ASSUME DeferredInv, PageRuns, NEW d \in Deferreds
    PROVE  Calm(state[d], lists[d], regs[d], called[d])
  <1>1. ASSUME NEW k \in Settling, AtHead(d, k)
        PROVE  FALSE
    <2>1. Head(frames).running = null
      BY <1>1 DEF AtHead
    <2> QED
      BY <1>1, <2>1 DEF AtHead, PageRuns
  <1> QED
    BY <1>1, CalmOrAtHead

(* The types of what one promise keeps. *)
LEMMA OfOne ==
    ASSUME TypeOK, NEW d \in Deferreds
    PROVE  /\ state[d] \in {"pending", "resolved", "rejected"}
           /\ lists[d] \in [Kinds -> CallbackList]
           /\ regs[d] \in [Final -> Seq(Handlers)]
           /\ called[d] \in Seq(Handlers)
           /\ frames \in Seq(Frame)
  BY DEF TypeOK, Final

-----------------------------------------------------------------------------
(* The steps of the page. *)

(* done, fail and always. *)
LEMMA RegisterStep ==
    ASSUME DeferredInv, NEW d \in Deferreds, NEW h \in Handlers,
           NEW on \in SUBSET Final, Register(d, h, on)
    PROVE  /\ DeferredInv'
           /\ \A e \in Deferreds, k \in Settling : lists'[e][k].fired = lists[e][k].fired
           /\ \A e \in Deferreds : e # d => lists'[e] = lists[e]
           /\ \A k \in Settling : Outcome(k) \notin on => lists'[d][k] = lists[d][k]
           /\ lists'[d]["progress"] = lists[d]["progress"]
           /\ regs' = [regs EXCEPT ![d] = [o \in Final |->
                          IF o \in on THEN Append(regs[d][o], h) ELSE regs[d][o]]]
           /\ frames' = frames \/ \E k \in Settling :
                 frames' = << [of |-> d, kind |-> k, running |-> null] >> \o frames
  <1> DEFINE l == lists[d]
             r == regs[d]
             A(k) == IF Outcome(k) \in on THEN add(l[k], h) ELSE l[k]
             l2 == [l EXCEPT !["done"] = A("done"), !["fail"] = A("fail")]
             r2 == [o \in Final |-> IF o \in on THEN Append(r[o], h) ELSE r[o]]
             new == [k \in {"done", "fail"} |-> IF Outcome(k) \in on THEN add(l[k], h) ELSE l[k]]
             e(k) == [of |-> d, kind |-> k, running |-> null]
             S(k) == Started(d, k, l2[k])
  <1>1. /\ TypeOK /\ PromiseInv /\ FramesInv /\ ProgressInv
        /\ state[d] \in {"pending", "resolved", "rejected"}
        /\ l \in [Kinds -> CallbackList] /\ r \in [Final -> Seq(Handlers)]
        /\ called[d] \in Seq(Handlers) /\ frames \in Seq(Frame)
    BY OfOne DEF DeferredInv
  <1>2. /\ UNCHANGED <<state, watchers, called, heard, news, threw>>
        /\ PageRuns
        /\ lists' = [lists EXCEPT ![d]["done"] = new["done"], ![d]["fail"] = new["fail"]]
        /\ frames' = Started(d, "done", new["done"]) \o Started(d, "fail", new["fail"]) \o frames
        /\ regs' = [regs EXCEPT ![d] = r2]
    BY DEF Register, Final
  <1>3. Calm(state[d], l, r, called[d])
    BY <1>2, CalmForThePage
  <1>4. \A k \in Settling : A(k) \in CallbackList
    <2>1. \A k \in Settling : l[k] \in CallbackList
      BY <1>1, KindFacts
    <2> HIDE DEF l
    <2> QED
      BY <2>1, AddFields
  <1>5. new["done"] = A("done") /\ new["fail"] = A("fail")
    BY KindFacts
  <1> HIDE DEF A, new
  <1>6. /\ l2 \in [Kinds -> CallbackList]
        /\ l2["done"] = A("done") /\ l2["fail"] = A("fail")
        /\ l2["progress"] = l["progress"]
    BY <1>1, <1>4, KindFacts DEF Kinds
  <1>7. lists' = [lists EXCEPT ![d] = l2]
    <2>1. lists' = [lists EXCEPT ![d]["done"] = A("done"), ![d]["fail"] = A("fail")]
      BY <1>2, <1>5
    <2> QED
      BY <1>1, <2>1 DEF TypeOK
  <1>8. \A k \in Settling : l2[k] = A(k)
    BY <1>6 DEF Settling
  <1> HIDE DEF l2
  <1>9. /\ lists' \in [Deferreds -> [Kinds -> CallbackList]]
        /\ lists'[d] = l2 /\ \A x \in Deferreds : x # d => lists'[x] = lists[x]
    BY <1>1, <1>6, <1>7 DEF TypeOK
  <1>10. /\ r2 \in [Final -> Seq(Handlers)]
         /\ \A k \in Settling :
               r2[Outcome(k)] = IF Outcome(k) \in on THEN Append(r[Outcome(k)], h)
                                ELSE r[Outcome(k)]
    <2>1. \A o \in Final : r[o] \in Seq(Handlers) /\ Append(r[o], h) \in Seq(Handlers)
      BY <1>1
    <2> HIDE DEF r
    <2> QED
      BY <2>1, KindFacts
  <1> HIDE DEF r2
  <1>11. /\ regs' \in [Deferreds -> [Final -> Seq(Handlers)]]
         /\ regs'[d] = r2 /\ \A x \in Deferreds : x # d => regs'[x] = regs[x]
    BY <1>1, <1>2, <1>10 DEF TypeOK, Final
  <1>12. \A k \in Settling :
            \/ l2[k] = l[k] /\ r2[Outcome(k)] = r[Outcome(k)]
            \/ l2[k] = add(l[k], h) /\ r2[Outcome(k)] = Append(r[Outcome(k)], h)
    BY <1>8, <1>10 DEF A
  <1>13. /\ Calm(state[d], l2, r2, called[d])
         /\ \A f \in Frame : InStep(f, l, r, called[d]) => InStep(f, l2, r2, called[d])
         /\ \A k \in Settling :
               /\ l2[k].fired = l[k].fired
               /\ l[k].firing => l2[k].firing
               /\ (l2[k].firing /\ ~l[k].firing) =>
                     /\ state[d] = Outcome(k)
                     /\ l2[Other(k)].firing = l[Other(k)].firing
                     /\ \A f \in Frame : (f.kind = k /\ f.running = null)
                                             => InStep(f, l2, r2, called[d])
    <2> DEFINE cs == called[d]
               o == state[d]
    <2> HIDE DEF l, r, cs, o
    <2>1. Regrown(o, l, r, l2, r2, cs)
      <3>1. /\ l2["progress"] = l["progress"] /\ l \in [Kinds -> CallbackList]
            /\ cs \in Seq(Handlers) /\ o \in {"pending", "resolved", "rejected"}
            /\ r \in [Final -> Seq(Handlers)] /\ Calm(o, l, r, cs)
        BY <1>1, <1>3, <1>6 DEF cs, o
      <3> QED
        BY <1>6, <1>10, <1>12, <3>1, CalmGrown
    <2> QED
      BY <2>1 DEF Regrown, cs, o
  <1>14. Carried(lists, regs, called, lists', regs', called')
    <2> SUFFICES ASSUME NEW f \in Frame, InStep(f, lists[f.of], regs[f.of], called[f.of])
                 PROVE  InStep(f, lists'[f.of], regs'[f.of], called'[f.of])
      BY DEF Carried
    <2>1. f.of \in Deferreds
      BY DEF Frame
    <2>2. CASE f.of = d
      BY <1>2, <1>9, <1>11, <1>13, <2>2
    <2>3. CASE f.of # d
      BY <1>2, <1>9, <1>11, <2>1, <2>3
    <2> QED
      BY <2>2, <2>3
  <1>15. /\ \A k \in Settling : S(k) = IF l2[k].firing /\ ~l[k].firing THEN <<e(k)>> ELSE << >>
         /\ frames' = S("done") \o S("fail") \o frames
    BY <1>2, <1>5, <1>6 DEF Started
  <1>16. \/ frames' = frames
         \/ \E k \in Settling : l2[k].firing /\ ~l[k].firing /\ frames' = <<e(k)>> \o frames
    <2>1. /\ << >> \o frames = frames
          /\ (<< >> \o << >>) \o frames = frames
          /\ \A x \in Frame : (<< >> \o <<x>>) \o frames = <<x>> \o frames
          /\ \A x \in Frame : (<<x>> \o << >>) \o frames = <<x>> \o frames
      BY <1>1
    <2>2. \A k \in Settling : e(k) \in Frame
      BY KindFacts DEF Frame
    <2>3. /\ S("done") = IF l2["done"].firing /\ ~l["done"].firing THEN <<e("done")>> ELSE << >>
          /\ S("fail") = IF l2["fail"].firing /\ ~l["fail"].firing THEN <<e("fail")>> ELSE << >>
      BY <1>15, KindFacts
    <2>4. (l2["done"].firing /\ ~l["done"].firing) => ~(l2["fail"].firing /\ ~l["fail"].firing)
      BY <1>13, KindFacts
    <2> HIDE DEF S, e, l
    <2>5. CASE l2["done"].firing /\ ~l["done"].firing
      <3>1. S("done") = <<e("done")>> /\ S("fail") = << >>
        BY <2>3, <2>4, <2>5
      <3>2. frames' = <<e("done")>> \o frames
        BY <1>15, <2>1, <2>2, <3>1, KindFacts
      <3> QED
        BY <2>5, <3>2, KindFacts
    <2>6. CASE ~(l2["done"].firing /\ ~l["done"].firing) /\ l2["fail"].firing /\ ~l["fail"].firing
      <3>1. S("done") = << >> /\ S("fail") = <<e("fail")>>
        BY <2>3, <2>6
      <3>2. frames' = <<e("fail")>> \o frames
        BY <1>15, <2>1, <2>2, <3>1, KindFacts
      <3> QED
        BY <2>6, <3>2, KindFacts
    <2>7. CASE ~(l2["done"].firing /\ ~l["done"].firing) /\ ~(l2["fail"].firing /\ ~l["fail"].firing)
      <3>1. S("done") = << >> /\ S("fail") = << >>
        BY <2>3, <2>7
      <3> QED
        BY <1>15, <2>1, <3>1
    <2> QED
      BY <2>5, <2>6, <2>7
  <1>17. frames' \in Seq(Frame) /\ FramesInv'
    <2>1. CASE frames' = frames
      BY <1>1, <1>14, <2>1, StepStay DEF FramesInv
    <2>2. ASSUME NEW k \in Settling, l2[k].firing, ~l[k].firing, frames' = <<e(k)>> \o frames
          PROVE  frames' \in Seq(Frame) /\ FramesInv'
      <3> DEFINE g == e(k)
      <3>1. g \in Frame /\ g.of = d /\ g.kind = k /\ g.running = null
        BY KindFacts DEF Frame
      <3>2. InStep(g, l2, r2, called[d])
        BY <1>13, <2>2, <3>1
      <3>3. ~lists[g.of][g.kind].firing /\ frames' = <<g>> \o frames
        BY <2>2, <3>1
      <3> HIDE DEF g
      <3>4. InStep(g, lists'[g.of], regs'[g.of], called'[g.of])
        <4>1. lists'[g.of] = l2 /\ regs'[g.of] = r2 /\ called'[g.of] = called[d]
          BY <1>2, <1>9, <1>11, <3>1
        <4> QED
          BY <3>2, <4>1
      <3>5. Stepping(frames, lists, regs, called)
        BY <1>1 DEF FramesInv
      <3>6. frames' \in Seq(Frame) /\ Stepping(frames', lists', regs', called')
        <4>1. frames \in Seq(Frame) /\ g \in Frame /\ frames' = <<g>> \o frames
          BY <1>1, <3>1, <3>3
        <4>2. Enters(g, lists, lists', regs', called')
          BY <3>3, <3>4 DEF Enters
        <4> QED
          BY <1>14, <3>5, <4>1, <4>2, StepPush
      <3> QED
        BY <3>6 DEF FramesInv
    <2> QED
      BY <1>16, <2>1, <2>2
  <1>18. PromiseInv'
    <2> SUFFICES ASSUME NEW x \in Deferreds
                 PROVE  Calm(state'[x], lists'[x], regs'[x], called'[x])
      BY DEF PromiseInv
    <2>1. CASE x = d
      BY <1>2, <1>9, <1>11, <1>13, <2>1
    <2>2. CASE x # d
      BY <1>2, <1>9, <1>11, <2>2, CalmForThePage
    <2> QED
      BY <2>1, <2>2
  <1>19. ProgressInv'
    BY <1>1, <1>6, <1>9 DEF ProgressInv
  <1>20. TypeOK'
    BY <1>1, <1>2, <1>9, <1>11, <1>17 DEF TypeOK, Final
  <1>21. \A k \in Settling : Outcome(k) \notin on => lists'[d][k] = lists[d][k]
    BY <1>8, <1>9 DEF A
  <1>22. regs' = [regs EXCEPT ![d] = [o \in Final |->
                          IF o \in on THEN Append(regs[d][o], h) ELSE regs[d][o]]]
    BY <1>2 DEF r2
  <1>23. \A x \in Deferreds, k \in Settling : lists'[x][k].fired = lists[x][k].fired
    <2> SUFFICES ASSUME NEW x \in Deferreds, NEW k \in Settling
                 PROVE  lists'[x][k].fired = lists[x][k].fired
      OBVIOUS
    <2> HIDE DEF A
    <2>1. CASE x = d
      BY <1>9, <1>13, <2>1
    <2>2. CASE x # d
      BY <1>9, <2>2
    <2> QED
      BY <2>1, <2>2
  <1> QED
    BY <1>6, <1>9, <1>16, <1>17, <1>18, <1>19, <1>20, <1>21, <1>22, <1>23 DEF DeferredInv

(* progress and notify: only the progress list changes. *)
ProgressTurn(d, c) ==
    /\ PageRuns
    /\ ListensOnly(c) /\ (lists[d]["progress"].firing => c.firing)
    /\ lists' = [lists EXCEPT ![d]["progress"] = c]
    /\ frames' = Started(d, "progress", c) \o frames
    /\ UNCHANGED <<state, regs, called, threw>>
    /\ watchers' \in [Deferreds -> SUBSET Handlers]
    /\ heard' \in [Handlers -> Seq(Nat)]
    /\ news' \in [Deferreds -> 0..MaxNews]

(* A step that changes a progress list only keeps the invariant. *)
LEMMA ProgressStep ==
    ASSUME DeferredInv, NEW d \in Deferreds, NEW c \in CallbackList, ProgressTurn(d, c)
    PROVE  /\ DeferredInv'
           /\ \A e \in Deferreds, k \in Settling : lists'[e][k] = lists[e][k]
           /\ \A e \in Deferreds : lists'[e]["progress"]
                                      = IF e = d THEN c ELSE lists[e]["progress"]
  <1> DEFINE l == lists[d]
             l2 == [l EXCEPT !["progress"] = c]
             e == [of |-> d, kind |-> "progress", running |-> null]
  <1>1. /\ TypeOK /\ PromiseInv /\ FramesInv /\ ProgressInv
        /\ l \in [Kinds -> CallbackList] /\ frames \in Seq(Frame)
    BY OfOne DEF DeferredInv
  <1>0. /\ PageRuns /\ ListensOnly(c) /\ (lists[d]["progress"].firing => c.firing)
        /\ state' = state /\ regs' = regs /\ called' = called /\ threw' = threw
        /\ watchers' \in [Deferreds -> SUBSET Handlers]
        /\ heard' \in [Handlers -> Seq(Nat)]
        /\ news' \in [Deferreds -> 0..MaxNews]
    BY DEF ProgressTurn
  <1>2. /\ l2 \in [Kinds -> CallbackList] /\ l2["progress"] = c
        /\ \A k \in Settling : l2[k] = l[k]
    BY <1>1, KindFacts
  <1>3. lists' = [lists EXCEPT ![d] = l2]
    BY DEF ProgressTurn
  <1> HIDE DEF l2
  <1>4. /\ lists' \in [Deferreds -> [Kinds -> CallbackList]]
        /\ lists'[d] = l2 /\ \A x \in Deferreds : x # d => lists'[x] = lists[x]
    BY <1>1, <1>2, <1>3 DEF TypeOK
  <1>5. \A x \in Deferreds : \A k \in Settling : lists'[x][k] = lists[x][k]
    BY <1>2, <1>4
  <1>6. PromiseInv'
    <2> SUFFICES ASSUME NEW x \in Deferreds
                 PROVE  Calm(state'[x], lists'[x], regs'[x], called'[x])
      BY DEF PromiseInv
    <2>1. Calm(state[x], lists[x], regs[x], called[x])
      BY <1>0, CalmForThePage
    <2>2. \A k \in Settling : lists'[x][k] = lists[x][k] /\ Other(k) \in Settling
      BY <1>5, KindFacts
    <2> QED
      BY <1>0, <2>1, <2>2 DEF Calm
  <1>7. Carried(lists, regs, called, lists', regs', called')
    <2> SUFFICES ASSUME NEW f \in Frame, InStep(f, lists[f.of], regs[f.of], called[f.of])
                 PROVE  InStep(f, lists'[f.of], regs'[f.of], called'[f.of])
      BY DEF Carried
    <2>1. f.of \in Deferreds /\ f.kind \in Kinds
      BY DEF Frame
    <2>2. CASE f.kind \in Settling
      BY <1>0, <1>5, <2>1, <2>2 DEF InStep
    <2>3. CASE f.kind = "progress"
      <3>1. f.kind \notin Settling
        BY <2>3, KindFacts
      <3>2. lists[f.of]["progress"].firing
        BY <2>3 DEF InStep
      <3>3. lists'[f.of]["progress"].firing
        BY <1>0, <1>2, <1>4, <2>1, <3>2
      <3> QED
        BY <2>3, <3>1, <3>3 DEF InStep
    <2> QED
      BY <2>1, <2>2, <2>3, KindFacts
  <1>8. frames' \in Seq(Frame) /\ FramesInv'
    <2>1. CASE c.firing /\ ~l["progress"].firing
      <3>1. frames' = <<e>> \o frames
        BY <2>1 DEF Started, ProgressTurn
      <3>2. e \in Frame /\ e.of = d /\ e.kind = "progress" /\ e.running = null
        BY KindFacts DEF Frame
      <3>3. ~lists[e.of][e.kind].firing
        BY <2>1, <3>2
      <3> HIDE DEF e
      <3>4. InStep(e, lists'[e.of], regs'[e.of], called'[e.of])
        <4>1. lists'[e.of]["progress"] = c
          BY <1>2, <1>4, <3>2
        <4>2. e.kind \notin Settling /\ lists'[e.of][e.kind].firing
          BY <2>1, <3>2, <4>1, KindFacts
        <4> QED
          BY <4>2 DEF InStep
      <3>5. Stepping(frames, lists, regs, called)
        BY <1>1 DEF FramesInv
      <3>6. frames' \in Seq(Frame) /\ Stepping(frames', lists', regs', called')
        <4>1. frames \in Seq(Frame) /\ e \in Frame
          BY <1>1, <3>2
        <4>2. Enters(e, lists, lists', regs', called')
          BY <3>3, <3>4 DEF Enters
        <4> QED
          BY <1>7, <3>1, <3>5, <4>1, <4>2, StepPush
      <3> QED
        BY <3>6 DEF FramesInv
    <2>2. CASE ~(c.firing /\ ~l["progress"].firing)
      <3>1. frames' = << >> \o frames
        BY <2>2 DEF Started, ProgressTurn
      <3>2. frames' = frames
        BY <1>1, <3>1
      <3> QED
        BY <1>1, <1>7, <3>2, StepStay DEF FramesInv
    <2> QED
      BY <2>1, <2>2
  <1>9. \A x \in Deferreds : lists'[x]["progress"]
                                = IF x = d THEN c ELSE lists[x]["progress"]
    BY <1>2, <1>4
  <1>10. ProgressInv'
    BY <1>0, <1>1, <1>9 DEF ProgressInv
  <1>11. TypeOK'
    BY <1>0, <1>1, <1>4, <1>8 DEF TypeOK
  <1> QED
    BY <1>5, <1>6, <1>8, <1>9, <1>10, <1>11 DEF DeferredInv

(* progress is such a step. *)
LEMMA ProgressAdds ==
    ASSUME DeferredInv, NEW d \in Deferreds, NEW h \in Handlers, progress(d, h)
    PROVE  /\ add(lists[d]["progress"], h) \in CallbackList
           /\ ProgressTurn(d, add(lists[d]["progress"], h))
           /\ UNCHANGED <<state, regs, called, heard, news, threw>>
  <1> DEFINE p == lists[d]["progress"]
             c == add(p, h)
  <1>1. TypeOK /\ p \in CallbackList /\ ListensOnly(p)
    BY KindFacts DEF DeferredInv, TypeOK, ProgressInv
  <1>2. /\ PageRuns
        /\ lists' = [lists EXCEPT ![d]["progress"] = c]
        /\ frames' = Started(d, "progress", c) \o frames
        /\ watchers' = [watchers EXCEPT ![d] = @ \cup {h}]
        /\ UNCHANGED <<state, regs, called, heard, news, threw>>
    BY DEF progress
  <1>3. c \in CallbackList /\ ListensOnly(c) /\ (p.firing => c.firing)
    <2> HIDE DEF p
    <2>1. CASE p.list = null
      BY <1>1, <2>1, AddFields
    <2>2. CASE p.list # null
      <3>1. p.list \in Seq(Handlers)
        BY <1>1, <2>2 DEF ListensOnly
      <3>2. Append(p.list, h) \in Seq(Handlers)
        BY <3>1
      <3>3. /\ c \in CallbackList /\ c.list = Append(p.list, h) /\ c.memory = p.memory
            /\ p.firing => c.firing
            /\ (~p.firing /\ p.memory = null) => ~c.firing
            /\ c.firing => (c.firingLength = Len(p.list) + 1)
            /\ Len(c.list) = Len(p.list) + 1
        BY <1>1, <2>2, AddFields
      <3> HIDE DEF c
      <3>4. c.list # null
        <4>1. c.list \in Seq(Entry)
          BY <3>2, <3>3 DEF Entry
        <4> QED
          BY <4>1, NullApart
      <3>5. c.firing => (c.memory # null /\ c.firingLength = Len(c.list))
        BY <1>1, <3>3 DEF ListensOnly
      <3> QED
        BY <3>2, <3>3, <3>4, <3>5 DEF ListensOnly
    <2> QED
      BY <2>1, <2>2
  <1> HIDE DEF c
  <1>4. watchers' \in [Deferreds -> SUBSET Handlers]
    BY <1>1, <1>2 DEF TypeOK
  <1>5. heard' \in [Handlers -> Seq(Nat)] /\ news' \in [Deferreds -> 0..MaxNews]
    BY <1>1, <1>2 DEF TypeOK
  <1>6. ProgressTurn(d, c)
    BY <1>2, <1>3, <1>4, <1>5 DEF ProgressTurn
  <1> QED
    BY <1>2, <1>3, <1>6 DEF c

(* notify is such a step. *)
LEMMA ProgressNotifies ==
    ASSUME DeferredInv, NEW d \in Deferreds, notifyWith(d)
    PROVE  LET c == fireWith(lists[d]["progress"], news[d] + 1) IN
           /\ c \in CallbackList
           /\ ProgressTurn(d, c)
           /\ UNCHANGED <<state, regs, watchers, called, heard, threw>>
           /\ news' = IF c = lists[d]["progress"] THEN news ELSE [news EXCEPT ![d] = @ + 1]
  <1> DEFINE p == lists[d]["progress"]
             n == news[d] + 1
             c == fireWith(p, n)
  <1>1. TypeOK /\ p \in CallbackList /\ ListensOnly(p) /\ n \in Nat /\ n # null
    <2>1. TypeOK /\ p \in CallbackList /\ ListensOnly(p)
      BY KindFacts DEF DeferredInv, TypeOK, ProgressInv
    <2>2. news[d] \in 0..MaxNews
      BY <2>1 DEF TypeOK
    <2>3. n \in Nat
      BY <2>2, DeferredAssumption
    <2> QED
      BY <2>1, <2>3, NullApart
  <1>2. /\ PageRuns /\ news[d] < MaxNews
        /\ lists' = [lists EXCEPT ![d]["progress"] = c]
        /\ frames' = Started(d, "progress", c) \o frames
        /\ news' = IF c = p THEN news ELSE [news EXCEPT ![d] = @ + 1]
        /\ UNCHANGED <<state, regs, watchers, called, heard, threw>>
    BY DEF notifyWith
  <1> HIDE DEF n
  <1>3. c \in CallbackList /\ ListensOnly(c) /\ (p.firing => c.firing)
    <2> HIDE DEF p
    <2>1. CASE p.list = null \/ (p.fired /\ p.stack = null)
      BY <1>1, <2>1, FireWithFields
    <2>2. CASE p.list # null /\ p.stack # null /\ p.firing
      <3>1. /\ c \in CallbackList /\ c.list = p.list /\ c.memory = p.memory /\ c.firing
            /\ c.firingLength = p.firingLength
        BY <1>1, <2>2, FireWithFields
      <3> HIDE DEF c
      <3> QED
        BY <1>1, <2>2, <3>1 DEF ListensOnly
    <2>3. CASE /\ p.list # null /\ ~(p.fired /\ p.stack = null)
               /\ ~(p.stack # null /\ p.firing)
      <3>1. c = fire(p, n)
        BY <1>1, <2>3, FireWithFields
      <3>2. /\ c \in CallbackList /\ c.list = p.list /\ c.memory = n /\ c.firing
            /\ c.firingLength = Len(p.list)
        BY <1>1, <2>3, <3>1, FireFields
      <3> HIDE DEF c
      <3> QED
        BY <1>1, <2>3, <3>2 DEF ListensOnly
    <2> QED
      BY <2>1, <2>2, <2>3
  <1> HIDE DEF c
  <1>4. news' \in [Deferreds -> 0..MaxNews]
    <2>1. news \in [Deferreds -> 0..MaxNews] /\ news[d] + 1 \in 0..MaxNews
      BY <1>1, <1>2, DeferredAssumption DEF TypeOK
    <2> QED
      BY <1>2, <2>1
  <1>5. heard' \in [Handlers -> Seq(Nat)] /\ watchers' \in [Deferreds -> SUBSET Handlers]
    BY <1>1, <1>2 DEF TypeOK
  <1>6. ProgressTurn(d, c)
    BY <1>2, <1>3, <1>4, <1>5 DEF ProgressTurn
  <1> QED
    BY <1>2, <1>3, <1>6 DEF c, n

(* resolve and reject. *)
LEMMA SettleStep ==
    ASSUME DeferredInv, PageRuns, NEW d \in Deferreds, NEW k \in Settling, settleWith(d, k)
    PROVE  /\ DeferredInv'
           /\ UNCHANGED <<state, regs, watchers, called, heard, news, threw>>
           /\ \A e \in Deferreds, j \in Kinds : (e # d \/ j # k) => lists'[e][j] = lists[e][j]
           /\ \/ lists' = lists /\ frames' = frames
              \/ AtHead(d, k)' /\ called[d] = << >>
  <1> DEFINE l == lists[d]
             a == fireWith(l[k], 0)
             l2 == [l EXCEPT ![k] = a]
             e == [of |-> d, kind |-> k, running |-> null]
             o == state[d]
             r == regs[d]
             cs == called[d]
  <1>1. /\ TypeOK /\ PromiseInv /\ FramesInv /\ ProgressInv
        /\ o \in {"pending", "resolved", "rejected"}
        /\ l \in [Kinds -> CallbackList] /\ r \in [Final -> Seq(Handlers)]
        /\ cs \in Seq(Handlers) /\ frames \in Seq(Frame)
        /\ k \in Kinds /\ k # "progress"
    BY OfOne, KindFacts DEF DeferredInv
  <1>2. /\ lists' = [lists EXCEPT ![d][k] = a]
        /\ frames' = Started(d, k, a) \o frames
        /\ state' = state /\ regs' = regs /\ watchers' = watchers /\ called' = called
        /\ heard' = heard /\ news' = news /\ threw' = threw
    BY DEF settleWith
  <1>3. Calm(o, l, r, cs)
    BY CalmForThePage
  <1>4. /\ l2 \in [Kinds -> CallbackList]
        /\ \/ l2 = l
           \/ /\ o = "pending" /\ Opening(o, l2, r, cs, k)
              /\ ~l[k].firing /\ l2[k].firing /\ cs = << >>
    <2>1. l2 = Fired(l, k)
      BY DEF Fired
    <2> HIDE DEF l2, l, r, cs, o
    <2>2. SettledOnce(o, l, l2, r, cs, k)
      BY <1>1, <1>3, <2>1, CalmFired
    <2> QED
      BY <2>2 DEF SettledOnce
  <1>5. /\ lists' = [lists EXCEPT ![d] = l2]
        /\ l2[k] = a /\ \A j \in Kinds : j # k => l2[j] = l[j]
    BY <1>1, <1>2
  <1> HIDE DEF a, l2
  <1>6. /\ lists' \in [Deferreds -> [Kinds -> CallbackList]]
        /\ lists'[d] = l2 /\ \A x \in Deferreds : x # d => lists'[x] = lists[x]
    BY <1>1, <1>4, <1>5 DEF TypeOK
  <1>7. CASE l2 = l
    <2>1. lists' = lists
      BY <1>1, <1>5, <1>7 DEF TypeOK
    <2>2. frames' = << >> \o frames
      BY <1>2, <1>5, <1>7 DEF Started
    <2>3. frames' = frames
      BY <1>1, <2>2
    <2>4. DeferredInv'
      BY <1>1, <1>2, <2>1, <2>3
         DEF DeferredInv, TypeOK, PromiseInv, FramesInv, ProgressInv, AtHead
    <2> QED
      BY <1>2, <2>1, <2>3, <2>4
  <1>8. CASE /\ o = "pending" /\ Opening(o, l2, r, cs, k)
             /\ ~l[k].firing /\ l2[k].firing /\ cs = << >>
    <2>1. frames' = <<e>> \o frames
      BY <1>2, <1>5, <1>8 DEF Started
    <2>2. e \in Frame /\ e.of = d /\ e.kind = k /\ e.running = null
      BY <1>1 DEF Frame
    <2>3. InStep(e, l2, r, cs)
      <3>1. Prelude(l2[k], r[Outcome(k)])
        BY <1>8 DEF Opening
      <3> QED
        BY <1>8, <2>2, <3>1 DEF InStep
    <2>4. Carried(lists, regs, called, lists', regs', called')
      <3> SUFFICES ASSUME NEW f \in Frame, InStep(f, lists[f.of], regs[f.of], called[f.of])
                   PROVE  InStep(f, lists'[f.of], regs'[f.of], called'[f.of])
        BY DEF Carried
      <3>1. f.of \in Deferreds /\ f.kind \in Kinds
        BY DEF Frame
      <3>2. CASE f.of # d
        BY <1>2, <1>6, <3>1, <3>2
      <3>3. CASE f.of = d
        <4>1. f.kind # k
          BY <1>8, <3>3 DEF InStep
        <4>2. lists'[f.of][f.kind] = lists[f.of][f.kind]
          BY <1>5, <1>6, <3>1, <3>3, <4>1
        <4> QED
          BY <1>2, <4>2 DEF InStep
      <3> QED
        BY <3>2, <3>3
    <2>5. frames' \in Seq(Frame) /\ frames' # << >> /\ Head(frames') = e /\ FramesInv'
      <3>1. Stepping(frames, lists, regs, called)
        BY <1>1 DEF FramesInv
      <3>2. ~lists[e.of][e.kind].firing
        BY <1>8, <2>2
      <3>3. InStep(e, lists'[e.of], regs'[e.of], called'[e.of])
        <4>1. lists'[e.of] = l2 /\ regs'[e.of] = r /\ called'[e.of] = cs
          BY <1>2, <1>6, <2>2
        <4> QED
          BY <2>3, <4>1
      <3> HIDE DEF e
      <3>4. frames' \in Seq(Frame) /\ Stepping(frames', lists', regs', called')
        <4>1. frames \in Seq(Frame) /\ e \in Frame
          BY <1>1, <2>2
        <4>2. Enters(e, lists, lists', regs', called')
          BY <3>2, <3>3 DEF Enters
        <4> QED
          BY <2>1, <2>4, <3>1, <4>1, <4>2, StepPush
      <3>5. frames' # << >> /\ Head(frames') = e
        BY <1>1, <2>1, <2>2, Pushed
      <3> QED
        BY <3>4, <3>5 DEF FramesInv
    <2>6. AtHead(d, k)'
      BY <2>5 DEF AtHead
    <2>7. PromiseInv'
      <3> SUFFICES ASSUME NEW x \in Deferreds
                   PROVE  \/ Calm(state'[x], lists'[x], regs'[x], called'[x])
                          \/ \E j \in Settling :
                                AtHead(x, j)' /\ Opening(state'[x], lists'[x], regs'[x], called'[x], j)
        BY DEF PromiseInv, AtHead
      <3>1. CASE x = d
        BY <1>2, <1>6, <1>8, <2>6, <3>1
      <3>2. CASE x # d
        BY <1>2, <1>6, <3>2, CalmForThePage
      <3> QED
        BY <3>1, <3>2
    <2>8. ProgressInv'
      BY <1>1, <1>5, <1>6, KindFacts DEF ProgressInv
    <2>9. TypeOK'
      BY <1>1, <1>2, <1>6, <2>5 DEF TypeOK
    <2> QED
      BY <1>2, <1>5, <1>6, <1>8, <2>5, <2>6, <2>7, <2>8, <2>9 DEF DeferredInv
  <1> QED
    BY <1>4, <1>7, <1>8

-----------------------------------------------------------------------------
(* The steps of the loops. *)

(* What is known of the innermost loop and of the promises when it takes a *)
(* step.                                                                   *)
LEMMA Innermost ==
    ASSUME DeferredInv, frames # << >>, NEW f, f = Head(frames)
    PROVE  /\ f \in Frame /\ f.of \in Deferreds /\ f.kind \in Kinds
           /\ f.running \in Handlers \cup {null}
           /\ InStep(f, lists[f.of], regs[f.of], called[f.of])
           /\ \A e \in Deferreds : (e # f.of \/ f.kind = "progress" \/ f.running # null)
                 => Calm(state[e], lists[e], regs[e], called[e])
           /\ (f.running = null /\ f.kind \in Settling) =>
                 \/ Calm(state[f.of], lists[f.of], regs[f.of], called[f.of])
                 \/ Opening(state[f.of], lists[f.of], regs[f.of], called[f.of], f.kind)
  <1>1. frames \in Seq(Frame) /\ TypeOK /\ FramesInv /\ PromiseInv
    BY OfOne DEF DeferredInv, TypeOK
  <1>2. f \in Frame /\ 1 \in DOMAIN frames /\ f = frames[1]
    BY <1>1
  <1>3. f.of \in Deferreds /\ f.kind \in Kinds /\ f.running \in Handlers \cup {null}
    BY <1>2 DEF Frame
  <1>4. InStep(f, lists[f.of], regs[f.of], called[f.of])
    BY <1>1, <1>2 DEF FramesInv, Stepping
  <1>5. \A e \in Deferreds : \A k \in Settling : AtHead(e, k) =>
            (f.of = e /\ f.kind = k /\ f.running = null)
    BY DEF AtHead
  <1>6. \A e \in Deferreds : (e # f.of \/ f.kind = "progress" \/ f.running # null)
                 => Calm(state[e], lists[e], regs[e], called[e])
    BY <1>5, CalmOrAtHead, KindFacts
  <1>7. (f.running = null /\ f.kind \in Settling) =>
                 \/ Calm(state[f.of], lists[f.of], regs[f.of], called[f.of])
                 \/ Opening(state[f.of], lists[f.of], regs[f.of], called[f.of], f.kind)
    BY <1>1, <1>3, <1>5 DEF PromiseInv
  <1> QED
    BY <1>2, <1>3, <1>4, <1>6, <1>7

(* The step that calls one of Deferred's own callbacks: the only one that  *)
(* changes the state of a promise, and only from pending.                  *)
LEMMA InternalStep ==
    ASSUME DeferredInv, CallInternal
    PROVE  LET d == Head(frames).of
               k == Head(frames).kind IN
           /\ DeferredInv'
           /\ UNCHANGED <<frames, regs, watchers, called, heard, news, threw>>
           /\ d \in Deferreds /\ k \in Settling
           /\ state' = state \/ (state[d] = "pending" /\ state' = [state EXCEPT ![d] = Outcome(k)])
           /\ \A e \in Deferreds, j \in Kinds :
                 lists'[e][j].fired = lists[e][j].fired /\ lists'[e][j].firing = lists[e][j].firing
           /\ \A e \in Deferreds : \/ lists'[e]["progress"] = lists[e]["progress"]
                                   \/ lists'[e]["progress"] = lock(lists[e]["progress"])
  <1> DEFINE f == Head(frames)
             d == f.of
             k == f.kind
             l == lists[d]
             o == state[d]
             r == regs[d]
             cs == called[d]
             b == Callback(l[k])
             p == IF b = "settle" THEN Outcome(k) ELSE o
             l2 == afterCall(l, k, b)
  <1>1. /\ TypeOK /\ PromiseInv /\ FramesInv /\ ProgressInv
        /\ frames # << >> /\ f.running = null /\ frames \in Seq(Frame)
        /\ HasNext(l[k]) /\ b \in Internal
        /\ state' = IF b = "settle" THEN [state EXCEPT ![d] = Outcome(k)] ELSE state
        /\ frames' = frames /\ regs' = regs /\ watchers' = watchers /\ called' = called
        /\ heard' = heard /\ news' = news /\ threw' = threw
    <2>1. TypeOK /\ PromiseInv /\ FramesInv /\ ProgressInv
      BY DEF DeferredInv
    <2>2. frames \in Seq(Frame)
      BY <2>1 DEF TypeOK
    <2>3. Looping /\ Current = l[k]
      BY DEF CallInternal, Current
    <2>4. /\ HasNext(l[k]) /\ b \in Internal
          /\ state' = IF b = "settle" THEN [state EXCEPT ![d] = Outcome(k)] ELSE state
          /\ frames' = frames /\ regs' = regs /\ watchers' = watchers /\ called' = called
          /\ heard' = heard /\ news' = news /\ threw' = threw
      BY DEF CallInternal, Current
    <2> QED
      BY <2>1, <2>2, <2>3, <2>4 DEF Looping
  <1>2. lists' = [lists EXCEPT ![d] = l2]
    BY DEF CallInternal, Current
  <1>0. d = f.of /\ k = f.kind
    OBVIOUS
  <1> HIDE DEF d, k
  <1>3. /\ f \in Frame /\ d \in Deferreds /\ k \in Kinds /\ f.of = d /\ f.kind = k
        /\ InStep(f, l, r, cs)
        /\ \A e \in Deferreds : (e # d \/ k = "progress")
              => Calm(state[e], lists[e], regs[e], called[e])
        /\ k \in Settling => Calm(o, l, r, cs) \/ Opening(o, l, r, cs, k)
    BY <1>0, <1>1, Innermost
  <1>4. /\ o \in {"pending", "resolved", "rejected"}
        /\ l \in [Kinds -> CallbackList] /\ r \in [Final -> Seq(Handlers)]
        /\ cs \in Seq(Handlers)
    BY <1>1, <1>3, OfOne
  <1>5. b \notin Handlers
    BY <1>1, DeferredAssumption
  <1>6. k \in Settling
    <2> SUFFICES ASSUME k = "progress" PROVE FALSE
      BY <1>3, KindFacts
    <2> DEFINE q == l[k]
    <2>1. q.firing /\ ListensOnly(q)
      BY <1>1, <1>3 DEF InStep, ProgressInv
    <2>2. q.list \in Seq(Handlers) /\ q.firingLength = Len(q.list) /\ q.firingIndex \in Nat
      <3>1. q \in CallbackList
        BY <1>3, <1>4
      <3> HIDE DEF q
      <3> QED
        BY <2>1, <3>1 DEF ListensOnly, CallbackList
    <2>3. q.firingIndex < q.firingLength /\ b = q.list[q.firingIndex + 1]
      BY <1>1 DEF HasNext, Callback
    <2> HIDE DEF q, b
    <2>4. q.firingIndex + 1 \in 1..Len(q.list)
      BY <2>2, <2>3
    <2>5. b \in Handlers
      BY <2>2, <2>3, <2>4
    <2> QED
      BY <1>5, <2>5
  <1>7. Opening(o, l, r, cs, k)
    <2> SUFFICES ASSUME Calm(o, l, r, cs) PROVE FALSE
      BY <1>3, <1>6
    <2> HIDE DEF o, l, r, cs, b, f
    <2>1. FollowsOn(cs, r[Outcome(k)], Callback(l[k]))
      <3>1. f \in Frame /\ f.kind = k /\ f.running = null /\ InStep(f, l, r, cs) /\ HasNext(l[k])
        BY <1>1, <1>3
      <3> QED
        BY <1>4, <1>6, <3>1, NextIsRegistered
    <2> QED
      BY <1>5, <2>1 DEF b, FollowsOn
  <1>8. InternalDone(l, r, cs, k, b, l2, p)
    <2>1. b = Callback(l[k]) /\ l2 = afterCall(l, k, b) /\ p = IF b = "settle" THEN Outcome(k) ELSE o
      OBVIOUS
    <2> HIDE DEF o, l, r, cs, b, l2, p
    <2> QED
      BY <1>4, <1>6, <1>7, <2>1, OpeningStep
  <1>9. (b = "settle") => (o = "pending")
    BY <1>4, <1>6, <1>7, OpeningFacts
  <1> HIDE DEF l2, b
  <1>10. /\ lists' \in [Deferreds -> [Kinds -> CallbackList]]
         /\ lists'[d] = l2 /\ \A e \in Deferreds : e # d => lists'[e] = lists[e]
    BY <1>1, <1>2, <1>3, <1>8 DEF TypeOK, InternalDone
  <1>11. /\ state' \in [Deferreds -> {"pending", "resolved", "rejected"}]
         /\ state'[d] = p /\ \A e \in Deferreds : e # d => state'[e] = state[e]
         /\ state' = state \/ (o = "pending" /\ state' = [state EXCEPT ![d] = Outcome(k)])
    <2>1. Outcome(k) \in {"pending", "resolved", "rejected"}
      BY <1>6, KindFacts DEF Final
    <2> QED
      BY <1>1, <1>3, <1>9, <2>1 DEF TypeOK
  <1>12. PromiseInv'
    <2> SUFFICES ASSUME NEW x \in Deferreds
                 PROVE  \/ Calm(state'[x], lists'[x], regs'[x], called'[x])
                        \/ \E j \in Settling :
                              /\ frames' # << >>
                              /\ Head(frames') = [of |-> x, kind |-> j, running |-> null]
                              /\ Opening(state'[x], lists'[x], regs'[x], called'[x], j)
      BY DEF PromiseInv, AtHead
    <2>1. CASE x = d
      <3>1. frames' # << >> /\ Head(frames') = [of |-> d, kind |-> k, running |-> null]
        <4>1. f \in Frame /\ f.of = d /\ f.kind = k /\ f.running = null
          BY <1>1, <1>3
        <4>2. f = [of |-> d, kind |-> k, running |-> null]
          <5> HIDE DEF f
          <5> QED
            BY <4>1 DEF Frame
        <4> QED
          BY <1>1, <4>2
      <3>2. Opening(p, l2, r, cs, k) \/ Calm(p, l2, r, cs)
        BY <1>8 DEF InternalDone
      <3>3. state'[x] = p /\ lists'[x] = l2 /\ regs'[x] = r /\ called'[x] = cs
        BY <1>1, <1>10, <1>11, <2>1
      <3> QED
        BY <1>6, <2>1, <3>1, <3>2, <3>3
    <2>2. CASE x # d
      BY <1>1, <1>3, <1>10, <1>11, <2>2
    <2> QED
      BY <2>1, <2>2
  <1>13. CarriedBut(f, lists, regs, called, lists', regs', called')
    <2> SUFFICES ASSUME NEW g \in Frame, g.of # f.of \/ g.kind # f.kind,
                        InStep(g, lists[g.of], regs[g.of], called[g.of])
                 PROVE  InStep(g, lists'[g.of], regs'[g.of], called'[g.of])
      BY DEF CarriedBut
    <2>1. g.of \in Deferreds
      BY DEF Frame
    <2>2. CASE g.of # d
      BY <1>1, <1>10, <2>1, <2>2
    <2>3. CASE g.of = d
      <3>1. g.kind # k /\ InStep(g, l, r, cs)
        BY <1>3, <2>3
      <3>2. InStep(g, l2, r, cs)
        BY <1>8, <3>1 DEF InternalDone
      <3> QED
        BY <1>1, <1>10, <2>3, <3>2
    <2> QED
      BY <2>2, <2>3
  <1>14. FramesInv'
    <2>1. InStep(f, l2, r, cs)
      BY <1>1, <1>3, <1>8 DEF InternalDone
    <2>2. InStep(f, lists'[f.of], regs'[f.of], called'[f.of])
      <3>1. lists'[f.of] = l2 /\ regs'[f.of] = r /\ called'[f.of] = cs
        BY <1>1, <1>3, <1>10
      <3> QED
        BY <2>1, <3>1
    <2>3. Stepping(frames, lists, regs, called)
      BY <1>1 DEF FramesInv
    <2>4. Stepping(frames, lists', regs', called')
      BY <1>1, <1>13, <2>2, <2>3, StepHead
    <2> QED
      BY <1>1, <2>4 DEF FramesInv
  <1>15. \A e \in Deferreds : \/ lists'[e]["progress"] = lists[e]["progress"]
                              \/ lists'[e]["progress"] = lock(lists[e]["progress"])
    BY <1>8, <1>10 DEF InternalDone
  <1>16. ProgressInv'
    <2> SUFFICES ASSUME NEW e \in Deferreds PROVE ListensOnly(lists'[e]["progress"])
      BY DEF ProgressInv
    <2> DEFINE q == lists[e]["progress"]
    <2>1. q \in CallbackList /\ ListensOnly(q)
      BY <1>1, KindFacts DEF TypeOK, ProgressInv
    <2> HIDE DEF q
    <2>2. ListensOnly(lock(q))
      <3>1. CASE q.memory = null
        BY <2>1, <3>1, LockFields DEF ListensOnly
      <3>2. CASE q.memory # null
        BY <2>1, <3>2, LockFields DEF ListensOnly
      <3> QED
        BY <3>1, <3>2
    <2> QED
      BY <1>15, <2>1, <2>2 DEF q
  <1>17. TypeOK'
    BY <1>1, <1>10, <1>11 DEF TypeOK
  <1>18. \A e \in Deferreds, j \in Kinds :
             lists'[e][j].fired = lists[e][j].fired /\ lists'[e][j].firing = lists[e][j].firing
    BY <1>8, <1>10 DEF InternalDone
  <1> QED
    BY <1>1, <1>3, <1>6, <1>11, <1>12, <1>14, <1>15, <1>16, <1>17, <1>18 DEF DeferredInv, d, k

(* Except while Deferred's own callbacks open a loop, all promises are calm.*)
LEMMA AllCalm ==
    ASSUME DeferredInv, frames # << >>, NEW f, f = Head(frames),
           NEW c, c = lists[f.of][f.kind],
           (f.running = null /\ f.kind \in Settling) => ~(HasNext(c) /\ Callback(c) \in Internal)
    PROVE  \A e \in Deferreds : Calm(state[e], lists[e], regs[e], called[e])
  <1> DEFINE d == f.of
             k == f.kind
  <1>1. /\ f \in Frame /\ d \in Deferreds /\ k \in Kinds
        /\ \A e \in Deferreds : (e # d \/ k = "progress" \/ f.running # null)
                 => Calm(state[e], lists[e], regs[e], called[e])
        /\ (f.running = null /\ k \in Settling) =>
                 \/ Calm(state[d], lists[d], regs[d], called[d])
                 \/ Opening(state[d], lists[d], regs[d], called[d], k)
    BY Innermost
  <1>2. lists[d] \in [Kinds -> CallbackList] /\ regs[d] \in [Final -> Seq(Handlers)]
    BY <1>1, OfOne DEF DeferredInv
  <1>3. c = lists[d][k]
    OBVIOUS
  <1> HIDE DEF d, k
  <1>4. ASSUME f.running = null, k \in Settling
        PROVE  Calm(state[d], lists[d], regs[d], called[d])
    <2> SUFFICES ASSUME Opening(state[d], lists[d], regs[d], called[d], k) PROVE FALSE
      BY <1>1, <1>4
    <2>1. HasNext(lists[d][k]) /\ Callback(lists[d][k]) \in Internal
      BY <1>2, <1>4, OpeningFacts
    <2> QED
      BY <1>3, <1>4, <2>1 DEF k
  <1> QED
    BY <1>1, <1>4, KindFacts

(* One list of a promise changes, or its calls; the other loops stay in    *)
(* step.                                                                   *)
Turn(d, l2, ds) ==
    /\ lists' = [lists EXCEPT ![d] = l2]
    /\ called' = [called EXCEPT ![d] = ds]
    /\ state' = state /\ regs' = regs

(* A turn keeps every promise calm. *)
LEMMA TurnStep ==
    ASSUME TypeOK, \A e \in Deferreds : Calm(state[e], lists[e], regs[e], called[e]),
           NEW d \in Deferreds, NEW k \in Kinds, NEW f \in Frame, f.of = d, f.kind = k,
           NEW l2 \in [Kinds -> CallbackList], NEW ds \in Seq(Handlers),
           Turn(d, l2, ds),
           Calm(state[d], l2, regs[d], ds),
           Undisturbed(k, lists[d], regs[d], called[d], l2, ds)
    PROVE  /\ \A e \in Deferreds : Calm(state'[e], lists'[e], regs'[e], called'[e])
           /\ PromiseInv'
           /\ lists' \in [Deferreds -> [Kinds -> CallbackList]]
           /\ called' \in [Deferreds -> Seq(Handlers)]
           /\ lists'[d] = l2 /\ called'[d] = ds
           /\ \A e \in Deferreds : e # d => lists'[e] = lists[e] /\ called'[e] = called[e]
           /\ CarriedBut(f, lists, regs, called, lists', regs', called')
  <1>1. state' = state /\ regs' = regs
    BY DEF Turn
  <1>2. /\ lists' \in [Deferreds -> [Kinds -> CallbackList]]
        /\ called' \in [Deferreds -> Seq(Handlers)]
        /\ lists'[d] = l2 /\ called'[d] = ds
        /\ \A e \in Deferreds : e # d => lists'[e] = lists[e] /\ called'[e] = called[e]
    BY DEF TypeOK, Turn
  <1>3. \A e \in Deferreds : Calm(state'[e], lists'[e], regs'[e], called'[e])
    <2> SUFFICES ASSUME NEW e \in Deferreds
                 PROVE  Calm(state'[e], lists'[e], regs'[e], called'[e])
      OBVIOUS
    <2>1. CASE e = d
      BY <1>1, <1>2, <2>1
    <2>2. CASE e # d
      BY <1>1, <1>2, <2>2
    <2> QED
      BY <2>1, <2>2
  <1>4. PromiseInv'
    BY <1>3 DEF PromiseInv
  <1>5. CarriedBut(f, lists, regs, called, lists', regs', called')
    <2> SUFFICES ASSUME NEW g \in Frame, g.of # f.of \/ g.kind # f.kind,
                        InStep(g, lists[g.of], regs[g.of], called[g.of])
                 PROVE  InStep(g, lists'[g.of], regs'[g.of], called'[g.of])
      BY DEF CarriedBut
    <2>1. g.of \in Deferreds
      BY DEF Frame
    <2>2. CASE g.of # d
      BY <1>1, <1>2, <2>1, <2>2
    <2>3. CASE g.of = d
      BY <1>1, <1>2, <2>3 DEF Undisturbed
    <2> QED
      BY <2>2, <2>3
  <1> QED
    BY <1>2, <1>3, <1>4, <1>5

(* A list calls a function of the page. *)
LEMMA HandlerStep ==
    ASSUME DeferredInv, CallHandler
    PROVE  LET d == Head(frames).of
               k == Head(frames).kind
               h == Callback(Current) IN
           /\ DeferredInv'
           /\ UNCHANGED <<state, lists, regs, watchers, news, threw>>
           /\ frames # << >> /\ frames' # << >>
           /\ d \in Deferreds /\ k \in Kinds /\ h \in Handlers
           /\ Head(frames').of = d /\ Head(frames').kind = k /\ Head(frames').running = h
           /\ \A e \in Deferreds : Calm(state[e], lists[e], regs[e], called[e])
           /\ lists[d][k].firing
           /\ (k = "progress") =>
                 /\ called' = called
                 /\ heard' = [heard EXCEPT ![h] = Append(@, Current.memory)]
           /\ (k # "progress") =>
                 /\ k \in Settling /\ heard' = heard
                 /\ called' = [called EXCEPT ![d] = Append(@, h)]
                 /\ state[d] = Outcome(k) /\ Handed(called'[d], regs[d][Outcome(k)])
  <1> DEFINE f == Head(frames)
             d == f.of
             k == f.kind
             l == lists[d]
             o == state[d]
             r == regs[d]
             cs == called[d]
             c == l[k]
             h == Callback(c)
             ds == IF k = "progress" THEN cs ELSE Append(cs, h)
  <1>1. /\ TypeOK /\ PromiseInv /\ FramesInv /\ ProgressInv
        /\ frames # << >> /\ f.running = null /\ frames \in Seq(Frame)
        /\ HasNext(c) /\ h \in Handlers /\ Current = c
        /\ frames' = Runs(frames, h)
        /\ (k = "progress") => /\ called' = called
                               /\ heard' = [heard EXCEPT ![h] = Append(@, c.memory)]
        /\ (k # "progress") => /\ heard' = heard
                               /\ called' = [called EXCEPT ![d] = Append(@, h)]
        /\ state' = state /\ lists' = lists /\ regs' = regs /\ watchers' = watchers
        /\ news' = news /\ threw' = threw
    <2>1. TypeOK /\ PromiseInv /\ FramesInv /\ ProgressInv
      BY DEF DeferredInv
    <2>2. frames \in Seq(Frame)
      BY <2>1 DEF TypeOK
    <2>3. Looping /\ Current = c
      BY DEF CallHandler, Current
    <2>4. /\ HasNext(c) /\ h \in Handlers
          /\ frames' = [frames EXCEPT ![1].running = h]
          /\ (k = "progress") => /\ called' = called
                                 /\ heard' = [heard EXCEPT ![h] = Append(@, c.memory)]
          /\ (k # "progress") => /\ heard' = heard
                                 /\ called' = [called EXCEPT ![d] = Append(@, h)]
          /\ state' = state /\ lists' = lists /\ regs' = regs /\ watchers' = watchers
          /\ news' = news /\ threw' = threw
      BY <2>3 DEF CallHandler
    <2> QED
      BY <2>1, <2>2, <2>3, <2>4 DEF Looping, Runs
  <1>0. d = f.of /\ k = f.kind /\ c = lists[f.of][f.kind]
    OBVIOUS
  <1>2. \A e \in Deferreds : Calm(state[e], lists[e], regs[e], called[e])
    <2>1. h \notin Internal
      BY <1>1, DeferredAssumption
    <2>2. f = Head(frames) /\ ~(HasNext(c) /\ Callback(c) \in Internal)
      BY <2>1
    <2> HIDE DEF f, d, k, l, c, h
    <2> QED
      BY <1>0, <1>1, <2>2, AllCalm
  <1> HIDE DEF d, k
  <1>3. /\ f \in Frame /\ d \in Deferreds /\ k \in Kinds /\ f.of = d /\ f.kind = k
        /\ InStep(f, l, r, cs)
    BY <1>0, <1>1, Innermost
  <1>4. /\ o \in {"pending", "resolved", "rejected"}
        /\ l \in [Kinds -> CallbackList] /\ r \in [Final -> Seq(Handlers)]
        /\ cs \in Seq(Handlers) /\ c \in CallbackList
    BY <1>1, <1>3, OfOne
  <1>5. Calm(o, l, r, cs)
    BY <1>2, <1>3
  <1>6. c.firing /\ h # null
    BY <1>1, <1>3, NullApart DEF InStep
  <1>7. ASSUME k # "progress"
        PROVE  /\ k \in Settling /\ o = Outcome(k) /\ Handed(ds, r[Outcome(k)])
               /\ Calm(o, l, r, ds)
               /\ \A g \in Frame : (g.kind = k /\ g.running # null) => InStep(g, l, r, ds)
               /\ Undisturbed(k, l, r, cs, l, ds)
    <2>1. k \in Settling /\ ds = Append(cs, Callback(l[k])) /\ HasNext(l[k])
      BY <1>1, <1>3, <1>7, KindFacts
    <2>2. f.running = null
      BY <1>1
    <2> HIDE DEF f, l, o, r, cs, c, h, ds
    <2>3. CallDone(o, l, r, cs, k, ds)
      BY <1>3, <1>4, <1>5, <2>1, <2>2, CallStep
    <2> QED
      BY <2>1, <2>3 DEF CallDone
  <1>8. ASSUME k = "progress"
        PROVE  /\ Calm(o, l, r, ds)
               /\ \A g \in Frame : (g.kind = k /\ g.running # null) => InStep(g, l, r, ds)
               /\ Undisturbed(k, l, r, cs, l, ds)
    <2>1. ds = cs
      BY <1>8
    <2> HIDE DEF ds
    <2>2. \A g \in Frame : (g.kind = k) => InStep(g, l, r, ds)
      BY <1>6, <1>8, KindFacts DEF InStep
    <2> QED
      BY <1>5, <2>1, <2>2 DEF Undisturbed
  <1>9. ds \in Seq(Handlers)
    BY <1>1, <1>4
  <1>10. called' = [called EXCEPT ![d] = ds] /\ lists' = [lists EXCEPT ![d] = l]
    <2>1. lists' = [lists EXCEPT ![d] = l]
      BY <1>1 DEF TypeOK
    <2>2. CASE k = "progress"
      BY <1>1, <2>1, <2>2 DEF TypeOK
    <2>3. CASE k # "progress"
      BY <1>1, <2>1, <2>3
    <2> QED
      BY <2>2, <2>3
  <1> HIDE DEF ds
  <1>11. /\ PromiseInv'
         /\ called' \in [Deferreds -> Seq(Handlers)]
         /\ lists'[d] = l /\ called'[d] = ds
         /\ CarriedBut(f, lists, regs, called, lists', regs', called')
    <2>1. Turn(d, l, ds)
      BY <1>1, <1>10 DEF Turn
    <2>2. Calm(o, l, r, ds) /\ Undisturbed(k, l, r, cs, l, ds)
      BY <1>7, <1>8
    <2>3. TypeOK /\ f \in Frame /\ f.of = d /\ f.kind = k /\ l \in [Kinds -> CallbackList]
      BY <1>1, <1>3, <1>4
    <2>4. l = lists[d] /\ r = regs[d] /\ o = state[d] /\ cs = called[d]
      OBVIOUS
    <2> HIDE DEF f, l, r, o, cs
    <2> QED
      BY <1>2, <1>3, <1>9, <2>1, <2>2, <2>3, <2>4, TurnStep
  <1>12. /\ frames' \in Seq(Frame) /\ FramesInv' /\ frames' # << >>
         /\ Head(frames').of = d /\ Head(frames').kind = k /\ Head(frames').running = h
    <2> DEFINE G == Runs(frames, h)
    <2>1. Stepping(frames, lists, regs, called)
      BY <1>1 DEF FramesInv
    <2>2. h \in Handlers \cup {null}
      BY <1>1
    <2>3. /\ G \in Seq(Frame) /\ G # << >> /\ Head(G) \in Frame
          /\ Head(G).of = f.of /\ Head(G).kind = f.kind /\ Head(G).running = h
          /\ InStep(Head(G), lists'[Head(G).of], regs'[Head(G).of], called'[Head(G).of])
                => Stepping(G, lists', regs', called')
      <3>1. frames \in Seq(Frame) /\ frames # << >> /\ f = Head(frames)
        BY <1>1
      <3>2. CarriedBut(Head(frames), lists, regs, called, lists', regs', called')
        BY <1>11
      <3> HIDE DEF h, f
      <3>3. RunsOn(frames, h, lists', regs', called')
        BY <3>1, <3>2, <2>1, <2>2, StepHead
      <3> QED
        BY <3>1, <3>3 DEF RunsOn
    <2> HIDE DEF G, f, h
    <2>4. lists'[Head(G).of] = l /\ regs'[Head(G).of] = r /\ called'[Head(G).of] = ds
      BY <1>1, <1>3, <1>11, <2>3
    <2>5. InStep(Head(G), l, r, ds)
      BY <1>3, <1>6, <1>7, <1>8, <2>3
    <2>6. Stepping(G, lists', regs', called')
      BY <2>3, <2>4, <2>5
    <2> QED
      BY <1>1, <1>3, <2>3, <2>6 DEF FramesInv, G
  <1>13. ProgressInv'
    BY <1>1 DEF ProgressInv
  <1>14. heard' \in [Handlers -> Seq(Nat)]
    <2>1. CASE k # "progress"
      BY <1>1, <2>1 DEF TypeOK
    <2>2. CASE k = "progress"
      <3>1. ListensOnly(c) /\ c.memory \in Nat
        BY <1>1, <1>3, <1>4, <1>6, <2>2 DEF ProgressInv, ListensOnly, CallbackList
      <3>2. heard \in [Handlers -> Seq(Nat)] /\ Append(heard[h], c.memory) \in Seq(Nat)
        BY <1>1, <3>1 DEF TypeOK
      <3> HIDE DEF h, c
      <3> QED
        BY <1>1, <2>2, <3>2
    <2> QED
      BY <2>1, <2>2
  <1>15. TypeOK'
    BY <1>1, <1>11, <1>12, <1>14 DEF TypeOK
  <1>16. (k # "progress") => (o = Outcome(k) /\ Handed(called'[d], r[Outcome(k)]) /\ k \in Settling)
    BY <1>7, <1>11
  <1>17. DeferredInv'
    BY <1>11, <1>12, <1>13, <1>15 DEF DeferredInv
  <1> HIDE DEF h
  <1> QED
    BY <1>1, <1>2, <1>3, <1>6, <1>12, <1>16, <1>17 DEF d, k, h

(* The function returns to the loop. *)
LEMMA BackStep ==
    ASSUME DeferredInv, HandlerReturns
    PROVE  LET d == Head(frames).of
               k == Head(frames).kind IN
           /\ DeferredInv'
           /\ UNCHANGED <<state, regs, watchers, called, heard, news, threw>>
           /\ frames # << >> /\ frames' # << >>
           /\ d \in Deferreds /\ k \in Kinds
           /\ Head(frames').of = d /\ Head(frames').kind = k /\ Head(frames').running = null
           /\ lists[d][k].firing
           /\ \A e \in Deferreds : \A j \in Kinds :
                 /\ lists'[e][j].fired = lists[e][j].fired
                 /\ lists'[e][j].firing = lists[e][j].firing
           /\ \A e \in Deferreds : \A j \in Kinds :
                 (e # d \/ j # k) => (lists'[e][j] = lists[e][j])
           /\ lists'[d][k] = [lists[d][k] EXCEPT !.firingIndex = @ + 1]
  <1> DEFINE f == Head(frames)
             d == f.of
             k == f.kind
             l == lists[d]
             o == state[d]
             r == regs[d]
             cs == called[d]
             c == l[k]
             l2 == Advanced(l, k)
             c2 == [c EXCEPT !.firingIndex = @ + 1]
  <1>1. /\ TypeOK /\ PromiseInv /\ FramesInv /\ ProgressInv
        /\ frames # << >> /\ f.running # null /\ frames \in Seq(Frame)
        /\ frames' = Runs(frames, null)
        /\ state' = state /\ regs' = regs /\ watchers' = watchers /\ called' = called
        /\ heard' = heard /\ news' = news /\ threw' = threw
    <2>1. TypeOK /\ PromiseInv /\ FramesInv /\ ProgressInv
      BY DEF DeferredInv
    <2>2. frames \in Seq(Frame)
      BY <2>1 DEF TypeOK
    <2> QED
      BY <2>1, <2>2 DEF HandlerReturns, Runs
  <1>0. d = f.of /\ k = f.kind /\ c = lists[f.of][f.kind]
    OBVIOUS
  <1>2. \A e \in Deferreds : Calm(state[e], lists[e], regs[e], called[e])
    <2>1. f = Head(frames) /\ f.running # null
      BY <1>1
    <2> HIDE DEF f, d, k, l, c
    <2> QED
      BY <1>0, <1>1, <2>1, AllCalm
  <1>3. /\ f \in Frame /\ d \in Deferreds /\ k \in Kinds /\ f.of = d /\ f.kind = k
        /\ InStep(f, l, r, cs)
    BY <1>0, <1>1, Innermost
  <1>4. /\ o \in {"pending", "resolved", "rejected"}
        /\ l \in [Kinds -> CallbackList] /\ r \in [Final -> Seq(Handlers)]
        /\ cs \in Seq(Handlers) /\ c \in CallbackList
    BY <1>1, <1>3, OfOne
  <1>5. Calm(o, l, r, cs) /\ c.firing
    BY <1>2, <1>3 DEF InStep
  <1>6. /\ c2 \in CallbackList /\ c2.list = c.list /\ c2.memory = c.memory
        /\ c2.firing = c.firing /\ c2.fired = c.fired /\ c2.firingLength = c.firingLength
    <2>1. c \in CallbackList
      BY <1>4
    <2> HIDE DEF c
    <2> QED
      BY <2>1 DEF CallbackList
  <1>7. l2 = [l EXCEPT ![k] = c2]
    BY DEF Advanced
  <1>8. lists' = [lists EXCEPT ![d] = l2]
    BY DEF HandlerReturns, Advanced
  <1>9. c2 = [c EXCEPT !.firingIndex = @ + 1]
    OBVIOUS
  <1> HIDE DEF c2
  <1>10. /\ l2 \in [Kinds -> CallbackList] /\ l2[k] = c2
         /\ \A j \in Kinds : j # k => l2[j] = l[j]
    BY <1>3, <1>4, <1>6, <1>7
  <1> HIDE DEF d, k
  <1>11. ASSUME k # "progress"
         PROVE  ReturnDone(o, l, r, cs, k, l2)
    <2>1. k \in Settling /\ f.running # null /\ l2 = Advanced(l, k)
      BY <1>1, <1>3, <1>11, KindFacts
    <2> HIDE DEF f, l, o, r, cs, c, l2
    <2> QED
      BY <1>3, <1>4, <1>5, <2>1, ReturnStep
  <1>12. ASSUME k = "progress"
         PROVE  /\ Calm(o, l2, r, cs)
                /\ \A g \in Frame : (g.kind = k /\ g.running = null) => InStep(g, l2, r, cs)
                /\ Undisturbed(k, l, r, cs, l2, cs)
    <2> HIDE DEF l2, f, l, r, cs, o
    <2>1. \A j \in Settling : j \in Kinds /\ j # k /\ Other(j) \in Kinds /\ Other(j) # k
      BY <1>12, KindFacts
    <2>2. Calm(o, l2, r, cs)
      BY <1>5, <1>10, <2>1 DEF Calm
    <2>3. \A g \in Frame : (g.kind = k) => InStep(g, l2, r, cs)
      BY <1>5, <1>6, <1>10, <1>12, KindFacts DEF InStep
    <2>4. \A g \in Frame : g.kind \in Kinds
      BY DEF Frame
    <2>5. Undisturbed(k, l, r, cs, l2, cs)
      BY <1>10, <2>4 DEF Undisturbed, InStep
    <2> QED
      BY <2>2, <2>3, <2>5
  <1>13. /\ Calm(o, l2, r, cs)
         /\ \A g \in Frame : (g.kind = k /\ g.running = null) => InStep(g, l2, r, cs)
         /\ Undisturbed(k, l, r, cs, l2, cs)
    BY <1>11, <1>12 DEF ReturnDone
  <1> HIDE DEF l2
  <1>14. /\ PromiseInv'
         /\ lists' \in [Deferreds -> [Kinds -> CallbackList]]
         /\ lists'[d] = l2
         /\ \A e \in Deferreds : e # d => lists'[e] = lists[e]
         /\ CarriedBut(f, lists, regs, called, lists', regs', called')
    <2>1. called' = [called EXCEPT ![d] = cs]
      BY <1>1 DEF TypeOK
    <2>2. Turn(d, l2, cs)
      BY <1>1, <1>8, <2>1 DEF Turn
    <2>3. TypeOK /\ f \in Frame /\ f.of = d /\ f.kind = k /\ l2 \in [Kinds -> CallbackList]
          /\ cs \in Seq(Handlers)
      BY <1>1, <1>3, <1>4, <1>10
    <2>4. l = lists[d] /\ r = regs[d] /\ o = state[d] /\ cs = called[d]
      OBVIOUS
    <2> HIDE DEF f, l, r, o, cs
    <2> QED
      BY <1>2, <1>3, <1>13, <2>2, <2>3, <2>4, TurnStep
  <1>15. /\ frames' \in Seq(Frame) /\ FramesInv' /\ frames' # << >>
         /\ Head(frames').of = d /\ Head(frames').kind = k /\ Head(frames').running = null
    <2> DEFINE G == Runs(frames, null)
    <2>1. Stepping(frames, lists, regs, called)
      BY <1>1 DEF FramesInv
    <2>2. frames \in Seq(Frame) /\ frames # << >> /\ f = Head(frames)
      BY <1>1
    <2>3. CarriedBut(Head(frames), lists, regs, called, lists', regs', called')
      BY <1>14
    <2>4. RunsOn(frames, null, lists', regs', called')
      <3> HIDE DEF f
      <3> QED
        BY <2>1, <2>2, <2>3, StepHead
    <2>5. /\ G \in Seq(Frame) /\ G # << >> /\ Head(G) \in Frame
          /\ Head(G).of = d /\ Head(G).kind = k /\ Head(G).running = null
          /\ InStep(Head(G), lists'[Head(G).of], regs'[Head(G).of], called'[Head(G).of])
                => Stepping(G, lists', regs', called')
      BY <1>3, <2>4 DEF RunsOn
    <2> HIDE DEF G, f
    <2>6. lists'[Head(G).of] = l2 /\ regs'[Head(G).of] = r /\ called'[Head(G).of] = cs
      BY <1>1, <1>14, <2>5
    <2>7. InStep(Head(G), l2, r, cs)
      BY <1>13, <2>5
    <2>8. Stepping(G, lists', regs', called')
      BY <2>5, <2>6, <2>7
    <2> QED
      BY <1>1, <2>5, <2>8 DEF FramesInv, G
  <1>16. \A e \in Deferreds : \A j \in Kinds :
             (e # d \/ j # k) => (lists'[e][j] = lists[e][j])
    BY <1>10, <1>14
  <1>17. lists'[d][k] = c2
    BY <1>10, <1>14
  <1>18. ProgressInv'
    <2> SUFFICES ASSUME NEW e \in Deferreds PROVE ListensOnly(lists'[e]["progress"])
      BY DEF ProgressInv
    <2>1. ListensOnly(lists[e]["progress"])
      BY <1>1 DEF ProgressInv
    <2>2. CASE e = d /\ k = "progress"
      BY <1>6, <1>17, <2>1, <2>2 DEF ListensOnly
    <2>3. CASE e # d \/ k # "progress"
      BY <1>16, <2>1, <2>3, KindFacts
    <2> QED
      BY <2>2, <2>3
  <1>19. \A e \in Deferreds : \A j \in Kinds :
                 /\ lists'[e][j].fired = lists[e][j].fired
                 /\ lists'[e][j].firing = lists[e][j].firing
    BY <1>6, <1>16, <1>17
  <1>20. TypeOK'
    BY <1>1, <1>14, <1>15 DEF TypeOK
  <1>21. DeferredInv'
    BY <1>14, <1>15, <1>18, <1>20 DEF DeferredInv
  <1> QED
    BY <1>1, <1>3, <1>5, <1>9, <1>15, <1>16, <1>17, <1>19, <1>21 DEF d, k

(* The loop is over, or it starts again for the next notification. *)
LEMMA OverStep ==
    ASSUME DeferredInv, EndLoop
    PROVE  LET d == Head(frames).of
               k == Head(frames).kind
               c == lists[d][k] IN
           /\ DeferredInv'
           /\ UNCHANGED <<state, regs, watchers, called, heard, news, threw>>
           /\ frames # << >> /\ Head(frames).running = null
           /\ d \in Deferreds /\ k \in Kinds
           /\ c.firing /\ ~HasNext(c)
           /\ frames' = IF endFire(c).firing THEN frames ELSE Tail(frames)
           /\ \A e \in Deferreds : \A j \in Settling : lists'[e][j].fired = lists[e][j].fired
           /\ \A e \in Deferreds : \A j \in Kinds :
                 (e # d \/ j # k) => (lists'[e][j] = lists[e][j])
           /\ lists'[d][k] = endFire(c)
           /\ (k # "progress") =>
                 /\ k \in Settling /\ state[d] = Outcome(k)
                 /\ Len(called[d]) = Len(regs[d][Outcome(k)])
  <1> DEFINE f == Head(frames)
             d == f.of
             k == f.kind
             l == lists[d]
             o == state[d]
             r == regs[d]
             cs == called[d]
             c == l[k]
             l2 == Ended(l, k)
             c2 == endFire(c)
  <1>1. /\ TypeOK /\ PromiseInv /\ FramesInv /\ ProgressInv
        /\ frames # << >> /\ f.running = null /\ frames \in Seq(Frame)
        /\ ~HasNext(c)
        /\ frames' = IF c2.firing THEN frames ELSE Tail(frames)
        /\ state' = state /\ regs' = regs /\ watchers' = watchers /\ called' = called
        /\ heard' = heard /\ news' = news /\ threw' = threw
    <2>1. TypeOK /\ PromiseInv /\ FramesInv /\ ProgressInv
      BY DEF DeferredInv
    <2>2. frames \in Seq(Frame)
      BY <2>1 DEF TypeOK
    <2>3. Current = c
      BY DEF Current
    <2> QED
      BY <2>1, <2>2, <2>3 DEF EndLoop, Looping
  <1>0. d = f.of /\ k = f.kind /\ c = lists[f.of][f.kind]
    OBVIOUS
  <1>2. \A e \in Deferreds : Calm(state[e], lists[e], regs[e], called[e])
    <2>1. f = Head(frames)
      BY <1>1
    <2> HIDE DEF f, d, k, l, c
    <2> QED
      BY <1>0, <1>1, <2>1, AllCalm
  <1>3. /\ f \in Frame /\ d \in Deferreds /\ k \in Kinds /\ f.of = d /\ f.kind = k
        /\ InStep(f, l, r, cs)
    BY <1>0, <1>1, Innermost
  <1>4. /\ o \in {"pending", "resolved", "rejected"}
        /\ l \in [Kinds -> CallbackList] /\ r \in [Final -> Seq(Handlers)]
        /\ cs \in Seq(Handlers) /\ c \in CallbackList
    BY <1>1, <1>3, OfOne
  <1>5. Calm(o, l, r, cs) /\ c.firing
    BY <1>2, <1>3 DEF InStep
  <1>6. c2 \in CallbackList
    BY <1>4, EndFireFields
  <1>7. l2 = [l EXCEPT ![k] = c2]
    BY DEF Ended
  <1>8. lists' = [lists EXCEPT ![d] = l2]
    BY DEF EndLoop, Ended, Current
  <1>9. c2 = endFire(c)
    OBVIOUS
  <1> HIDE DEF c2
  <1>10. /\ l2 \in [Kinds -> CallbackList] /\ l2[k] = c2
         /\ \A j \in Kinds : j # k => l2[j] = l[j]
    BY <1>3, <1>4, <1>6, <1>7
  <1> HIDE DEF d, k
  <1>11. ASSUME k # "progress"
         PROVE  EndDone(o, l, r, cs, k, l2) /\ k \in Settling
    <2>1. k \in Settling /\ f.running = null /\ l2 = Ended(l, k) /\ ~HasNext(l[k])
      BY <1>1, <1>3, <1>11, KindFacts
    <2> HIDE DEF f, l, o, r, cs, c, l2
    <2> QED
      BY <1>3, <1>4, <1>5, <2>1, EndStep
  <1>12. ASSUME k = "progress"
         PROVE  /\ Calm(o, l2, r, cs)
                /\ Undisturbed(k, l, r, cs, l2, cs)
    <2> HIDE DEF l2, f, l, r, cs, o
    <2>1. \A j \in Settling : j \in Kinds /\ j # k /\ Other(j) \in Kinds /\ Other(j) # k
      BY <1>12, KindFacts
    <2>2. Calm(o, l2, r, cs)
      BY <1>5, <1>10, <2>1 DEF Calm
    <2>4. \A g \in Frame : g.kind \in Kinds
      BY DEF Frame
    <2>5. Undisturbed(k, l, r, cs, l2, cs)
      BY <1>10, <2>4 DEF Undisturbed, InStep
    <2> QED
      BY <2>2, <2>5
  <1>13. Calm(o, l2, r, cs) /\ Undisturbed(k, l, r, cs, l2, cs)
    BY <1>11, <1>12 DEF EndDone
  <1> HIDE DEF l2
  <1>14. /\ PromiseInv'
         /\ lists' \in [Deferreds -> [Kinds -> CallbackList]]
         /\ lists'[d] = l2
         /\ \A e \in Deferreds : e # d => lists'[e] = lists[e]
         /\ CarriedBut(f, lists, regs, called, lists', regs', called')
    <2>1. called' = [called EXCEPT ![d] = cs]
      BY <1>1 DEF TypeOK
    <2>2. Turn(d, l2, cs)
      BY <1>1, <1>8, <2>1 DEF Turn
    <2>3. TypeOK /\ f \in Frame /\ f.of = d /\ f.kind = k /\ l2 \in [Kinds -> CallbackList]
          /\ cs \in Seq(Handlers)
      BY <1>1, <1>3, <1>4, <1>10
    <2>4. l = lists[d] /\ r = regs[d] /\ o = state[d] /\ cs = called[d]
      OBVIOUS
    <2> HIDE DEF f, l, r, o, cs
    <2> QED
      BY <1>2, <1>3, <1>13, <2>2, <2>3, <2>4, TurnStep
  <1>15. frames' \in Seq(Frame) /\ FramesInv'
    <2>1. Stepping(frames, lists, regs, called)
      BY <1>1 DEF FramesInv
    <2>2. frames \in Seq(Frame) /\ frames # << >> /\ f = Head(frames)
      BY <1>1
    <2>3. CarriedBut(Head(frames), lists, regs, called, lists', regs', called')
      BY <1>14
    <2>4. /\ Stepping(Tail(frames), lists', regs', called') /\ Tail(frames) \in Seq(Frame)
          /\ InStep(f, lists'[f.of], regs'[f.of], called'[f.of])
                 => Stepping(frames, lists', regs', called')
      <3> HIDE DEF f
      <3> QED
        BY <2>1, <2>2, <2>3, StepHead
    <2> HIDE DEF f
    <2>5. CASE ~c2.firing
      <3>1. frames' = Tail(frames)
        BY <1>1, <2>5
      <3> QED
        BY <2>4, <3>1 DEF FramesInv
    <2>6. CASE c2.firing
      <3>1. frames' = frames
        BY <1>1, <2>6
      <3>2. k = "progress"
        BY <1>9, <1>11, <2>6 DEF EndDone
      <3>3. InStep(f, l2, r, cs)
        BY <1>3, <1>10, <2>6, <3>2, KindFacts DEF InStep
      <3>4. lists'[f.of] = l2 /\ regs'[f.of] = r /\ called'[f.of] = cs
        BY <1>1, <1>3, <1>14
      <3>5. Stepping(frames, lists', regs', called')
        BY <2>4, <3>3, <3>4
      <3> QED
        BY <2>2, <3>1, <3>5 DEF FramesInv
    <2> QED
      BY <2>5, <2>6
  <1>16. \A e \in Deferreds : \A j \in Kinds :
             (e # d \/ j # k) => (lists'[e][j] = lists[e][j])
    BY <1>10, <1>14
  <1>17. lists'[d][k] = c2
    BY <1>10, <1>14
  <1>18. ProgressInv'
    <2> SUFFICES ASSUME NEW e \in Deferreds PROVE ListensOnly(lists'[e]["progress"])
      BY DEF ProgressInv
    <2>1. ListensOnly(lists[e]["progress"])
      BY <1>1 DEF ProgressInv
    <2>2. CASE e = d /\ k = "progress"
      <3>1. ListensOnly(c) /\ lists'[e]["progress"] = c2
        BY <1>17, <2>1, <2>2
      <3> HIDE DEF c
      <3>2. ListensOnly(c2)
        <4>1. CASE c.list = null \/ c.stack = << >>
          BY <1>4, <1>9, <3>1, <4>1, EndFireFields DEF ListensOnly
        <4>2. CASE c.list # null /\ c.stack \notin {null, << >>}
          <5>1. /\ c2.list = c.list /\ c2.memory = Head(c.stack)
                /\ c2.firingLength = Len(c.list)
            BY <1>4, <1>9, <4>2, EndFireFields
          <5>2. c.stack \in Seq(Nat) /\ c.stack # << >>
            BY <1>4, <4>2 DEF CallbackList
          <5>3. Head(c.stack) \in Nat
            BY <5>2
          <5> QED
            BY <3>1, <4>2, <5>1, <5>3, NullApart DEF ListensOnly
        <4>3. CASE c.list # null /\ c.stack = null
          <5>1. ~c2.firing /\ c2.list \in {null, << >>}
            BY <1>4, <1>9, <4>3, EndFireFields
          <5>2. << >> \in Seq(Handlers)
            BY EmptySeq
          <5> QED
            BY <5>1, <5>2 DEF ListensOnly
        <4> QED
          BY <4>1, <4>2, <4>3
      <3> QED
        BY <3>1, <3>2
    <2>3. CASE e # d \/ k # "progress"
      BY <1>16, <2>1, <2>3, KindFacts
    <2> QED
      BY <2>2, <2>3
  <1>19. \A e \in Deferreds : \A j \in Settling : lists'[e][j].fired = lists[e][j].fired
    <2> SUFFICES ASSUME NEW e \in Deferreds, NEW j \in Settling
                 PROVE  lists'[e][j].fired = lists[e][j].fired
      OBVIOUS
    <2>1. j \in Kinds /\ j # "progress"
      BY KindFacts
    <2>2. CASE e = d /\ j = k
      BY <1>11, <1>14, <2>1, <2>2 DEF EndDone
    <2>3. CASE e # d \/ j # k
      BY <1>16, <2>1, <2>3
    <2> QED
      BY <2>2, <2>3
  <1>20. TypeOK'
    BY <1>1, <1>14, <1>15 DEF TypeOK
  <1>21. DeferredInv'
    BY <1>14, <1>15, <1>18, <1>20 DEF DeferredInv
  <1>22. (k # "progress") => /\ k \in Settling /\ o = Outcome(k)
                             /\ Len(cs) = Len(r[Outcome(k)])
    BY <1>11 DEF EndDone
  <1> QED
    BY <1>1, <1>3, <1>5, <1>9, <1>15, <1>16, <1>17, <1>19, <1>21, <1>22 DEF d, k

(* An exception leaves all the loops. *)
LEMMA ThrowStep ==
    ASSUME DeferredInv, HandlerThrows
    PROVE  /\ DeferredInv'
           /\ frames' = << >> /\ PageRuns
           /\ UNCHANGED <<state, lists, regs, watchers, called, heard, news>>
  <1>1. /\ TypeOK /\ PromiseInv /\ FramesInv /\ ProgressInv
        /\ frames \in Seq(Frame) /\ frames # << >> /\ frames' = << >>
        /\ Head(frames).running # null
        /\ threw' = threw \cup { <<frames[i].of, frames[i].kind>> : i \in DOMAIN frames }
        /\ UNCHANGED <<state, lists, regs, watchers, called, heard, news>>
    BY DEF DeferredInv, HandlerThrows, TypeOK
  <1>2. PageRuns
    BY <1>1 DEF PageRuns
  <1>3. PromiseInv'
    <2> SUFFICES ASSUME NEW x \in Deferreds
                 PROVE  Calm(state'[x], lists'[x], regs'[x], called'[x])
      BY DEF PromiseInv
    <2> QED
      BY <1>1, <1>2, CalmForThePage
  <1>4. frames' \in Seq(Frame) /\ FramesInv'
    <2> DEFINE none == << >>
    <2>1. none \in Seq(Frame) /\ DOMAIN none = {}
      BY EmptySeq
    <2>2. frames' = none
      BY <1>1
    <2> HIDE DEF none
    <2> QED
      BY <2>1, <2>2 DEF FramesInv, Stepping, Apart
  <1>5. threw' \subseteq Deferreds \X Kinds
    <2>0. frames \in Seq(Frame)
      BY <1>1
    <2>1. \A i \in DOMAIN frames : frames[i].of \in Deferreds /\ frames[i].kind \in Kinds
      <3>1. \A i \in DOMAIN frames : frames[i] \in Frame
        BY <2>0
      <3> QED
        BY <3>1 DEF Frame
    <2>2. threw \subseteq Deferreds \X Kinds
      BY <1>1 DEF TypeOK
    <2>3. \A i \in DOMAIN frames : <<frames[i].of, frames[i].kind>> \in Deferreds \X Kinds
      BY <2>1
    <2>4. { <<frames[i].of, frames[i].kind>> : i \in DOMAIN frames } \subseteq Deferreds \X Kinds
      BY <2>3
    <2>5. threw' = threw \cup { <<frames[i].of, frames[i].kind>> : i \in DOMAIN frames }
      BY <1>1
    <2> QED
      BY <2>2, <2>4, <2>5
  <1>6. TypeOK'
    BY <1>1, <1>4, <1>5 DEF TypeOK
  <1>7. ProgressInv'
    BY <1>1 DEF ProgressInv
  <1> QED
    BY <1>1, <1>2, <1>3, <1>4, <1>6, <1>7 DEF DeferredInv

-----------------------------------------------------------------------------
(* The steps of the page that touch a promise other than readyList, and    *)
(* those of the loops.                                                     *)

(* Every use of a promise by code of the page keeps the invariant, and is  *)
(* a step of Promise or changes nothing that Promise speaks of.            *)
LEMMA UseStep ==
    ASSUME DeferredInv, NEW d \in Deferreds, Use(d)
    PROVE  /\ DeferredInv' /\ PageRuns
           /\ state' = state /\ called' = called
           /\ \A e \in Deferreds : e # d => /\ regs'[e] = regs[e]
                                            /\ \A k \in Settling : lists'[e][k] = lists[e][k]
           /\ Promises!Next \/ UNCHANGED <<state, regs, called>>
  <1> TypeOK
    BY DEF DeferredInv
  <1>1. ASSUME NEW h \in Handlers, NEW on \in SUBSET Final, Register(d, h, on)
        PROVE  /\ DeferredInv' /\ PageRuns
               /\ state' = state /\ called' = called
               /\ \A e \in Deferreds : e # d => regs'[e] = regs[e] /\ lists'[e] = lists[e]
               /\ Promises!Register(d, h, on)
    <2>1. state' = state /\ called' = called /\ PageRuns
      BY <1>1 DEF Register
    <2>2. /\ DeferredInv'
          /\ \A e \in Deferreds : e # d => lists'[e] = lists[e]
      BY <1>1, RegisterStep
    <2>3. regs' = [regs EXCEPT ![d] = [o \in Final |->
                          IF o \in on THEN Append(regs[d][o], h) ELSE regs[d][o]]]
      BY <1>1 DEF Register, Final
    <2>4. \A e \in Deferreds : e # d => regs'[e] = regs[e]
      BY <2>3 DEF TypeOK
    <2>5. Promises!Register(d, h, on)
      BY <2>1, <2>3 DEF Promises!Register, Promises!Final, Final
    <2> QED
      BY <2>1, <2>2, <2>4, <2>5
  <1>2. ASSUME NEW h \in Handlers, progress(d, h)
        PROVE  /\ DeferredInv' /\ PageRuns
               /\ state' = state /\ called' = called /\ regs' = regs
               /\ \A e \in Deferreds, k \in Settling : lists'[e][k] = lists[e][k]
    <2>1. state' = state /\ called' = called /\ regs' = regs /\ PageRuns
      BY <1>2 DEF progress
    <2>2. /\ add(lists[d]["progress"], h) \in CallbackList
          /\ ProgressTurn(d, add(lists[d]["progress"], h))
      BY <1>2, ProgressAdds
    <2>3. /\ DeferredInv'
          /\ \A e \in Deferreds, k \in Settling : lists'[e][k] = lists[e][k]
      BY <2>2, ProgressStep
    <2> QED
      BY <2>1, <2>3
  <1>3. ASSUME NEW k \in Settling, PageRuns, settleWith(d, k)
        PROVE  /\ DeferredInv'
               /\ state' = state /\ called' = called /\ regs' = regs
               /\ \A e \in Deferreds, j \in Settling : e # d => lists'[e][j] = lists[e][j]
    BY <1>3, SettleStep, KindFacts
  <1>4. ASSUME notifyWith(d)
        PROVE  /\ DeferredInv' /\ PageRuns
               /\ state' = state /\ called' = called /\ regs' = regs
               /\ \A e \in Deferreds, k \in Settling : lists'[e][k] = lists[e][k]
    <2>1. state' = state /\ called' = called /\ regs' = regs /\ PageRuns
      BY <1>4 DEF notifyWith
    <2> DEFINE c == fireWith(lists[d]["progress"], news[d] + 1)
    <2>2. c \in CallbackList /\ ProgressTurn(d, c)
      BY <1>4, ProgressNotifies
    <2> HIDE DEF c
    <2>3. /\ DeferredInv'
          /\ \A e \in Deferreds, k \in Settling : lists'[e][k] = lists[e][k]
      BY <2>2, ProgressStep
    <2> QED
      BY <2>1, <2>3
  <1>5. CASE \E h \in Handlers, on \in SUBSET Final : Register(d, h, on)
    <2>1. PICK h \in Handlers, on \in SUBSET Final : Register(d, h, on)
      BY <1>5
    <2>2. Promises!Next
      BY <1>1, <2>1 DEF Promises!Next, Promises!Final, Final
    <2> QED
      BY <1>1, <2>1, <2>2
  <1>6. CASE \E h \in Handlers : progress(d, h)
    BY <1>2, <1>6
  <1>7. CASE \E k \in Settling : PageRuns /\ settleWith(d, k)
    BY <1>3, <1>7
  <1>8. CASE notifyWith(d)
    BY <1>4, <1>8
  <1>9. \/ \E h \in Handlers, on \in SUBSET Final : Register(d, h, on)
        \/ \E h \in Handlers : progress(d, h)
        \/ \E k \in Settling : PageRuns /\ settleWith(d, k)
        \/ notifyWith(d)
    BY DEF Use, Settling, Final
  <1> QED
    BY <1>5, <1>6, <1>7, <1>8, <1>9

(* The handlers called are the first of those registered. *)
LEMMA HandedIsPrefix ==
    ASSUME NEW cs \in Seq(Handlers), NEW R \in Seq(Handlers), Handed(cs, R)
    PROVE  IsPrefix(cs, R)
  <1> DEFINE m == Len(cs)
  <1>1. m \in Nat /\ Len(R) \in Nat /\ m <= Len(R) /\ \A i \in 1..m : cs[i] = R[i]
    BY DEF Handed
  <1>2. SubSeq(cs, 1, m) = [i \in 1..m |-> cs[i]] /\ SubSeq(R, 1, m) = [i \in 1..m |-> R[i]]
    BY <1>1
  <1>3. SubSeq(cs, 1, m) = SubSeq(R, 1, m)
    BY <1>1, <1>2
  <1> QED
    BY <1>1, <1>3 DEF IsPrefix

(* So does every step of a loop. *)
LEMMA LoopStep ==
    ASSUME DeferredInv, Loop \/ HandlerThrows
    PROVE  /\ DeferredInv'
           /\ regs' = regs
           /\ \A e \in Deferreds : \A k \in Settling : lists'[e][k].fired = lists[e][k].fired
           /\ \A e \in Deferreds : (called'[e] = << >>) => (called[e] = << >>)
           /\ \A e \in Deferreds :
                 (AtHead(e, "done") /\ called'[e] = << >> /\ Len(regs[e]["resolved"]) > 0)
                    => AtHead(e, "done")'
           /\ \A e \in Deferreds : (called'[e] # called[e]) =>
                 \E k \in Settling : lists[e][k].firing /\ lists[e][k].fired
           /\ Promises!Next \/ UNCHANGED <<state, regs, called>>
  <1> DEFINE d == Head(frames).of
             k == Head(frames).kind
             h == Callback(Current)
  <1>1. TypeOK /\ frames \in Seq(Frame)
    BY DEF DeferredInv, TypeOK
  <1>2. \A e \in Deferreds : AtHead(e, "done") =>
            /\ frames # << >> /\ d = e /\ k = "done" /\ Head(frames).running = null
    BY DEF AtHead
  <1>3. CASE CallInternal
    <2>1. /\ DeferredInv'
          /\ frames' = frames /\ regs' = regs /\ called' = called
          /\ d \in Deferreds /\ k \in Settling
          /\ state' = state \/ (state[d] = "pending" /\ state' = [state EXCEPT ![d] = Outcome(k)])
          /\ \A e \in Deferreds, j \in Kinds : lists'[e][j].fired = lists[e][j].fired
      BY <1>3, InternalStep
    <2> HIDE DEF d, k
    <2>2. \A e \in Deferreds : \A j \in Settling : lists'[e][j].fired = lists[e][j].fired
      BY <2>1, KindFacts
    <2>3. \A e \in Deferreds : AtHead(e, "done") => AtHead(e, "done")'
      BY <2>1 DEF AtHead
    <2>4. CASE state' = state
      BY <2>1, <2>2, <2>3, <2>4
    <2>5. CASE state[d] = "pending" /\ state' = [state EXCEPT ![d] = Outcome(k)]
      <3>1. Promises!Settle(d, Outcome(k))
        BY <2>1, <2>5 DEF Promises!Settle
      <3>2. Promises!Next
        BY <2>1, <3>1, KindFacts DEF Promises!Next, Promises!Final, Final
      <3> QED
        BY <2>1, <2>2, <2>3, <3>2
    <2> QED
      BY <2>1, <2>4, <2>5
  <1>4. CASE CallHandler
    <2>1. /\ DeferredInv'
          /\ state' = state /\ lists' = lists /\ regs' = regs
          /\ d \in Deferreds /\ k \in Kinds /\ h \in Handlers
          /\ \A e \in Deferreds : Calm(state[e], lists[e], regs[e], called[e])
          /\ lists[d][k].firing
          /\ (k = "progress") => (called' = called)
          /\ (k # "progress") =>
                 /\ k \in Settling
                 /\ called' = [called EXCEPT ![d] = Append(@, h)]
                 /\ state[d] = Outcome(k) /\ Handed(called'[d], regs[d][Outcome(k)])
      BY <1>4, HandlerStep
    <2> HIDE DEF d, k, h
    <2>2. CASE k = "progress"
      <3>1. \A e \in Deferreds : ~AtHead(e, "done")
        BY <1>2, <2>2
      <3> QED
        BY <2>1, <2>2, <3>1
    <2>3. CASE k # "progress"
      <3>1. /\ called[d] \in Seq(Handlers) /\ Append(called[d], h) # << >>
            /\ called'[d] = Append(called[d], h) /\ called'[d] \in Seq(Handlers)
            /\ \A e \in Deferreds : e # d => called'[e] = called[e]
        <4>1. called \in [Deferreds -> Seq(Handlers)] /\ d \in Deferreds /\ h \in Handlers
          BY <1>1, <2>1 DEF TypeOK
        <4>2. called' = [called EXCEPT ![d] = Append(called[d], h)]
          BY <2>1, <2>3
        <4>3. /\ called[d] \in Seq(Handlers)
              /\ Append(called[d], h) \in Seq(Handlers) /\ Append(called[d], h) # << >>
          BY <4>1
        <4> QED
          BY <4>1, <4>2, <4>3
      <3>2. ASSUME NEW e \in Deferreds, called'[e] = << >>
            PROVE  called[e] = << >> /\ ~AtHead(e, "done")
        <4>1. called'[d] # << >>
          BY <3>1
        <4>2. e # d
          BY <3>2, <4>1
        <4>3. ~AtHead(e, "done")
          BY <1>2, <4>2
        <4>4. called'[e] = called[e]
          BY <3>1, <4>2
        <4> QED
          BY <3>2, <4>3, <4>4
      <3>3. lists[d][k].firing /\ lists[d][k].fired /\ k \in Settling
        <4>1. /\ Calm(state[d], lists[d], regs[d], called[d]) /\ lists[d][k].firing
              /\ k \in Settling
          BY <2>1, <2>3
        <4>2. state[d] \in {"pending", "resolved", "rejected"}
          BY <1>1, <2>1, OfOne
        <4>3. Running(lists[d][k], regs[d][Outcome(k)])
          BY <4>1, <4>2, CalmFiring
        <4> QED
          BY <4>1, <4>3 DEF Running
      <3>4. Promises!Call(d, h)
        <4> DEFINE R == regs[d][Outcome(k)]
                   ds == called'[d]
        <4>1. R \in Seq(Handlers)
          BY <1>1, <2>1, <3>3, OfOne, KindFacts
        <4>2. IsPrefix(called'[d], regs[d][Outcome(k)])
          <5>1. Handed(ds, R) /\ ds \in Seq(Handlers)
            BY <2>1, <2>3, <3>1
          <5>2. IsPrefix(ds, R)
            <6> HIDE DEF ds, R
            <6> QED
              BY <4>1, <5>1, HandedIsPrefix
          <5> QED
            BY <5>2
        <4>3. Promises!Due(state[d], regs[d]) = regs[d][Outcome(k)]
          BY <2>1, <2>3, <3>3, KindFacts DEF Promises!Due
        <4>4. Promises!IsPrefix(called'[d], Promises!Due(state[d], regs[d]))
          BY <4>2, <4>3 DEF IsPrefix, Promises!IsPrefix
        <4>5. UNCHANGED <<state, regs>> /\ called' = [called EXCEPT ![d] = Append(called[d], h)]
          BY <2>1, <2>3
        <4> QED
          BY <4>4, <4>5 DEF Promises!Call
      <3>5. Promises!Next
        BY <2>1, <3>4 DEF Promises!Next
      <3> QED
        BY <2>1, <3>1, <3>2, <3>3, <3>5
    <2> QED
      BY <2>2, <2>3
  <1>5. CASE HandlerReturns
    <2>1. /\ DeferredInv'
          /\ state' = state /\ regs' = regs /\ called' = called
          /\ \A e \in Deferreds : \A j \in Kinds : lists'[e][j].fired = lists[e][j].fired
      BY <1>5, BackStep
    <2>2. \A e \in Deferreds : ~AtHead(e, "done")
      BY <1>2, <1>5 DEF HandlerReturns
    <2> QED
      BY <2>1, <2>2, KindFacts
  <1>6. CASE EndLoop
    <2>1. /\ DeferredInv'
          /\ state' = state /\ regs' = regs /\ called' = called
          /\ d \in Deferreds /\ k \in Kinds
          /\ \A e \in Deferreds : \A j \in Settling : lists'[e][j].fired = lists[e][j].fired
          /\ (k # "progress") => /\ k \in Settling
                                 /\ Len(called[d]) = Len(regs[d][Outcome(k)])
      BY <1>6, OverStep
    <2>2. ASSUME NEW e \in Deferreds, AtHead(e, "done"), called'[e] = << >>,
                 Len(regs[e]["resolved"]) > 0
          PROVE  FALSE
      <3>1. d = e /\ k = "done"
        BY <1>2, <2>2
      <3>2. Len(called[e]) = Len(regs[e]["resolved"])
        BY <2>1, <3>1, KindFacts
      <3>3. Len(called[e]) = 0
        BY <2>1, <2>2
      <3> QED
        BY <2>2, <3>2, <3>3
    <2> QED
      BY <2>1, <2>2
  <1>7. CASE HandlerThrows
    <2>1. /\ DeferredInv'
          /\ state' = state /\ regs' = regs /\ called' = called /\ lists' = lists
      BY <1>7, ThrowStep
    <2>2. \A e \in Deferreds : ~AtHead(e, "done")
      BY <1>2, <1>7 DEF HandlerThrows
    <2> QED
      BY <2>1, <2>2
  <1> QED
    BY <1>3, <1>4, <1>5, <1>6, <1>7 DEF Loop

-----------------------------------------------------------------------------
(* The ready event. *)

(* readyWait counts the holds and the event that is still to come.  Only   *)
(* the first call of ready finds the list of readyList unfired, and then   *)
(* nothing holds it; the list has called nobody as long as its first loop  *)
(* is with Deferred's own callbacks, and no code of the page runs then.    *)
ReadyInv ==
    /\ isReady => readyWait = holds
    /\ ~isReady => readyWait = holds + 1
    /\ isReady => document # "loading"
    /\ timer => document = "complete"
    /\ (listening \/ timer \/ isReady) => bound
    /\ bound => Len(regs[readyList]["resolved"]) > 0
    /\ lists[readyList]["done"].fired => isReady
    /\ ~lists[readyList]["fail"].fired
    /\ (lists[readyList]["done"].fired /\ called[readyList] = << >>)
          => (holds = 0 /\ AtHead(readyList, "done"))

(* The types of what jQuery.ready keeps. *)
WaitTypeOK ==
    /\ document \in {"loading", "interactive", "complete"}
    /\ bound \in BOOLEAN /\ listening \in BOOLEAN /\ timer \in BOOLEAN
    /\ isReady \in BOOLEAN
    /\ readyWait \in 0..(MaxHolds + 1)
    /\ holds \in 0..MaxHolds

(* The inductive invariant of the module. *)
IInv == WaitTypeOK /\ DeferredInv /\ ReadyInv

(* A page that has just begun to load satisfies it. *)
LEMMA InitiallyReady == Init => IInv
  <1> SUFFICES ASSUME Init PROVE IInv
    OBVIOUS
  <1>1. DeferredInv
    BY DeferredInitially DEF Init
  <1>2. WaitTypeOK
    <2>1. MaxHolds \in Nat /\ readyWait = 1 /\ holds = 0
      BY ReadyAssumption DEF Init
    <2>2. readyWait \in 0..(MaxHolds + 1) /\ holds \in 0..MaxHolds
      BY <2>1
    <2> QED
      BY <2>2 DEF Init, WaitTypeOK
  <1>3. ~lists[readyList]["done"].fired /\ ~lists[readyList]["fail"].fired
    <2>1. \A k \in Kinds : lists[readyList][k] = NewList(k)
      BY ReadyAssumption DEF Init, DeferredInit
    <2> QED
      BY <2>1, NewListIsUnused, KindFacts
  <1>4. /\ readyWait = 1 /\ holds = 0 /\ ~isReady /\ ~timer /\ ~listening /\ ~bound
    BY DEF Init
  <1>5. ReadyInv
    BY <1>3, <1>4 DEF ReadyInv
  <1> QED
    BY <1>1, <1>2, <1>5 DEF IInv

(* What every step but the resolution of readyList leaves as it is. *)
Quiet ==
    /\ lists'[readyList]["done"].fired = lists[readyList]["done"].fired
    /\ lists'[readyList]["fail"].fired = lists[readyList]["fail"].fired
    /\ Len(regs[readyList]["resolved"]) > 0 => Len(regs'[readyList]["resolved"]) > 0
    /\ (called'[readyList] = << >>) => (called[readyList] = << >>)
    /\ (AtHead(readyList, "done") /\ called'[readyList] = << >>
           /\ Len(regs[readyList]["resolved"]) > 0) => AtHead(readyList, "done")'

(* The resolution: the first loop begins, and no handler was called yet. *)
Resolved ==
    /\ lists'[readyList]["fail"].fired = lists[readyList]["fail"].fired
    /\ regs' = regs
    /\ AtHead(readyList, "done")'

(* No loop is at its head while code of the page runs. *)
LEMMA NobodyAtHead ==
    ASSUME PageRuns, NEW d, NEW k
    PROVE  ~AtHead(d, k)
  BY DEF PageRuns, AtHead

(* The loops are quiet. *)
LEMMA LoopIsQuiet ==
    ASSUME DeferredInv, Loop \/ HandlerThrows
    PROVE  Quiet
  <1>1. /\ regs' = regs
        /\ \A k \in Settling : lists'[readyList][k].fired = lists[readyList][k].fired
        /\ (called'[readyList] = << >>) => (called[readyList] = << >>)
        /\ (AtHead(readyList, "done") /\ called'[readyList] = << >>
              /\ Len(regs[readyList]["resolved"]) > 0) => AtHead(readyList, "done")'
    BY LoopStep, ReadyAssumption
  <1> QED
    BY <1>1, KindFacts DEF Quiet

(* The use of another promise is quiet. *)
LEMMA UseIsQuiet ==
    ASSUME DeferredInv, NEW d \in Deferreds \ {readyList}, Use(d)
    PROVE  Quiet
  <1>1. /\ PageRuns /\ called' = called
        /\ regs'[readyList] = regs[readyList]
        /\ \A k \in Settling : lists'[readyList][k] = lists[readyList][k]
    BY UseStep, ReadyAssumption
  <1>2. ~AtHead(readyList, "done")
    BY <1>1, NobodyAtHead
  <1> QED
    BY <1>1, <1>2, KindFacts DEF Quiet

(* A step that leaves the promises alone is quiet. *)
LEMMA SameIsQuiet ==
    ASSUME UNCHANGED dvars
    PROVE  Quiet
  BY DEF Quiet, dvars, AtHead

(* It keeps their invariant. *)
LEMMA SameDeferredInv ==
    ASSUME DeferredInv, UNCHANGED dvars
    PROVE  DeferredInv'
  BY DEF DeferredInv, TypeOK, PromiseInv, FramesInv, ProgressInv, AtHead, dvars

(* $(function) registers one more handler, quietly. *)
LEMMA RegisterIsQuiet ==
    ASSUME DeferredInv, NEW h \in Handlers, Register(readyList, h, {"resolved"})
    PROVE  /\ DeferredInv' /\ Quiet /\ PageRuns
           /\ Len(regs'[readyList]["resolved"]) > 0
           /\ Promises!Next
  <1>1. readyList \in Deferreds /\ {"resolved"} \in SUBSET Final
    BY ReadyAssumption DEF Final
  <1>2. /\ DeferredInv'
        /\ \A k \in Settling : lists'[readyList][k].fired = lists[readyList][k].fired
        /\ regs' = [regs EXCEPT ![readyList] = [o \in Final |->
                      IF o \in {"resolved"} THEN Append(regs[readyList][o], h)
                      ELSE regs[readyList][o]]]
    BY <1>1, RegisterStep
  <1>3. PageRuns /\ called' = called /\ state' = state
    BY DEF Register
  <1>4. ~AtHead(readyList, "done")
    BY <1>3, NobodyAtHead
  <1>5. Len(regs'[readyList]["resolved"]) > 0
    <2>1. regs \in [Deferreds -> [Final -> Seq(Handlers)]]
      BY DEF DeferredInv, TypeOK, Final
    <2>2. regs[readyList]["resolved"] \in Seq(Handlers)
      BY <1>1, <2>1 DEF Final
    <2>3. regs'[readyList]["resolved"] = Append(regs[readyList]["resolved"], h)
      BY <1>1, <1>2, <2>1 DEF Final
    <2>4. Len(Append(regs[readyList]["resolved"], h)) > 0
      BY <2>2
    <2> QED
      BY <2>3, <2>4
  <1>6. Promises!Register(readyList, h, {"resolved"})
    BY <1>2, <1>3 DEF Promises!Register, Promises!Final, Final
  <1>7. Promises!Next
    BY <1>1, <1>6 DEF Promises!Next, Promises!Final, Final
  <1> QED
    BY <1>2, <1>3, <1>4, <1>5, <1>7, KindFacts DEF Quiet

(* The resolution of readyList opens its first loop, unless it was         *)
(* resolved before.                                                        *)
LEMMA ResolveStep ==
    ASSUME DeferredInv, PageRuns, settleWith(readyList, "done")
    PROVE  /\ DeferredInv'
           /\ Quiet \/ Resolved
           /\ UNCHANGED <<state, regs, called>>
  <1>1. readyList \in Deferreds /\ "done" \in Settling /\ "fail" \in Kinds /\ "fail" # "done"
    BY ReadyAssumption, KindFacts DEF Kinds
  <1>2. /\ DeferredInv'
        /\ state' = state /\ regs' = regs /\ called' = called
        /\ \A j \in Kinds : j # "done" => lists'[readyList][j] = lists[readyList][j]
        /\ \/ lists' = lists /\ frames' = frames
           \/ AtHead(readyList, "done")'
    BY <1>1, SettleStep
  <1>3. CASE lists' = lists /\ frames' = frames
    BY <1>2, <1>3 DEF Quiet, AtHead
  <1>4. CASE AtHead(readyList, "done")'
    BY <1>1, <1>2, <1>4 DEF Resolved
  <1> QED
    BY <1>2, <1>3, <1>4

(* Between two turns of the script any code of the page may run. *)
LEMMA NoFrames == (frames = << >>) => PageRuns
  BY DEF PageRuns

(* The part of ReadyInv that the promises do not move. *)
LEMMA QuietKeeps ==
    ASSUME ReadyInv, Quiet,
           isReady' => readyWait' = holds', ~isReady' => readyWait' = holds' + 1,
           isReady' => document' # "loading",
           timer' => document' = "complete",
           (listening' \/ timer' \/ isReady') => bound',
           bound' => (bound \/ Len(regs'[readyList]["resolved"]) > 0),
           isReady => isReady',
           holds' = holds \/ PageRuns
    PROVE  ReadyInv'
  <1> DEFINE F == lists[readyList]["done"].fired
             none == << >>
  <1>1. /\ bound => Len(regs[readyList]["resolved"]) > 0
        /\ F => isReady
        /\ ~lists[readyList]["fail"].fired
        /\ (F /\ called[readyList] = << >>) => (holds = 0 /\ AtHead(readyList, "done"))
        /\ isReady => bound
    BY DEF ReadyInv
  <1>2. /\ lists'[readyList]["done"].fired = F
        /\ lists'[readyList]["fail"].fired = lists[readyList]["fail"].fired
        /\ Len(regs[readyList]["resolved"]) > 0 => Len(regs'[readyList]["resolved"]) > 0
        /\ (called'[readyList] = << >>) => (called[readyList] = << >>)
        /\ (AtHead(readyList, "done") /\ called'[readyList] = << >>
               /\ Len(regs[readyList]["resolved"]) > 0) => AtHead(readyList, "done")'
    BY DEF Quiet
  <1>3. PageRuns => ~AtHead(readyList, "done")
    BY NobodyAtHead
  <1> HIDE DEF F
  <1>4. bound' => Len(regs'[readyList]["resolved"]) > 0
    BY <1>1, <1>2
  <1>5. (F /\ called'[readyList] = << >>) => (holds' = 0 /\ AtHead(readyList, "done")')
    BY <1>1, <1>2, <1>3
  <1>6. (F => isReady') /\ ~lists'[readyList]["fail"].fired
    BY <1>1, <1>2
  <1> QED
    BY <1>2, <1>4, <1>5, <1>6 DEF ReadyInv

(* The list of readyList is resolved when nothing holds it any longer. *)
LEMMA ResolvedKeeps ==
    ASSUME ReadyInv, Resolved,
           holds' = 0, isReady',
           readyWait' = 0,
           document' # "loading",
           timer' => document' = "complete",
           bound, bound' = bound
    PROVE  ReadyInv'
  <1>1. /\ Len(regs'[readyList]["resolved"]) > 0
        /\ ~lists'[readyList]["fail"].fired
        /\ AtHead(readyList, "done")'
    BY DEF ReadyInv, Resolved
  <1> QED
    BY <1>1 DEF ReadyInv

(* The call of ready by holdReady and by the two events. *)
LEMMA BecomeReadyStep ==
    ASSUME IInv, PageRuns, NEW wait \in BOOLEAN, becomeReady(wait),
           wait => (holds > 0 /\ holds' = holds - 1),
           ~wait => (holds' = holds /\ bound /\ document' # "loading"),
           document' = document \/ document' # "loading",
           timer' => document' = "complete",
           bound' = bound,
           (listening' \/ timer') => bound'
    PROVE  /\ DeferredInv' /\ ReadyInv'
           /\ isReady' \in BOOLEAN /\ readyWait' \in 0..(MaxHolds + 1) /\ holds' \in 0..MaxHolds
           /\ UNCHANGED <<state, regs, called>>
  <1>1. /\ DeferredInv /\ ReadyInv /\ MaxHolds \in Nat
        /\ holds \in 0..MaxHolds /\ isReady \in BOOLEAN
        /\ isReady => readyWait = holds
        /\ ~isReady => readyWait = holds + 1
        /\ isReady => (document # "loading" /\ bound)
    BY ReadyAssumption DEF IInv, WaitTypeOK, ReadyInv
  <1>2. CASE UNCHANGED dvars
    <2>1. /\ isReady' => readyWait' = holds'
          /\ ~isReady' => readyWait' = holds' + 1
          /\ isReady => isReady'
          /\ isReady' \in BOOLEAN
          /\ isReady' => (isReady \/ (~wait /\ document' # "loading"))
      <3>1. CASE wait
        <4>1. readyWait' = readyWait - 1 /\ (readyWait - 1 > 0 => isReady' = isReady)
              /\ (~(readyWait - 1 > 0) => isReady' = TRUE)
          BY <3>1 DEF becomeReady
        <4>2. holds \in Nat /\ holds > 0 /\ holds' = holds - 1
          BY <1>1, <3>1
        <4>3. CASE isReady
          <5>1. readyWait = holds /\ isReady'
            BY <1>1, <4>1, <4>2, <4>3
          <5> QED
            BY <4>1, <4>2, <4>3, <5>1
        <4>4. CASE ~isReady
          <5>1. readyWait = holds + 1
            BY <1>1, <4>4
          <5>2. readyWait - 1 > 0
            BY <4>2, <5>1
          <5>3. ~isReady' /\ isReady' \in BOOLEAN
            BY <1>1, <4>1, <4>4, <5>2
          <5> QED
            BY <4>1, <4>2, <4>4, <5>1, <5>3
        <4> QED
          BY <4>3, <4>4
      <3>2. CASE ~wait /\ isReady
        BY <1>1, <3>2 DEF becomeReady
      <3>3. CASE ~wait /\ ~isReady
        <4>1. readyWait' = readyWait - 1 /\ isReady' = TRUE
          BY <3>3 DEF becomeReady
        <4> QED
          BY <1>1, <3>3, <4>1
      <3> QED
        BY <3>1, <3>2, <3>3
    <2>2. Quiet /\ DeferredInv'
      BY <1>1, <1>2, SameIsQuiet, SameDeferredInv
    <2>3. ReadyInv'
      BY <1>1, <2>1, <2>2, QuietKeeps
    <2>4. holds' \in 0..MaxHolds /\ readyWait' \in 0..(MaxHolds + 1)
      <3>1. holds' = holds \/ (holds > 0 /\ holds' = holds - 1)
        OBVIOUS
      <3>2. holds' \in 0..MaxHolds
        BY <1>1, <3>1
      <3>3. readyWait' = holds' \/ readyWait' = holds' + 1
        BY <2>1, <3>2
      <3> QED
        BY <1>1, <3>2, <3>3
    <2> QED
      BY <1>2, <2>1, <2>2, <2>3, <2>4 DEF dvars
  <1>3. CASE settleWith(readyList, "done") /\ ~(UNCHANGED dvars)
    <2>1. /\ DeferredInv' /\ (Quiet \/ Resolved)
          /\ UNCHANGED <<state, regs, called>>
      BY <1>1, <1>3, ResolveStep
    <2>2. isReady' /\ readyWait' = 0 /\ holds' = 0 /\ document' # "loading" /\ bound
      <3>1. CASE wait
        <4>1. readyWait' = readyWait - 1 /\ isReady' = TRUE /\ ~(readyWait - 1 > 0)
          BY <1>3, <3>1 DEF becomeReady
        <4> QED
          BY <1>1, <3>1, <4>1
      <3>2. CASE ~wait
        <4>1. ~isReady
          BY <1>3, <3>2 DEF becomeReady
        <4>2. readyWait' = readyWait - 1 /\ isReady' = TRUE /\ ~(readyWait - 1 > 0)
          BY <1>3, <3>2, <4>1 DEF becomeReady
        <4> QED
          BY <1>1, <3>2, <4>1, <4>2
      <3> QED
        BY <3>1, <3>2
    <2>3. ASSUME Quiet
          PROVE  ReadyInv'
      <3>1. isReady' /\ readyWait' = holds'
        BY <2>2
      <3> QED
        BY <1>1, <2>2, <2>3, <3>1, QuietKeeps
    <2>4. ASSUME Resolved
          PROVE  ReadyInv'
      BY <1>1, <2>2, <2>4, ResolvedKeeps
    <2>5. holds' \in 0..MaxHolds /\ readyWait' \in 0..(MaxHolds + 1) /\ isReady' \in BOOLEAN
      BY <1>1, <2>2
    <2> QED
      BY <2>1, <2>3, <2>4, <2>5
  <1>4. UNCHANGED dvars \/ settleWith(readyList, "done")
    BY DEF becomeReady
  <1> QED
    BY <1>2, <1>3, <1>4

(* Every step of the page, and what it does with the promises. *)
LEMMA ReadyStep ==
    ASSUME IInv, Next
    PROVE  /\ IInv'
           /\ Promises!Next \/ UNCHANGED <<state, regs, called>>
           /\ (called'[readyList] # called[readyList]) =>
                 \E k \in Settling : lists[readyList][k].firing /\ lists[readyList][k].fired
  <1>1. /\ WaitTypeOK /\ DeferredInv /\ ReadyInv
        /\ readyList \in Deferreds /\ MaxHolds \in Nat
        /\ isReady => readyWait = holds
        /\ ~isReady => readyWait = holds + 1
        /\ isReady => document # "loading"
        /\ timer => document = "complete"
        /\ (listening \/ timer \/ isReady) => bound
    BY ReadyAssumption DEF IInv, ReadyInv
  <1>2. CASE (Loop \/ HandlerThrows) /\ UNCHANGED rvars
    <2>1. Quiet
      BY <1>1, <1>2, LoopIsQuiet
    <2>2. /\ DeferredInv'
          /\ \A e \in Deferreds : (called'[e] # called[e]) =>
                \E k \in Settling : lists[e][k].firing /\ lists[e][k].fired
          /\ Promises!Next \/ UNCHANGED <<state, regs, called>>
      BY <1>1, <1>2, LoopStep
    <2>3. /\ document' = document /\ bound' = bound /\ listening' = listening /\ timer' = timer
          /\ isReady' = isReady /\ readyWait' = readyWait /\ holds' = holds
      BY <1>2 DEF rvars
    <2>4. ReadyInv'
      BY <1>1, <2>1, <2>3, QuietKeeps
    <2>5. WaitTypeOK'
      BY <1>1, <2>3 DEF WaitTypeOK
    <2> QED
      BY <1>1, <2>2, <2>4, <2>5 DEF IInv
  <1>3. ASSUME NEW d \in Deferreds \ {readyList}, Use(d), UNCHANGED rvars
        PROVE  /\ IInv' /\ called' = called
               /\ Promises!Next \/ UNCHANGED <<state, regs, called>>
    <2>1. Quiet
      BY <1>1, <1>3, UseIsQuiet
    <2>2. /\ DeferredInv' /\ called' = called
          /\ Promises!Next \/ UNCHANGED <<state, regs, called>>
      BY <1>1, <1>3, UseStep
    <2>3. /\ document' = document /\ bound' = bound /\ listening' = listening /\ timer' = timer
          /\ isReady' = isReady /\ readyWait' = readyWait /\ holds' = holds
      BY <1>3 DEF rvars
    <2>4. ReadyInv'
      BY <1>1, <2>1, <2>3, QuietKeeps
    <2>5. WaitTypeOK'
      BY <1>1, <2>3 DEF WaitTypeOK
    <2> QED
      BY <2>2, <2>4, <2>5 DEF IInv
  <1>4. ASSUME NEW h \in Handlers, ready(h)
        PROVE  IInv' /\ called' = called /\ Promises!Next
    <2>1. /\ Register(readyList, h, {"resolved"}) /\ bindReady
          /\ document' = document /\ isReady' = isReady
          /\ readyWait' = readyWait /\ holds' = holds
      BY <1>4 DEF ready
    <2>2. /\ DeferredInv' /\ Quiet /\ PageRuns
          /\ Len(regs'[readyList]["resolved"]) > 0
          /\ Promises!Next
      BY <1>1, <2>1, RegisterIsQuiet
    <2>3. called' = called
      BY <2>1 DEF Register
    <2>4. bound' = TRUE /\ (timer' => (timer \/ document = "complete"))
          /\ timer' \in BOOLEAN /\ listening' \in BOOLEAN
      BY <1>1, <2>1 DEF bindReady, WaitTypeOK
    <2>5. ReadyInv'
      BY <1>1, <2>1, <2>2, <2>4, QuietKeeps
    <2>6. WaitTypeOK'
      BY <1>1, <2>1, <2>4 DEF WaitTypeOK
    <2> QED
      BY <2>2, <2>3, <2>5, <2>6 DEF IInv
  <1>5. ASSUME NEW hold \in BOOLEAN, holdReady(hold)
        PROVE  IInv' /\ UNCHANGED <<state, regs, called>>
    <2>1. /\ PageRuns
          /\ document' = document /\ bound' = bound /\ listening' = listening /\ timer' = timer
      BY <1>5 DEF holdReady
    <2>2. CASE hold
      <3>1. /\ holds < MaxHolds /\ holds' = holds + 1 /\ readyWait' = readyWait + 1
            /\ UNCHANGED dvars /\ isReady' = isReady
        BY <1>5, <2>2 DEF holdReady
      <3>2. holds \in 0..MaxHolds
        BY <1>1 DEF WaitTypeOK
      <3>3. Quiet /\ DeferredInv'
        BY <1>1, <3>1, SameIsQuiet, SameDeferredInv
      <3>4. (isReady' => readyWait' = holds') /\ (~isReady' => readyWait' = holds' + 1)
        BY <1>1, <3>1, <3>2
      <3>5. ReadyInv'
        BY <1>1, <2>1, <3>1, <3>3, <3>4, QuietKeeps
      <3>6. holds' \in 0..MaxHolds /\ readyWait' \in 0..(MaxHolds + 1)
        BY <1>1, <3>1, <3>2
      <3>7. WaitTypeOK'
        BY <1>1, <2>1, <3>1, <3>6 DEF WaitTypeOK
      <3> QED
        BY <3>1, <3>3, <3>5, <3>7 DEF IInv, dvars
    <2>3. CASE ~hold
      <3>1. holds > 0 /\ holds' = holds - 1 /\ becomeReady(TRUE)
        BY <1>5, <2>3 DEF holdReady
      <3>2. /\ DeferredInv' /\ ReadyInv'
            /\ isReady' \in BOOLEAN /\ readyWait' \in 0..(MaxHolds + 1)
            /\ holds' \in 0..MaxHolds
            /\ UNCHANGED <<state, regs, called>>
        BY <1>1, <2>1, <3>1, BecomeReadyStep
      <3>3. WaitTypeOK'
        BY <1>1, <2>1, <3>2 DEF WaitTypeOK
      <3> QED
        BY <3>2, <3>3 DEF IInv
    <2> QED
      BY <2>2, <2>3
  <1>6. ASSUME DocumentEvent
        PROVE  IInv' /\ UNCHANGED <<state, regs, called>>
    <2>1. /\ frames = << >> /\ document # "complete" /\ listening' = FALSE
          /\ document' = IF document = "loading" THEN "interactive" ELSE "complete"
          /\ bound' = bound /\ timer' = timer /\ holds' = holds
      BY <1>6 DEF DocumentEvent
    <2>2. PageRuns
      BY <2>1, NoFrames
    <2>3. ~timer /\ document' # "loading" /\ document' \in {"loading", "interactive", "complete"}
      BY <1>1, <2>1
    <2>4. CASE listening
      <3>1. becomeReady(FALSE) /\ bound
        BY <1>1, <1>6, <2>4 DEF DocumentEvent
      <3>2. /\ DeferredInv' /\ ReadyInv'
            /\ isReady' \in BOOLEAN /\ readyWait' \in 0..(MaxHolds + 1)
            /\ holds' \in 0..MaxHolds
            /\ UNCHANGED <<state, regs, called>>
        BY <1>1, <2>1, <2>2, <2>3, <3>1, BecomeReadyStep
      <3>3. WaitTypeOK'
        BY <1>1, <2>1, <2>3, <3>2 DEF WaitTypeOK
      <3> QED
        BY <3>2, <3>3 DEF IInv
    <2>5. CASE ~listening
      <3>1. UNCHANGED dvars /\ isReady' = isReady /\ readyWait' = readyWait
        BY <1>6, <2>5 DEF DocumentEvent
      <3>2. Quiet /\ DeferredInv'
        BY <1>1, <3>1, SameIsQuiet, SameDeferredInv
      <3>3. ReadyInv'
        BY <1>1, <2>1, <2>3, <3>1, <3>2, QuietKeeps
      <3>4. WaitTypeOK'
        BY <1>1, <2>1, <2>3, <3>1 DEF WaitTypeOK
      <3> QED
        BY <3>1, <3>2, <3>3, <3>4 DEF IInv, dvars
    <2> QED
      BY <2>4, <2>5
  <1>7. ASSUME TimerFires
        PROVE  IInv' /\ UNCHANGED <<state, regs, called>>
    <2>1. /\ frames = << >> /\ timer /\ timer' = FALSE /\ becomeReady(FALSE)
          /\ document' = document /\ bound' = bound /\ listening' = listening /\ holds' = holds
      BY <1>7 DEF TimerFires
    <2>2. PageRuns
      BY <2>1, NoFrames
    <2>3. bound /\ document' # "loading" /\ ~timer'
      BY <1>1, <2>1
    <2>4. /\ DeferredInv' /\ ReadyInv'
          /\ isReady' \in BOOLEAN /\ readyWait' \in 0..(MaxHolds + 1)
          /\ holds' \in 0..MaxHolds
          /\ UNCHANGED <<state, regs, called>>
      BY <1>1, <2>1, <2>2, <2>3, BecomeReadyStep
    <2>5. WaitTypeOK'
      BY <1>1, <2>1, <2>4 DEF WaitTypeOK
    <2> QED
      BY <2>4, <2>5 DEF IInv
  <1>8. CASE \E d \in Deferreds \ {readyList} : Use(d) /\ UNCHANGED rvars
    BY <1>3, <1>8
  <1>9. CASE \E h \in Handlers : ready(h)
    BY <1>4, <1>9
  <1>10. CASE \E hold \in BOOLEAN : holdReady(hold)
    BY <1>5, <1>10
  <1>11. CASE DocumentEvent
    BY <1>6, <1>11
  <1>12. CASE TimerFires
    BY <1>7, <1>12
  <1> QED
    BY <1>2, <1>8, <1>9, <1>10, <1>11, <1>12 DEF Next

(* The invariant does not depend on anything but the variables. *)
LEMMA ReadyStutter ==
    ASSUME IInv, UNCHANGED vars
    PROVE  IInv'
  <1>1. /\ UNCHANGED dvars
        /\ document' = document /\ bound' = bound /\ listening' = listening /\ timer' = timer
        /\ isReady' = isReady /\ readyWait' = readyWait /\ holds' = holds
    BY DEF vars, rvars
  <1>2. /\ WaitTypeOK /\ DeferredInv /\ ReadyInv
    BY DEF IInv
  <1>3. DeferredInv'
    BY <1>1, <1>2, SameDeferredInv
  <1>4. ReadyInv'
    BY <1>1, <1>2 DEF ReadyInv, AtHead, dvars
  <1>5. WaitTypeOK'
    BY <1>1, <1>2 DEF WaitTypeOK
  <1> QED
    BY <1>3, <1>4, <1>5 DEF IInv

(* IInv is an invariant of the whole page. *)
LEMMA Invariance == Spec => []IInv
  <1>1. ASSUME IInv, [Next]_vars
        PROVE  IInv'
    BY <1>1, ReadyStep, ReadyStutter
  <1> QED
    BY <1>1, InitiallyReady, PTL DEF Spec

-----------------------------------------------------------------------------
(* The notifications.  W are the watchers of the promise of the progress   *)
(* list p, n is how many notifications were issued, H what everybody has   *)
(* heard.                                                                  *)

(* The last notification that h has heard is m; or it has heard none, or   *)
(* the one before m was the last.                                          *)
Told(h, m, H) == H[h] # << >> /\ H[h][Len(H[h])] = m

Untold(h, m, H) == (H[h] # << >>) => (H[h][Len(H[h])] + 1 = m)

(* While the list fires, those before the index were told what the list    *)
(* remembers, those behind it were not, and the one at the index may have  *)
(* been.                                                                   *)
TellsAlong(p, H) ==
    /\ p.firingIndex <= Len(p.list)
    /\ \A i \in 1..Len(p.list) :
          /\ (i <= p.firingIndex) => Told(p.list[i], p.memory, H)
          /\ (i > p.firingIndex + 1) => Untold(p.list[i], p.memory, H)
          /\ (i = p.firingIndex + 1) =>
                Told(p.list[i], p.memory, H) \/ Untold(p.list[i], p.memory, H)

(* The stack holds what was issued after that. *)
Queues(p, n) ==
    /\ \A i \in 1..Len(p.stack) : p.stack[i] = p.memory + i
    /\ n = p.memory + Len(p.stack)
    /\ ~p.firing => p.stack = << >>

Tells(p, W, n, H) ==
    /\ p.firingStart = 0
    /\ (p.list # null) =>
          /\ \A i \in 1..Len(p.list) : p.list[i] \in W
          /\ \A i, j \in 1..Len(p.list) : (p.list[i] = p.list[j]) => (i = j)
          /\ (p.memory = null) =>
                /\ n = 0 /\ p.stack = << >> /\ ~p.firing
                /\ \A i \in 1..Len(p.list) : H[p.list[i]] = << >>
          /\ (p.memory # null) =>
                /\ p.fired
                /\ (p.stack # null) => Queues(p, n)
                /\ ~p.firing => \A i \in 1..Len(p.list) : Told(p.list[i], p.memory, H)
                /\ p.firing => TellsAlong(p, H)

(* A loop f of the list p: whoever it is about to call was not told yet. *)
Telling(f, p, H) ==
    LET h == p.list[p.firingIndex + 1] IN
       /\ (f.running # null) =>
             /\ p.firingIndex < Len(p.list) /\ f.running = h
             /\ Told(h, p.memory, H)
       /\ (f.running = null) =>
             ((p.firingIndex < Len(p.list)) => Untold(h, p.memory, H))

(* The loops of the list that were under way go on with a. *)
TellOn(p, a, H, H2) ==
    \A f \in Frame : (p.firing /\ Telling(f, p, H)) => Telling(f, a, H2)

(* A loop that begins, or goes on after a handler, may go on with a. *)
MayTell(a, H) == \A f \in Frame : (f.running = null) => Telling(f, a, H)

(* Only what the watchers have heard matters. *)
LEMMA TellsSame ==
    ASSUME NEW p \in CallbackList, ListensOnly(p), NEW W \in SUBSET Handlers, NEW n,
           NEW H \in [Handlers -> Seq(Nat)], NEW H2 \in [Handlers -> Seq(Nat)],
           Tells(p, W, n, H), \A h \in W : H2[h] = H[h]
    PROVE  /\ Tells(p, W, n, H2)
           /\ TellOn(p, p, H, H2)
  <1>1. (p.list # null) => \A i \in 1..Len(p.list) : H2[p.list[i]] = H[p.list[i]]
    BY DEF Tells
  <1>2. Tells(p, W, n, H2)
    BY <1>1 DEF Tells, TellsAlong, Told, Untold
  <1>3. ASSUME NEW f \in Frame, p.firing, Telling(f, p, H)
        PROVE  Telling(f, p, H2)
    <2>1. p.list \in Seq(Handlers) /\ p.firingIndex \in Nat /\ p.list # null
      BY <1>3 DEF ListensOnly, CallbackList
    <2>2. (p.firingIndex < Len(p.list)) => p.firingIndex + 1 \in 1..Len(p.list)
      BY <2>1
    <2>3. (p.firingIndex < Len(p.list)) =>
              H2[p.list[p.firingIndex + 1]] = H[p.list[p.firingIndex + 1]]
      BY <1>1, <2>1, <2>2
    <2> QED
      BY <1>3, <2>3 DEF Telling, Told, Untold
  <1> QED
    BY <1>2, <1>3 DEF TellOn

(* What waits on the stack does not depend on the handlers. *)
LEMMA QueuesSame ==
    ASSUME NEW p, NEW a, NEW n, Queues(p, n),
           a.stack = p.stack, a.memory = p.memory, a.firing
    PROVE  Queues(a, n)
  BY DEF Queues

(* Nor does a loop depend on anything but the list, the index and the      *)
(* memory.                                                                 *)
LEMMA AlongSame ==
    ASSUME NEW p, NEW a, NEW H, TellsAlong(p, H),
           a.list = p.list, a.memory = p.memory, a.firingIndex = p.firingIndex
    PROVE  TellsAlong(a, H)
  BY DEF TellsAlong

(* A loop begins with a notification that nobody was told. *)
LEMMA NewRound ==
    ASSUME NEW a, NEW H, a.list \in Seq(Handlers), a.firingIndex = 0,
           \A i \in 1..Len(a.list) : Untold(a.list[i], a.memory, H)
    PROVE  TellsAlong(a, H) /\ MayTell(a, H)
  <1> DEFINE m == Len(a.list)
  <1>1. m \in Nat
    OBVIOUS
  <1>2. TellsAlong(a, H)
    BY <1>1 DEF TellsAlong
  <1>3. (0 < m) => Untold(a.list[0 + 1], a.memory, H)
    BY <1>1
  <1>4. MayTell(a, H)
    BY <1>3 DEF MayTell, Telling
  <1> QED
    BY <1>2, <1>4

(* What the list tells once a handler is added. *)
AddTold(p, a, W, n, H) ==
    /\ Tells(a, W, n, H)
    /\ TellOn(p, a, H, H)
    /\ (a.firing /\ ~p.firing) => MayTell(a, H)

(* One more handler, which has heard nothing. *)
LEMMA AddTells ==
    ASSUME NEW p \in CallbackList, ListensOnly(p), NEW W \in SUBSET Handlers, NEW n,
           NEW H \in [Handlers -> Seq(Nat)], Tells(p, W, n, H),
           NEW h \in Handlers, h \notin W, H[h] = << >>,
           NEW a, a = add(p, h)
    PROVE  AddTold(p, a, W \cup {h}, n, H)
  <1>1. CASE p.list = null
    <2>1. a = p
      BY <1>1, AddFields
    <2>2. ~p.firing
      BY <1>1 DEF ListensOnly
    <2> QED
      BY <1>1, <2>1, <2>2 DEF AddTold, Tells, TellOn
  <1>2. CASE p.list # null
    <2> DEFINE l == p.list
               m == Len(l)
               b == a.list
    <2>1. /\ a \in CallbackList /\ b = Append(l, h) /\ a.list # null
          /\ a.stack = p.stack /\ a.memory = p.memory
          /\ p.firing => /\ a.firing /\ a.fired = p.fired
                         /\ a.firingIndex = p.firingIndex /\ a.firingStart = p.firingStart
          /\ (~p.firing /\ p.memory # null) => /\ a.firing /\ a.fired
                                               /\ a.firingIndex = m /\ a.firingStart = 0
          /\ (~p.firing /\ p.memory = null) => /\ ~a.firing
                                               /\ a.firingStart = p.firingStart
      <3>1. l \in Seq(Handlers)
        BY <1>2 DEF ListensOnly
      <3>2. Append(l, h) \in Seq(Entry)
        BY <3>1 DEF Entry
      <3>3. Append(l, h) # null
        BY <3>2, NullApart
      <3> QED
        BY <1>2, <3>3, AddFields
    <2>2. /\ l \in Seq(Handlers) /\ m \in Nat /\ Len(b) = m + 1 /\ b[m + 1] = h
          /\ \A i \in 1..m : b[i] = l[i]
      BY <1>2, <2>1 DEF ListensOnly
    <2>3. p.firingIndex \in Nat /\ a.firingIndex \in Nat
      BY <2>1 DEF CallbackList
    <2>4. /\ \A i \in 1..m : l[i] \in W
          /\ \A i, j \in 1..m : (l[i] = l[j]) => (i = j)
      BY <1>2 DEF Tells
    <2> HIDE DEF b, m
    <2>5. \A i \in 1..(m + 1) : (i \in 1..m /\ b[i] = l[i]) \/ (i = m + 1 /\ b[i] = h)
      <3>1. \A i \in 1..(m + 1) : i \in 1..m \/ i = m + 1
        BY <2>2
      <3> QED
        BY <2>2, <3>1
    <2>6. \A i \in 1..Len(b) : b[i] \in W \cup {h}
      BY <2>2, <2>4, <2>5
    <2>7. \A i, j \in 1..Len(b) : (b[i] = b[j]) => (i = j)
      BY <2>2, <2>4, <2>5
    <2>8. a.firingStart = 0
      BY <2>1 DEF Tells
    <2>9. CASE p.memory = null
      <3>1. /\ n = 0 /\ p.stack = << >> /\ ~p.firing
            /\ \A i \in 1..m : H[l[i]] = << >>
        BY <1>2, <2>9 DEF Tells, m
      <3>2. \A i \in 1..Len(b) : H[b[i]] = << >>
        BY <2>2, <2>5, <3>1
      <3>3. ~a.firing /\ a.memory = null
        BY <2>1, <2>9, <3>1
      <3> QED
        BY <2>1, <2>6, <2>7, <2>8, <3>1, <3>2, <3>3 DEF AddTold, Tells, TellOn, b
    <2>10. CASE p.memory # null /\ ~p.firing
      <3>1. /\ p.fired
            /\ (p.stack # null) => Queues(p, n)
            /\ \A i \in 1..m : Told(l[i], p.memory, H)
        BY <1>2, <2>10 DEF Tells, m
      <3>2. a.firing /\ a.fired /\ a.firingIndex = m /\ a.memory = p.memory /\ a.stack = p.stack
        BY <2>1, <2>10
      <3>3. (a.stack # null) => Queues(a, n)
        BY <3>1, <3>2, QueuesSame
      <3>4. Untold(h, a.memory, H)
        BY DEF Untold
      <3>5. TellsAlong(a, H)
        <4> SUFFICES ASSUME NEW i \in 1..(m + 1)
                     PROVE  /\ (i <= m) => Told(b[i], a.memory, H)
                            /\ ~(i > m + 1)
                            /\ (i = m + 1) => Untold(b[i], a.memory, H)
          BY <2>2, <3>2 DEF TellsAlong, b
        <4>1. CASE i \in 1..m /\ b[i] = l[i]
          BY <2>2, <3>1, <3>2, <4>1
        <4>2. CASE i = m + 1 /\ b[i] = h
          BY <2>2, <3>4, <4>2
        <4> QED
          BY <2>5, <4>1, <4>2
      <3>6. MayTell(a, H)
        BY <2>2, <3>2, <3>4 DEF MayTell, Telling, b
      <3>7. TellOn(p, a, H, H)
        BY <2>10 DEF TellOn
      <3> QED
        BY <2>1, <2>6, <2>7, <2>8, <2>10, <3>2, <3>3, <3>5, <3>6, <3>7
           DEF AddTold, Tells, b
    <2>11. CASE p.memory # null /\ p.firing
      <3>1. /\ p.fired
            /\ (p.stack # null) => Queues(p, n)
            /\ TellsAlong(p, H)
        BY <1>2, <2>11 DEF Tells, m
      <3>2. /\ a.firing /\ a.fired /\ a.firingIndex = p.firingIndex
            /\ a.memory = p.memory /\ a.stack = p.stack
        BY <2>1, <2>11, <3>1
      <3>3. (a.stack # null) => Queues(a, n)
        BY <3>1, <3>2, QueuesSame
      <3>4. Untold(h, a.memory, H)
        BY DEF Untold
      <3>5. TellsAlong(a, H)
        <4> DEFINE x == p.firingIndex
        <4>0. /\ x <= m
              /\ \A i \in 1..m :
                    /\ (i <= x) => Told(l[i], a.memory, H)
                    /\ (i > x + 1) => Untold(l[i], a.memory, H)
                    /\ (i = x + 1) => Told(l[i], a.memory, H) \/ Untold(l[i], a.memory, H)
          BY <3>1, <3>2 DEF TellsAlong, m
        <4> SUFFICES ASSUME NEW i \in 1..(m + 1)
                     PROVE  /\ x <= m + 1
                            /\ (i <= x) => Told(b[i], a.memory, H)
                            /\ (i > x + 1) => Untold(b[i], a.memory, H)
                            /\ (i = x + 1) => Told(b[i], a.memory, H) \/ Untold(b[i], a.memory, H)
          BY <2>2, <2>3, <3>2, <4>0 DEF TellsAlong, b
        <4> HIDE DEF x
        <4>1. CASE i \in 1..m /\ b[i] = l[i]
          <5>1. x \in Nat /\ m \in Nat /\ i \in 1..m
            BY <2>2, <2>3, <4>1 DEF x
          <5>2. /\ (i <= x) => Told(l[i], a.memory, H)
                /\ (i > x + 1) => Untold(l[i], a.memory, H)
                /\ (i = x + 1) => Told(l[i], a.memory, H) \/ Untold(l[i], a.memory, H)
            BY <4>0, <4>1
          <5>3. x <= m + 1
            BY <4>0, <5>1
          <5> QED
            BY <4>1, <5>2, <5>3
        <4>2. CASE i = m + 1 /\ b[i] = h
          BY <2>2, <2>3, <3>4, <4>0, <4>2 DEF x
        <4> QED
          BY <2>5, <4>1, <4>2
      <3>6. TellOn(p, a, H, H)
        <4> SUFFICES ASSUME NEW f \in Frame, Telling(f, p, H) PROVE Telling(f, a, H)
          BY DEF TellOn
        <4> DEFINE x == p.firingIndex
        <4>1. x \in Nat /\ x <= m
          BY <2>3, <3>1 DEF TellsAlong, m
        <4>2. (x < m) => (x + 1 \in 1..m /\ b[x + 1] = l[x + 1] /\ x < m + 1)
          <5> HIDE DEF x, l
          <5>1. (x < m) => x + 1 \in 1..m
            BY <2>2, <4>1
          <5> QED
            BY <2>2, <4>1, <5>1
        <4>3. ~(x < m) => (b[x + 1] = h)
          <5> HIDE DEF x
          <5>1. ~(x < m) => (x = m)
            BY <2>2, <4>1
          <5> QED
            BY <2>2, <5>1
        <4> QED
          BY <2>2, <3>2, <3>4, <4>2, <4>3 DEF Telling, b, m
      <3> QED
        BY <2>1, <2>6, <2>7, <2>8, <2>11, <3>2, <3>3, <3>5, <3>6
           DEF AddTold, Tells, b
    <2> QED
      BY <2>9, <2>10, <2>11
  <1> QED
    BY <1>1, <1>2

(* What the list tells once it has taken the number n + 1, or none. *)
NotifyTold(p, a, W, n, H) ==
    /\ \E v \in Nat : /\ (a = p) => (v = n)
                      /\ (a # p) => (v = n + 1)
                      /\ Tells(a, W, v, H)
    /\ TellOn(p, a, H, H)
    /\ (a.firing /\ ~p.firing) => MayTell(a, H)

(* The next notification: it fires the list, or waits on the stack. *)
LEMMA NotifyTells ==
    ASSUME NEW p \in CallbackList, ListensOnly(p), NEW W \in SUBSET Handlers, NEW n \in Nat,
           NEW H \in [Handlers -> Seq(Nat)], Tells(p, W, n, H),
           NEW a, a = fireWith(p, n + 1)
    PROVE  NotifyTold(p, a, W, n, H)
  <1> DEFINE v == n + 1
             m == Len(p.list)
  <1>0. v \in Nat /\ v # null /\ v # n
    BY NullApart
  <1>1. CASE p.list = null \/ (p.fired /\ p.stack = null)
    <2>1. a = p
      BY <1>1, FireWithFields
    <2> QED
      BY <2>1 DEF NotifyTold, TellOn
  <1>2. CASE p.list # null /\ p.stack # null /\ p.firing
    <2>1. /\ p.memory # null /\ p.memory \in Nat /\ p.stack \in Seq(Nat)
          /\ p.firingIndex \in Nat
      BY <1>2 DEF ListensOnly, CallbackList
    <2>2. /\ a \in CallbackList /\ a.list = p.list /\ a.memory = p.memory /\ a.firing
          /\ a.stack = Append(p.stack, v) /\ a.fired = p.fired
          /\ a.firingIndex = p.firingIndex /\ a.firingStart = p.firingStart
      BY <1>0, <1>2, FireWithFields
    <2> DEFINE s == p.stack
               k == Len(s)
    <2>3. k \in Nat /\ Len(a.stack) = k + 1 /\ a.stack[k + 1] = v
          /\ \A i \in 1..k : a.stack[i] = s[i]
      BY <2>1, <2>2
    <2>4. (\A i \in 1..k : s[i] = p.memory + i) /\ n = p.memory + k
      BY <1>2, <2>1 DEF Tells, Queues
    <2>5. a # p
      <3>1. a.stack # p.stack
        BY <2>3
      <3> QED
        BY <3>1
    <2> HIDE DEF s, k
    <2>6. Queues(a, v)
      <3> DEFINE q == p.memory
                 z == a.stack
      <3>0. q \in Nat /\ a.memory = q /\ n = q + k
        BY <2>1, <2>2, <2>4
      <3> HIDE DEF q, z
      <3>1. \A i \in 1..(k + 1) : z[i] = q + i
        <4> SUFFICES ASSUME NEW i \in 1..(k + 1) PROVE z[i] = q + i
          OBVIOUS
        <4>1. CASE i \in 1..k
          BY <2>3, <2>4, <4>1 DEF q, z
        <4>2. CASE i = k + 1
          <5>1. z[i] = n + 1
            BY <2>3, <4>2 DEF z
          <5>2. n + 1 = q + (k + 1)
            BY <2>3, <3>0
          <5> QED
            BY <4>2, <5>1, <5>2
        <4> QED
          BY <2>3, <4>1, <4>2
      <3>2. v = q + (k + 1)
        BY <2>3, <3>0
      <3> QED
        BY <2>2, <2>3, <3>0, <3>1, <3>2 DEF Queues, z
    <2>7. Tells(a, W, v, H)
      <3>1. TellsAlong(p, H)
        BY <1>2, <2>1 DEF Tells
      <3>2. TellsAlong(a, H)
        BY <2>2, <3>1, AlongSame
      <3>3. /\ a.list = p.list /\ a.memory # null /\ a.firing
            /\ a.fired = p.fired /\ a.firingStart = p.firingStart
        BY <2>1, <2>2
      <3>4. /\ p.firingStart = 0 /\ p.fired
            /\ \A i \in 1..Len(p.list) : p.list[i] \in W
            /\ \A i, j \in 1..Len(p.list) : (p.list[i] = p.list[j]) => (i = j)
        BY <1>2, <2>1 DEF Tells
      <3>5. a.firingStart = 0 /\ a.fired
        BY <3>3, <3>4
      <3>6. /\ \A i \in 1..Len(a.list) : a.list[i] \in W
            /\ \A i, j \in 1..Len(a.list) : (a.list[i] = a.list[j]) => (i = j)
        BY <3>3, <3>4
      <3>7. a.memory # null /\ a.firing
        BY <3>3
      <3> HIDE DEF v
      <3> QED
        BY <2>6, <3>2, <3>5, <3>6, <3>7 DEF Tells
    <2>8. TellOn(p, a, H, H)
      BY <2>2 DEF TellOn, Telling
    <2> QED
      BY <1>0, <1>2, <2>5, <2>7, <2>8 DEF NotifyTold
  <1>3. CASE p.list # null /\ ~(p.fired /\ p.stack = null) /\ ~(p.stack # null /\ p.firing)
    <2>1. ~p.firing /\ p.list \in Seq(Handlers) /\ m \in Nat
      BY <1>3 DEF ListensOnly, Tells
    <2>2. a = fire(p, v)
      BY <1>0, <1>3, FireWithFields
    <2>3. /\ a \in CallbackList /\ a.list = p.list /\ a.stack = p.stack
          /\ a.firing /\ a.fired /\ a.memory = v
          /\ a.firingIndex = p.firingStart /\ a.firingStart = 0
      BY <1>0, <1>3, <2>2, FireFields
    <2>4. a.firingIndex = 0
      BY <2>3 DEF Tells
    <2>5. CASE p.memory = null
      <3>1. /\ n = 0 /\ p.stack = << >>
            /\ \A i \in 1..m : H[p.list[i]] = << >>
        BY <1>3, <2>5 DEF Tells
      <3>2. \A i \in 1..m : Untold(p.list[i], v, H)
        BY <3>1 DEF Untold
      <3>3. Queues(a, v)
        BY <1>0, <2>3, <3>1 DEF Queues
      <3>4. a # p
        BY <1>0, <2>3, <2>5
      <3> QED
        <4>1. a.list \in Seq(Handlers) /\ \A i \in 1..Len(a.list) : Untold(a.list[i], a.memory, H)
          BY <2>1, <2>3, <3>2
        <4>2. TellsAlong(a, H) /\ MayTell(a, H)
          BY <2>4, <4>1, NewRound
        <4>3. Tells(a, W, v, H)
          BY <1>0, <1>3, <2>3, <3>3, <4>2 DEF Tells
        <4> QED
          BY <1>0, <2>1, <3>4, <4>2, <4>3 DEF NotifyTold, TellOn
    <2>6. CASE p.memory # null
      <3>1. /\ p.stack # null /\ Queues(p, n)
            /\ \A i \in 1..m : Told(p.list[i], p.memory, H)
        BY <1>3, <2>1, <2>6 DEF Tells
      <3>2. p.stack = << >> /\ p.memory = n
        <4>1. p.stack = << >> /\ n = p.memory + Len(p.stack)
          BY <2>1, <3>1 DEF Queues
        <4>2. p.memory \in Nat
          BY <2>6 DEF CallbackList
        <4> QED
          BY <4>1, <4>2
      <3>3. \A i \in 1..m : Untold(p.list[i], v, H)
        BY <3>1, <3>2 DEF Told, Untold
      <3>4. Queues(a, v)
        BY <1>0, <2>3, <3>2 DEF Queues
      <3>5. a # p
        BY <1>0, <2>3, <3>2
      <3> QED
        <4>1. a.list \in Seq(Handlers) /\ \A i \in 1..Len(a.list) : Untold(a.list[i], a.memory, H)
          BY <2>1, <2>3, <3>3
        <4>2. TellsAlong(a, H) /\ MayTell(a, H)
          BY <2>4, <4>1, NewRound
        <4>3. Tells(a, W, v, H)
          BY <1>0, <1>3, <2>3, <3>4, <4>2 DEF Tells
        <4> QED
          BY <1>0, <2>1, <3>5, <4>2, <4>3 DEF NotifyTold, TellOn
    <2> QED
      BY <2>5, <2>6
  <1> QED
    BY <1>1, <1>2, <1>3

(* The settled promise locks the list: what waits on the stack is dropped. *)
LEMMA LockTells ==
    ASSUME NEW p \in CallbackList, ListensOnly(p), NEW W \in SUBSET Handlers, NEW n,
           NEW H \in [Handlers -> Seq(Nat)], Tells(p, W, n, H)
    PROVE  Tells(lock(p), W, n, H) /\ TellOn(p, lock(p), H, H)
  <1> DEFINE a == lock(p)
  <1>1. CASE p.memory = null
    <2>1. a.list = null /\ a.firingStart = 0
      BY <1>1 DEF lock, disable, CallbackList, Tells
    <2>2. ~p.firing
      BY <1>1 DEF ListensOnly
    <2> QED
      BY <2>1, <2>2 DEF Tells, TellOn
  <1>2. CASE p.memory # null
    <2>1. /\ a.list = p.list /\ a.memory = p.memory /\ a.firing = p.firing
          /\ a.stack = null /\ a.fired = p.fired
          /\ a.firingIndex = p.firingIndex /\ a.firingStart = p.firingStart
      BY <1>2 DEF lock, CallbackList
    <2> HIDE DEF a
    <2>2. Tells(a, W, n, H)
      BY <1>2, <2>1 DEF Tells, TellsAlong
    <2>3. TellOn(p, a, H, H)
      BY <2>1 DEF TellOn, Telling
    <2> QED
      BY <2>2, <2>3 DEF a
  <1> QED
    BY <1>1, <1>2

(* Each number follows the one before it. *)
Consecutive(s) == \A i \in 1..(Len(s) - 1) : s[i + 1] = s[i] + 1

(* One more number, right behind the last. *)
LEMMA ConsecutiveGrown ==
    ASSUME NEW s \in Seq(Nat), NEW m \in Nat, Consecutive(s),
           (s # << >>) => (s[Len(s)] + 1 = m)
    PROVE  Consecutive(Append(s, m))
  <1> DEFINE k == Len(s)
             z == Append(s, m)
  <1>1. k \in Nat /\ Len(z) = k + 1 /\ z[k + 1] = m /\ \A i \in 1..k : z[i] = s[i]
    OBVIOUS
  <1>2. (k > 0) => (s # << >>)
    OBVIOUS
  <1> HIDE DEF z
  <1>3. ASSUME NEW i \in 1..((k + 1) - 1)
        PROVE  z[i + 1] = z[i] + 1
    <2>1. CASE i = k
      <3>1. s[k] + 1 = m /\ k \in 1..k
        BY <1>1, <1>2, <2>1
      <3> QED
        BY <1>1, <2>1, <3>1
    <2>2. CASE i # k
      <3>1. i \in 1..(k - 1) /\ i \in 1..k /\ i + 1 \in 1..k
        BY <1>1, <2>2
      <3>2. s[i + 1] = s[i] + 1
        BY <3>1 DEF Consecutive
      <3> QED
        BY <1>1, <3>1, <3>2
    <2> QED
      BY <2>1, <2>2
  <1> QED
    BY <1>1, <1>3 DEF Consecutive, z

(* Whoever is told something has heard something. *)
LEMMA Grows ==
    ASSUME NEW s \in Seq(Nat), NEW m \in Nat
    PROVE  Append(s, m) # << >>
  <1>1. Len(Append(s, m)) = Len(s) + 1 /\ Len(s) \in Nat
    OBVIOUS
  <1>2. Len(Append(s, m)) # 0
    BY <1>1
  <1> QED
    BY <1>2

(* The next handler of the list hears what the list remembers. *)
CallTold(p, W, n, H, H2, h) ==
    /\ Tells(p, W, n, H2)
    /\ \A f \in Frame : (f.running = h) => Telling(f, p, H2)
    /\ h \in W
    /\ Consecutive(H[h]) => Consecutive(H2[h])
    /\ H2 \in [Handlers -> Seq(Nat)]
    /\ \A g \in Handlers : (g # h) => (H2[g] = H[g])

(* That handler was not told yet, so it hears the number after its last. *)
LEMMA CallTells ==
    ASSUME NEW p \in CallbackList, ListensOnly(p), NEW W \in SUBSET Handlers, NEW n,
           NEW H \in [Handlers -> Seq(Nat)], Tells(p, W, n, H),
           p.firing, HasNext(p), NEW f \in Frame, f.running = null, Telling(f, p, H),
           NEW h, h = Callback(p),
           NEW H2, H2 = [H EXCEPT ![h] = Append(@, p.memory)]
    PROVE  CallTold(p, W, n, H, H2, h)
  <1> DEFINE l == p.list
             m == Len(l)
             x == p.firingIndex
             y == p.memory
  <1>1. l # null /\ l \in Seq(Handlers) /\ m \in Nat /\ x \in Nat /\ y \in Nat /\ y # null
    BY DEF ListensOnly, CallbackList
  <1>2. x < m /\ h = l[x + 1]
    BY DEF HasNext, Callback, ListensOnly
  <1>3. /\ \A i \in 1..m : l[i] \in W
        /\ \A i, j \in 1..m : (l[i] = l[j]) => (i = j)
        /\ TellsAlong(p, H) /\ p.fired /\ p.firingStart = 0
        /\ (p.stack # null) => Queues(p, n)
    BY <1>1 DEF Tells
  <1>4. Untold(h, y, H)
    BY <1>2 DEF Telling
  <1>5. \A i \in 1..m : /\ (i <= x) => Told(l[i], y, H)
                        /\ (i > x + 1) => Untold(l[i], y, H)
    BY <1>3 DEF TellsAlong
  <1> HIDE DEF l, m, x, y
  <1>6. x + 1 \in 1..m
    BY <1>1, <1>2
  <1>7. h \in W /\ h \in Handlers
    BY <1>2, <1>3, <1>6
  <1>8. H2 = [H EXCEPT ![h] = Append(@, y)]
    BY DEF y
  <1>9. /\ H2 \in [Handlers -> Seq(Nat)]
        /\ H2[h] = Append(H[h], y)
        /\ \A g \in Handlers : (g # h) => (H2[g] = H[g])
    <2>1. Append(H[h], y) \in Seq(Nat)
      BY <1>1, <1>7
    <2> QED
      BY <1>7, <1>8, <2>1
  <1>10. Told(h, y, H2)
    <2>1. H[h] \in Seq(Nat)
      BY <1>7
    <2> DEFINE z == Append(H[h], y)
    <2>2. Len(z) = Len(H[h]) + 1 /\ Len(H[h]) \in Nat /\ z[Len(H[h]) + 1] = y /\ z # << >>
      <3>1. z # << >>
        BY <1>1, <2>1, Grows
      <3> QED
        BY <1>1, <2>1, <3>1
    <2> HIDE DEF z
    <2> QED
      BY <1>9, <2>2 DEF Told, z
  <1>11. \A i \in 1..m : (i # x + 1) => (l[i] # h /\ H2[l[i]] = H[l[i]])
    <2> SUFFICES ASSUME NEW i \in 1..m, i # x + 1
                 PROVE  l[i] # h /\ H2[l[i]] = H[l[i]]
      OBVIOUS
    <2>1. l[i] # h
      BY <1>2, <1>3, <1>6
    <2>2. l[i] \in Handlers
      BY <1>3
    <2> QED
      BY <1>9, <2>1, <2>2
  <1>12. TellsAlong(p, H2)
    <2>1. x <= m
      BY <1>1, <1>2
    <2>2. ASSUME NEW i \in 1..m
          PROVE  /\ (i <= x) => Told(l[i], y, H2)
                 /\ (i > x + 1) => Untold(l[i], y, H2)
                 /\ (i = x + 1) => Told(l[i], y, H2)
      <3>1. CASE i = x + 1
        BY <1>1, <1>2, <1>10, <3>1
      <3>2. CASE i # x + 1
        BY <1>1, <1>2, <1>5, <1>11, <3>2 DEF Told, Untold
      <3> QED
        BY <3>1, <3>2
    <2> QED
      BY <2>1, <2>2 DEF TellsAlong, l, m, x, y
  <1>13. Tells(p, W, n, H2)
    BY <1>1, <1>3, <1>12 DEF Tells, l, m, y
  <1>14. \A g \in Frame : (g.running = h) => Telling(g, p, H2)
    <2>1. h # null
      BY <1>7, NullApart
    <2> QED
      BY <1>2, <1>10, <2>1 DEF Telling, l, m, x, y
  <1>15. Consecutive(H[h]) => Consecutive(H2[h])
    <2>1. H[h] \in Seq(Nat)
      BY <1>7
    <2>2. (H[h] # << >>) => (H[h][Len(H[h])] + 1 = y)
      BY <1>4 DEF Untold
    <2> HIDE <1>8
    <2> QED
      BY <1>1, <1>9, <2>1, <2>2, ConsecutiveGrown
  <1> QED
    BY <1>7, <1>9, <1>13, <1>14, <1>15 DEF CallTold

(* It returns, and the next one was not told yet. *)
LEMMA ReturnTells ==
    ASSUME NEW p \in CallbackList, ListensOnly(p), NEW W \in SUBSET Handlers, NEW n,
           NEW H \in [Handlers -> Seq(Nat)], Tells(p, W, n, H),
           p.firing, NEW f \in Frame, f.running # null, Telling(f, p, H),
           NEW a, a = [p EXCEPT !.firingIndex = @ + 1]
    PROVE  Tells(a, W, n, H) /\ MayTell(a, H)
  <1> DEFINE l == p.list
             m == Len(l)
             x == p.firingIndex
             y == p.memory
  <1>1. l # null /\ l \in Seq(Handlers) /\ m \in Nat /\ x \in Nat /\ y # null
    BY DEF ListensOnly, CallbackList
  <1>2. x < m /\ Told(l[x + 1], y, H)
    BY DEF Telling
  <1>3. /\ \A i \in 1..m : l[i] \in W
        /\ \A i, j \in 1..m : (l[i] = l[j]) => (i = j)
        /\ TellsAlong(p, H) /\ p.fired /\ p.firingStart = 0
        /\ (p.stack # null) => Queues(p, n)
    BY <1>1 DEF Tells
  <1>4. \A i \in 1..m : /\ (i <= x) => Told(l[i], y, H)
                        /\ (i > x + 1) => Untold(l[i], y, H)
    BY <1>3 DEF TellsAlong
  <1>5. /\ a.list = l /\ a.memory = y /\ a.firing /\ a.fired /\ a.stack = p.stack
        /\ a.firingStart = 0 /\ a.firingIndex = x + 1
    BY <1>3 DEF CallbackList
  <1>6. (a.stack # null) => Queues(a, n)
    BY <1>3, <1>5 DEF Queues, y
  <1>7. TellsAlong(a, H) /\ MayTell(a, H)
    <2> HIDE DEF l, m, x, y
    <2>1. \A i \in 1..m : /\ (i <= x + 1) => Told(l[i], y, H)
                          /\ (i > x + 1) => Untold(l[i], y, H)
      <3> SUFFICES ASSUME NEW i \in 1..m
                   PROVE  /\ (i <= x + 1) => Told(l[i], y, H)
                          /\ (i > x + 1) => Untold(l[i], y, H)
        OBVIOUS
      <3>1. i <= x \/ i = x + 1 \/ i > x + 1
        BY <1>1
      <3> QED
        BY <1>1, <1>2, <1>4, <3>1
    <2>2. x + 1 <= m /\ ((x + 1 < m) => (x + 2 \in 1..m /\ x + 2 > x + 1 /\ (x + 1) + 1 = x + 2))
      BY <1>1, <1>2
    <2>3. \A i \in 1..m : (i > (x + 1) + 1) => (i > x + 1)
      BY <1>1
    <2>4. \A i \in 1..m : (i = (x + 1) + 1) => (i > x + 1)
      BY <1>1
    <2>5. TellsAlong(a, H)
      BY <1>5, <2>1, <2>2, <2>3, <2>4 DEF TellsAlong, m
    <2>6. (x + 1 < m) => Untold(l[(x + 1) + 1], y, H)
      BY <2>1, <2>2
    <2>7. MayTell(a, H)
      BY <1>5, <2>6 DEF MayTell, Telling, m
    <2> QED
      BY <2>5, <2>7
  <1> QED
    BY <1>3, <1>5, <1>6, <1>7 DEF Tells

(* The list has told everybody, and fires what waits on the stack. *)
LEMMA EndTells ==
    ASSUME NEW p \in CallbackList, ListensOnly(p), NEW W \in SUBSET Handlers, NEW n \in Nat,
           NEW H \in [Handlers -> Seq(Nat)], Tells(p, W, n, H),
           p.firing, ~HasNext(p), NEW a, a = endFire(p)
    PROVE  /\ Tells(a, W, n, H)
           /\ a.firing => MayTell(a, H)
  <1> DEFINE l == p.list
             m == Len(l)
             x == p.firingIndex
             y == p.memory
  <1>1. l # null /\ l \in Seq(Handlers) /\ m \in Nat /\ x \in Nat /\ y # null /\ y \in Nat
    BY DEF ListensOnly, CallbackList
  <1>2. ~(x < m)
    BY <1>1 DEF HasNext, ListensOnly
  <1>3. /\ \A i \in 1..m : l[i] \in W
        /\ \A i, j \in 1..m : (l[i] = l[j]) => (i = j)
        /\ TellsAlong(p, H) /\ p.fired /\ p.firingStart = 0
        /\ (p.stack # null) => Queues(p, n)
    BY <1>1 DEF Tells
  <1>4. \A i \in 1..m : Told(l[i], y, H)
    <2>1. \A i \in 1..m : i <= x
      BY <1>1, <1>2
    <2> QED
      BY <1>3, <2>1 DEF TellsAlong
  <1> HIDE DEF x
  <1>5. CASE p.stack = << >>
    <2>1. /\ ~a.firing /\ a.fired /\ a.list = l /\ a.stack = << >> /\ a.memory = y
          /\ a.firingStart = 0
      BY <1>1, <1>3, <1>5, EndFireFields
    <2>2. n = y + Len(p.stack)
      BY <1>3, <1>5, NullApart, EmptySeq DEF Queues
    <2>3. Queues(a, n)
      BY <1>5, <2>1, <2>2 DEF Queues
    <2> QED
      BY <1>1, <1>3, <1>4, <2>1, <2>3 DEF Tells
  <1>6. CASE p.stack \notin {null, << >>}
    <2> DEFINE s == p.stack
               k == Len(s)
               z == Tail(s)
    <2>1. s \in Seq(Nat) /\ s # << >>
      BY <1>6 DEF CallbackList
    <2>2. /\ a.firing /\ a.fired /\ a.list = l /\ a.stack = z /\ a.memory = Head(s)
          /\ a.firingIndex = 0 /\ a.firingStart = 0
      BY <1>1, <1>3, <1>6, EndFireFields
    <2>3. (\A i \in 1..k : s[i] = y + i) /\ n = y + k
      BY <1>3, <1>6 DEF Queues
    <2>4. k \in Nat /\ k >= 1 /\ Len(z) = k - 1 /\ \A i \in 1..(k - 1) : z[i] = s[i + 1]
      BY <2>1
    <2>5. Head(s) = s[1] /\ 1 \in 1..k
      BY <2>1, <2>4
    <2> HIDE DEF s, k, z
    <2>6. a.memory = y + 1
      BY <2>2, <2>3, <2>5
    <2>7. Queues(a, n)
      <3>1. \A i \in 1..(k - 1) : z[i] = (y + 1) + i
        <4> SUFFICES ASSUME NEW i \in 1..(k - 1) PROVE z[i] = (y + 1) + i
          OBVIOUS
        <4> HIDE DEF y
        <4>1. i + 1 \in 1..k
          BY <2>4
        <4>2. z[i] = y + (i + 1)
          BY <2>3, <2>4, <4>1
        <4>3. y + (i + 1) = (y + 1) + i
          BY <1>1
        <4> QED
          BY <4>2, <4>3
      <3>2. n = (y + 1) + (k - 1)
        BY <1>1, <2>3, <2>4
      <3> QED
        BY <2>2, <2>4, <2>6, <3>1, <3>2 DEF Queues
    <2>8. \A i \in 1..m : Untold(l[i], a.memory, H)
      BY <1>4, <2>6 DEF Told, Untold
    <2>9. a.list \in Seq(Handlers) /\ \A i \in 1..Len(a.list) : Untold(a.list[i], a.memory, H)
      BY <1>1, <2>2, <2>8
    <2>10. TellsAlong(a, H) /\ MayTell(a, H)
      BY <2>2, <2>9, NewRound
    <2>11. a.memory # null
      BY <1>1, <2>6, NullApart
    <2> QED
      BY <1>1, <1>3, <2>2, <2>7, <2>9, <2>10, <2>11 DEF Tells
  <1>7. CASE p.stack = null
    <2>1. /\ ~a.firing /\ a.fired /\ a.stack = null /\ a.memory = y
          /\ a.firingStart = 0 /\ a.list = << >>
      BY <1>1, <1>3, <1>7, EndFireFields
    <2> QED
      BY <1>1, <2>1 DEF Tells
  <1> QED
    BY <1>5, <1>6, <1>7


(* Every progress list, whoever watches it. *)
ListsTell(L, W, N, H) == \A d \in Deferreds : Tells(L[d]["progress"], W[d], N[d], H)

(* The loops of these lists on the stack F. *)
FramesTell(F, L, H) ==
    \A i \in DOMAIN F : (F[i].kind = "progress") => Telling(F[i], L[F[i].of]["progress"], H)

(* Nobody watches two promises, nobody hears a notification who watches    *)
(* none, and everybody hears them in order.                                *)
Hearing(W, H) ==
    /\ \A h \in Handlers : (H[h] = << >>) \/ \E d \in Deferreds : h \in W[d]
    /\ \A d, e \in Deferreds : \A h \in Handlers : (h \in W[d] /\ h \in W[e]) => (d = e)
    /\ \A h \in Handlers : Consecutive(H[h])

(* The inductive invariant of the notifications, beside DeferredInv. *)
NewsInv ==
    /\ ListsTell(lists, watchers, news, heard)
    /\ FramesTell(frames, lists, heard)
    /\ Hearing(watchers, heard)

(* A step that touches no progress list, no watcher and no loop of them. *)
NewsStay ==
    /\ \A d \in Deferreds : lists'[d]["progress"] = lists[d]["progress"]
    /\ watchers' = watchers /\ news' = news /\ heard' = heard
    /\ \A i \in DOMAIN frames' : \/ frames'[i].kind # "progress"
                                 \/ \E j \in DOMAIN frames : frames'[i] = frames[j]

(* The loops on the stack are of the promises, and their lists fire. *)
LEMMA FrameFires ==
    ASSUME DeferredInv, NEW i \in DOMAIN frames
    PROVE  /\ frames[i] \in Frame /\ frames[i].of \in Deferreds
           /\ lists[frames[i].of][frames[i].kind].firing
  <1>1. frames \in Seq(Frame) /\ FramesInv
    BY DEF DeferredInv, TypeOK
  <1>2. frames[i] \in Frame
    BY <1>1
  <1> QED
    BY <1>1, <1>2 DEF FramesInv, Stepping, InStep, Frame

(* Such a step keeps the invariant. *)
LEMMA NewsStays ==
    ASSUME DeferredInv, NewsInv, NewsStay
    PROVE  NewsInv'
  <1>1. ListsTell(lists', watchers', news', heard') /\ Hearing(watchers', heard')
    BY DEF NewsInv, NewsStay, ListsTell
  <1>2. FramesTell(frames', lists', heard')
    <2> SUFFICES ASSUME NEW i \in DOMAIN frames', frames'[i].kind = "progress"
                 PROVE  Telling(frames'[i], lists'[frames'[i].of]["progress"], heard')
      BY DEF FramesTell
    <2>1. PICK j \in DOMAIN frames : frames'[i] = frames[j]
      BY DEF NewsStay
    <2>2. frames[j].of \in Deferreds
      BY FrameFires
    <2>3. Telling(frames[j], lists[frames[j].of]["progress"], heard)
      BY <2>1 DEF NewsInv, FramesTell
    <2> QED
      BY <2>1, <2>2, <2>3 DEF NewsStay
  <1> QED
    BY <1>1, <1>2 DEF NewsInv

(* What is known of one promise. *)
LEMMA NewsOfOne ==
    ASSUME DeferredInv, NewsInv, NEW d \in Deferreds
    PROVE  /\ lists[d]["progress"] \in CallbackList /\ ListensOnly(lists[d]["progress"])
           /\ watchers[d] \in SUBSET Handlers /\ news[d] \in Nat
           /\ heard \in [Handlers -> Seq(Nat)]
           /\ Tells(lists[d]["progress"], watchers[d], news[d], heard)
  <1>1. TypeOK /\ ProgressInv
    BY DEF DeferredInv
  <1>2. news[d] \in 0..MaxNews /\ MaxNews \in Nat
    BY <1>1, DeferredAssumption DEF TypeOK
  <1>3. lists[d]["progress"] \in CallbackList /\ watchers[d] \in SUBSET Handlers
    BY <1>1, KindFacts DEF TypeOK
  <1> QED
    BY <1>1, <1>2, <1>3 DEF ProgressInv, NewsInv, ListsTell, TypeOK

(* The progress list of one promise changes to c, and perhaps a loop of it *)
(* starts.                                                                 *)
NewsTurn(d, c) ==
    /\ \A e \in Deferreds : (e # d) => /\ lists'[e]["progress"] = lists[e]["progress"]
                                       /\ watchers'[e] = watchers[e] /\ news'[e] = news[e]
    /\ lists'[d]["progress"] = c
    /\ heard' = heard
    /\ frames' = Started(d, "progress", c) \o frames
    /\ Tells(c, watchers'[d], news'[d], heard)
    /\ TellOn(lists[d]["progress"], c, heard, heard)
    /\ (c.firing /\ ~lists[d]["progress"].firing) => MayTell(c, heard)

(* Such a step keeps the invariant, if the watchers stay apart. *)
LEMMA NewsTurns ==
    ASSUME DeferredInv, NewsInv, NEW d \in Deferreds, NEW c, NewsTurn(d, c),
           Hearing(watchers', heard')
    PROVE  NewsInv'
  <1> DEFINE p == lists[d]["progress"]
             e == [of |-> d, kind |-> "progress", running |-> null]
  <1>0. frames \in Seq(Frame) /\ e \in Frame
    BY KindFacts DEF DeferredInv, TypeOK, Frame
  <1>1. ListsTell(lists', watchers', news', heard')
    BY DEF NewsTurn, NewsInv, ListsTell
  <1>2. ASSUME NEW j \in DOMAIN frames, frames[j].kind = "progress"
        PROVE  Telling(frames[j], lists'[frames[j].of]["progress"], heard)
    <2>1. /\ frames[j] \in Frame /\ frames[j].of \in Deferreds
          /\ lists[frames[j].of]["progress"].firing
      BY <1>2, FrameFires
    <2>2. Telling(frames[j], lists[frames[j].of]["progress"], heard)
      BY <1>2 DEF NewsInv, FramesTell
    <2>3. CASE frames[j].of = d
      BY <2>1, <2>2, <2>3 DEF NewsTurn, TellOn
    <2>4. CASE frames[j].of # d
      BY <2>1, <2>2, <2>4 DEF NewsTurn
    <2> QED
      BY <2>3, <2>4
  <1>3. FramesTell(frames', lists', heard')
    <2>1. CASE c.firing /\ ~p.firing
      <3>1. frames' = <<e>> \o frames
        BY <2>1 DEF NewsTurn, Started
      <3>2. \A i \in DOMAIN frames' : frames'[i] = e \/ \E j \in DOMAIN frames : frames'[i] = frames[j]
        BY <1>0, <3>1, Pushed
      <3>3. Telling(e, c, heard)
        BY <1>0, <2>1 DEF NewsTurn, MayTell
      <3>4. e.of = d /\ lists'[d]["progress"] = c /\ heard' = heard
        BY DEF NewsTurn
      <3> HIDE DEF e
      <3> QED
        BY <1>2, <3>2, <3>3, <3>4 DEF FramesTell
    <2>2. CASE ~(c.firing /\ ~p.firing)
      <3>1. frames' = << >> \o frames /\ heard' = heard
        BY <2>2 DEF NewsTurn, Started
      <3>2. frames' = frames
        BY <1>0, <3>1
      <3> QED
        BY <1>2, <3>1, <3>2 DEF FramesTell
    <2> QED
      BY <2>1, <2>2
  <1> QED
    BY <1>1, <1>3 DEF NewsInv

(* New promises have told nothing. *)
LEMMA NewsInitially == DeferredInit => NewsInv
  <1> SUFFICES ASSUME DeferredInit PROVE NewsInv
    OBVIOUS
  <1> DEFINE none == << >>
  <1>1. Len(none) = 0 /\ DOMAIN none = {}
    OBVIOUS
  <1>2. \A d \in Deferreds : /\ lists[d]["progress"] = NewList("progress")
                             /\ watchers[d] = {} /\ news[d] = 0
    BY KindFacts DEF DeferredInit
  <1>3. /\ NewList("progress").list = none /\ NewList("progress").stack = none
        /\ NewList("progress").memory = null /\ ~NewList("progress").firing
        /\ NewList("progress").firingStart = 0
    BY DEF NewList, none
  <1>4. ListsTell(lists, watchers, news, heard)
    BY <1>1, <1>2, <1>3 DEF ListsTell, Tells
  <1>5. FramesTell(frames, lists, heard)
    BY DEF DeferredInit, FramesTell
  <1>6. Hearing(watchers, heard)
    <2>1. \A h \in Handlers : heard[h] = none
      BY DEF DeferredInit, none
    <2>2. Consecutive(none)
      BY <1>1 DEF Consecutive
    <2> QED
      BY <1>2, <2>1, <2>2 DEF Hearing, none
  <1> QED
    BY <1>4, <1>5, <1>6 DEF NewsInv

(* progress: the new watcher has heard nothing yet. *)
LEMMA WatchNews ==
    ASSUME DeferredInv, NewsInv, NEW d \in Deferreds, NEW h \in Handlers, progress(d, h)
    PROVE  NewsInv'
  <1> DEFINE p == lists[d]["progress"]
             c == add(p, h)
  <1>1. /\ \A e \in Deferreds : h \notin watchers[e]
        /\ watchers' = [watchers EXCEPT ![d] = @ \cup {h}]
        /\ heard' = heard /\ news' = news
        /\ frames' = Started(d, "progress", c) \o frames
    BY DEF progress, Fresh
  <1>2. watchers \in [Deferreds -> SUBSET Handlers]
    BY DEF DeferredInv, TypeOK
  <1>3. /\ watchers'[d] = watchers[d] \cup {h}
        /\ \A e \in Deferreds : (e # d) => (watchers'[e] = watchers[e])
    BY <1>1, <1>2
  <1>4. heard[h] = << >>
    BY <1>1 DEF NewsInv, Hearing
  <1>5. \A e \in Deferreds : lists'[e]["progress"] = IF e = d THEN c ELSE lists[e]["progress"]
    <2>1. c \in CallbackList /\ ProgressTurn(d, c)
      BY ProgressAdds
    <2> HIDE DEF c
    <2> QED
      BY <2>1, ProgressStep
  <1>6. AddTold(p, c, watchers[d] \cup {h}, news[d], heard)
    <2>1. /\ p \in CallbackList /\ ListensOnly(p) /\ watchers[d] \in SUBSET Handlers
          /\ heard \in [Handlers -> Seq(Nat)]
          /\ Tells(p, watchers[d], news[d], heard)
      BY NewsOfOne
    <2> HIDE DEF p
    <2> QED
      BY <1>1, <1>4, <2>1, AddTells
  <1> HIDE DEF c
  <1>7. NewsTurn(d, c)
    BY <1>1, <1>3, <1>5, <1>6 DEF NewsTurn, AddTold
  <1>8. Hearing(watchers', heard')
    BY <1>1, <1>3 DEF NewsInv, Hearing
  <1> QED
    BY <1>7, <1>8, NewsTurns

(* notify: the list takes the next number, or is locked and takes none. *)
LEMMA NotifyNews ==
    ASSUME DeferredInv, NewsInv, NEW d \in Deferreds, notifyWith(d)
    PROVE  NewsInv'
  <1> DEFINE p == lists[d]["progress"]
             c == fireWith(p, news[d] + 1)
  <1>1. /\ watchers' = watchers /\ heard' = heard
        /\ news' = IF c = p THEN news ELSE [news EXCEPT ![d] = @ + 1]
        /\ frames' = Started(d, "progress", c) \o frames
    BY DEF notifyWith
  <1>2. news \in [Deferreds -> 0..MaxNews]
    BY DEF DeferredInv, TypeOK
  <1>3. /\ (c = p) => (news'[d] = news[d])
        /\ (c # p) => (news'[d] = news[d] + 1)
        /\ \A e \in Deferreds : (e # d) => (news'[e] = news[e])
    <2> HIDE DEF c, p
    <2> QED
      BY <1>1, <1>2
  <1>4. \A e \in Deferreds : lists'[e]["progress"] = IF e = d THEN c ELSE lists[e]["progress"]
    <2>1. c \in CallbackList /\ ProgressTurn(d, c)
      BY ProgressNotifies
    <2> HIDE DEF c
    <2> QED
      BY <2>1, ProgressStep
  <1>5. NotifyTold(p, c, watchers[d], news[d], heard)
    <2>1. /\ p \in CallbackList /\ ListensOnly(p) /\ watchers[d] \in SUBSET Handlers
          /\ news[d] \in Nat /\ heard \in [Handlers -> Seq(Nat)]
          /\ Tells(p, watchers[d], news[d], heard)
      BY NewsOfOne
    <2> HIDE DEF p
    <2> QED
      BY <2>1, NotifyTells
  <1> HIDE DEF c, p
  <1>6. Tells(c, watchers[d], news'[d], heard)
    BY <1>3, <1>5 DEF NotifyTold
  <1>7. NewsTurn(d, c)
    BY <1>1, <1>3, <1>4, <1>5, <1>6 DEF NewsTurn, NotifyTold, p
  <1>8. Hearing(watchers', heard')
    BY <1>1 DEF NewsInv
  <1> QED
    BY <1>7, <1>8, NewsTurns

(* done, fail and always, and the loop that they may start. *)
LEMMA RegisterNews ==
    ASSUME DeferredInv, NewsInv, NEW d \in Deferreds, NEW h \in Handlers,
           NEW on \in SUBSET Final, Register(d, h, on)
    PROVE  NewsInv'
  <1>1. /\ \A e \in Deferreds : lists'[e]["progress"] = lists[e]["progress"]
        /\ frames' = frames \/ \E k \in Settling :
              frames' = << [of |-> d, kind |-> k, running |-> null] >> \o frames
    BY RegisterStep
  <1>2. watchers' = watchers /\ news' = news /\ heard' = heard
    BY DEF Register
  <1>3. frames \in Seq(Frame)
    BY DEF DeferredInv, TypeOK
  <1>4. \A i \in DOMAIN frames' : \/ frames'[i].kind # "progress"
                                  \/ \E j \in DOMAIN frames : frames'[i] = frames[j]
    <2>1. ASSUME NEW k \in Settling,
                 frames' = << [of |-> d, kind |-> k, running |-> null] >> \o frames
          PROVE  \A i \in DOMAIN frames' : \/ frames'[i].kind # "progress"
                                           \/ \E j \in DOMAIN frames : frames'[i] = frames[j]
      <3> DEFINE e == [of |-> d, kind |-> k, running |-> null]
      <3>1. e \in Frame /\ e.kind # "progress" /\ frames' = <<e>> \o frames
        BY <2>1, KindFacts DEF Frame
      <3> HIDE DEF e
      <3> QED
        BY <1>3, <3>1, Pushed
    <2> QED
      BY <1>1, <2>1
  <1>5. NewsStay
    BY <1>1, <1>2, <1>4 DEF NewsStay
  <1> QED
    BY <1>5, NewsStays

(* resolve and reject. *)
LEMMA SettleNews ==
    ASSUME DeferredInv, NewsInv, PageRuns, NEW d \in Deferreds, NEW k \in Settling,
           settleWith(d, k)
    PROVE  NewsInv'
  <1>1. /\ UNCHANGED <<watchers, heard, news>>
        /\ \A e \in Deferreds : lists'[e]["progress"] = lists[e]["progress"]
    BY SettleStep, KindFacts
  <1>2. frames' = Started(d, k, fireWith(lists[d][k], 0)) \o frames
    BY DEF settleWith
  <1> DEFINE e == [of |-> d, kind |-> k, running |-> null]
  <1>3. frames \in Seq(Frame) /\ e \in Frame /\ e.kind # "progress"
    BY KindFacts DEF DeferredInv, TypeOK, Frame
  <1>4. frames' = << >> \o frames \/ frames' = <<e>> \o frames
    BY <1>2 DEF Started
  <1>5. frames' = frames \/ frames' = <<e>> \o frames
    BY <1>3, <1>4
  <1> HIDE DEF e
  <1>6. \A i \in DOMAIN frames' : \/ frames'[i].kind # "progress"
                                  \/ \E j \in DOMAIN frames : frames'[i] = frames[j]
    <2>1. CASE frames' = frames
      BY <2>1
    <2>2. CASE frames' = <<e>> \o frames
      <3>1. \A i \in DOMAIN frames' : frames'[i] = e \/ \E j \in DOMAIN frames : frames'[i] = frames[j]
        BY <1>3, <2>2, Pushed
      <3> QED
        BY <1>3, <3>1
    <2> QED
      BY <1>5, <2>1, <2>2
  <1>7. NewsStay
    BY <1>1, <1>6 DEF NewsStay
  <1> QED
    BY <1>7, NewsStays

(* The step of code of the page. *)
LEMMA UseNews ==
    ASSUME DeferredInv, NewsInv, NEW d \in Deferreds, Use(d)
    PROVE  NewsInv'
  <1>1. \/ \E h \in Handlers, on \in SUBSET Final : Register(d, h, on)
        \/ \E h \in Handlers : progress(d, h)
        \/ \E k \in Settling : PageRuns /\ settleWith(d, k)
        \/ notifyWith(d)
    BY DEF Use, Settling, Final
  <1> QED
    BY <1>1, RegisterNews, WatchNews, SettleNews, NotifyNews

(* A step that leaves the promises alone. *)
LEMMA SameNews ==
    ASSUME DeferredInv, NewsInv, UNCHANGED dvars
    PROVE  NewsInv'
  <1>1. NewsStay
    BY DEF NewsStay, dvars
  <1> QED
    BY <1>1, NewsStays

(* What is known of the innermost loop when its list is one of progress. *)
LEMMA NewsInnermost ==
    ASSUME DeferredInv, NewsInv, frames # << >>
    PROVE  LET f == Head(frames) IN
           /\ f \in Frame /\ f.of \in Deferreds /\ f.kind \in Kinds /\ lists[f.of][f.kind].firing
           /\ (f.kind = "progress") => Telling(f, lists[f.of]["progress"], heard)
           /\ frames \in Seq(Frame) /\ Apart(frames)
           /\ \A i \in DOMAIN frames : \/ frames[i] = f
                                       \/ frames[i].of # f.of \/ frames[i].kind # f.kind
  <1>1. frames \in Seq(Frame) /\ Apart(frames)
    BY DEF DeferredInv, TypeOK, FramesInv, Stepping
  <1>2. 1 \in DOMAIN frames /\ Head(frames) = frames[1]
    BY <1>1
  <1>3. \A i \in DOMAIN frames : \/ frames[i] = frames[1]
                                 \/ frames[i].of # frames[1].of \/ frames[i].kind # frames[1].kind
    BY <1>1, <1>2 DEF Apart
  <1>4. /\ frames[1] \in Frame /\ frames[1].of \in Deferreds
        /\ lists[frames[1].of][frames[1].kind].firing
    BY <1>2, FrameFires
  <1>5. (frames[1].kind = "progress") => Telling(frames[1], lists[frames[1].of]["progress"], heard)
    BY <1>2 DEF NewsInv, FramesTell
  <1> QED
    BY <1>1, <1>2, <1>3, <1>4, <1>5 DEF Frame

(* The progress list of the innermost loop goes on with a. *)
NewsGoOn(d, a) ==
    /\ \A e \in Deferreds : (e # d) => (lists'[e]["progress"] = lists[e]["progress"])
    /\ lists'[d]["progress"] = a
    /\ watchers' = watchers /\ news' = news /\ heard' = heard
    /\ Tells(a, watchers[d], news[d], heard)
    /\ \A i \in DOMAIN frames' :
          \/ frames'[i].of = d /\ Telling(frames'[i], a, heard)
          \/ \E j \in DOMAIN frames :
                /\ frames'[i] = frames[j]
                /\ frames[j].of # d \/ frames[j].kind # "progress"

(* So does this one. *)
LEMMA NewsGoesOn ==
    ASSUME DeferredInv, NewsInv, NEW d \in Deferreds, NEW a, NewsGoOn(d, a)
    PROVE  NewsInv'
  <1>1. ListsTell(lists', watchers', news', heard') /\ Hearing(watchers', heard')
    BY DEF NewsInv, NewsGoOn, ListsTell
  <1>2. FramesTell(frames', lists', heard')
    <2> SUFFICES ASSUME NEW i \in DOMAIN frames', frames'[i].kind = "progress"
                 PROVE  Telling(frames'[i], lists'[frames'[i].of]["progress"], heard')
      BY DEF FramesTell
    <2>1. CASE frames'[i].of = d /\ Telling(frames'[i], a, heard)
      BY <2>1 DEF NewsGoOn
    <2>2. ASSUME NEW j \in DOMAIN frames, frames'[i] = frames[j], frames[j].of # d
          PROVE  Telling(frames'[i], lists'[frames'[i].of]["progress"], heard')
      <3>1. frames[j].of \in Deferreds
        BY FrameFires
      <3>2. Telling(frames[j], lists[frames[j].of]["progress"], heard)
        BY <2>2 DEF NewsInv, FramesTell
      <3> QED
        BY <2>2, <3>1, <3>2 DEF NewsGoOn
    <2> QED
      BY <2>1, <2>2 DEF NewsGoOn
  <1> QED
    BY <1>1, <1>2 DEF NewsInv

(* One of Deferred's own callbacks: the lock of a progress list. *)
LEMMA InternalNews ==
    ASSUME DeferredInv, NewsInv, CallInternal
    PROVE  NewsInv'
  <1>1. /\ UNCHANGED <<frames, watchers, heard, news>>
        /\ \A e \in Deferreds : \/ lists'[e]["progress"] = lists[e]["progress"]
                                \/ lists'[e]["progress"] = lock(lists[e]["progress"])
    BY InternalStep
  <1>2. ASSUME NEW e \in Deferreds
        PROVE  /\ Tells(lists'[e]["progress"], watchers[e], news[e], heard)
               /\ TellOn(lists[e]["progress"], lists'[e]["progress"], heard, heard)
    <2> DEFINE p == lists[e]["progress"]
    <2>1. /\ p \in CallbackList /\ ListensOnly(p) /\ watchers[e] \in SUBSET Handlers
          /\ heard \in [Handlers -> Seq(Nat)]
          /\ Tells(p, watchers[e], news[e], heard)
      BY NewsOfOne
    <2>2. lists'[e]["progress"] = p \/ lists'[e]["progress"] = lock(p)
      BY <1>1
    <2> HIDE DEF p
    <2>3. Tells(lock(p), watchers[e], news[e], heard) /\ TellOn(p, lock(p), heard, heard)
      BY <2>1, LockTells
    <2>4. TellOn(p, p, heard, heard)
      BY DEF TellOn
    <2> QED
      BY <2>1, <2>2, <2>3, <2>4 DEF p
  <1>3. ListsTell(lists', watchers', news', heard') /\ Hearing(watchers', heard')
    BY <1>1, <1>2 DEF NewsInv, ListsTell
  <1>4. FramesTell(frames', lists', heard')
    <2> SUFFICES ASSUME NEW i \in DOMAIN frames, frames[i].kind = "progress"
                 PROVE  Telling(frames[i], lists'[frames[i].of]["progress"], heard)
      BY <1>1 DEF FramesTell
    <2>1. /\ frames[i] \in Frame /\ frames[i].of \in Deferreds
          /\ lists[frames[i].of]["progress"].firing
      BY FrameFires
    <2>2. Telling(frames[i], lists[frames[i].of]["progress"], heard)
      BY DEF NewsInv, FramesTell
    <2> QED
      BY <1>2, <2>1, <2>2 DEF TellOn
  <1> QED
    BY <1>3, <1>4 DEF NewsInv

(* A handler of done or fail begins or returns, or such a loop ends. *)
LEMMA OtherNews ==
    ASSUME DeferredInv, NewsInv,
           \A d \in Deferreds : lists'[d]["progress"] = lists[d]["progress"],
           watchers' = watchers, news' = news, heard' = heard,
           frames # << >>, Head(frames).kind # "progress",
           \/ frames' = frames \/ frames' = Tail(frames)
           \/ \E h \in Handlers \cup {null} : frames' = Runs(frames, h)
    PROVE  NewsInv'
  <1>1. frames \in Seq(Frame) /\ Apart(frames)
    BY NewsInnermost
  <1>2. \A i \in DOMAIN frames' : \/ frames'[i].kind # "progress"
                                  \/ \E j \in DOMAIN frames : frames'[i] = frames[j]
    <2>1. CASE frames' = frames
      BY <2>1
    <2>2. CASE frames' = Tail(frames)
      BY <1>1, <2>2, Popped
    <2>3. ASSUME NEW h \in Handlers \cup {null}, frames' = Runs(frames, h)
          PROVE  \A i \in DOMAIN frames' : \/ frames'[i].kind # "progress"
                                           \/ \E j \in DOMAIN frames : frames'[i] = frames[j]
      <3>1. /\ Head(frames').kind = Head(frames).kind
            /\ \A i \in DOMAIN frames' : \/ frames'[i] = Head(frames')
                                         \/ \E j \in DOMAIN frames : frames'[i] = frames[j]
        BY <1>1, <2>3, HeadRuns
      <3> QED
        BY <3>1
    <2> QED
      BY <2>1, <2>2, <2>3
  <1>3. NewsStay
    BY <1>2 DEF NewsStay
  <1> QED
    BY <1>3, NewsStays

(* A progress handler is called: it hears what the list remembers. *)
LEMMA HearsNews ==
    ASSUME DeferredInv, NewsInv, CallHandler, Head(frames).kind = "progress"
    PROVE  NewsInv'
  <1> DEFINE f == Head(frames)
             d == f.of
             p == lists[d]["progress"]
             h == Callback(p)
  <1>1. /\ frames # << >> /\ f.running = null /\ HasNext(p) /\ Current = p
        /\ frames' = Runs(frames, h) /\ h \in Handlers
        /\ heard' = [heard EXCEPT ![h] = Append(@, p.memory)]
        /\ lists' = lists /\ watchers' = watchers /\ news' = news
    BY DEF CallHandler, Looping, Current, Runs
  <1>2. /\ f \in Frame /\ d \in Deferreds /\ p.firing /\ Telling(f, p, heard)
        /\ frames \in Seq(Frame) /\ Apart(frames)
    BY <1>1, NewsInnermost
  <1>3. /\ p \in CallbackList /\ ListensOnly(p) /\ watchers[d] \in SUBSET Handlers
        /\ heard \in [Handlers -> Seq(Nat)]
        /\ Tells(p, watchers[d], news[d], heard)
    BY <1>2, NewsOfOne
  <1>4. CallTold(p, watchers[d], news[d], heard, heard', h)
    <2> HIDE DEF p, f
    <2> QED
      BY <1>1, <1>2, <1>3, CallTells
  <1>5. f.kind = "progress" /\ f.of = d /\ lists[d]["progress"] = p
    OBVIOUS
  <1> HIDE DEF f, d, p, h
  <1>6. /\ h \in watchers[d] /\ heard' \in [Handlers -> Seq(Nat)]
        /\ \A g \in Handlers : (g # h) => (heard'[g] = heard[g])
        /\ Consecutive(heard[h]) => Consecutive(heard'[h])
    BY <1>4 DEF CallTold
  <1>7. ASSUME NEW e \in Deferreds, e # d
        PROVE  /\ Tells(lists[e]["progress"], watchers[e], news[e], heard')
               /\ TellOn(lists[e]["progress"], lists[e]["progress"], heard, heard')
    <2> DEFINE q == lists[e]["progress"]
    <2>1. /\ q \in CallbackList /\ ListensOnly(q) /\ watchers[e] \in SUBSET Handlers
          /\ heard \in [Handlers -> Seq(Nat)]
          /\ Tells(q, watchers[e], news[e], heard)
      BY NewsOfOne
    <2>2. h \notin watchers[e]
      BY <1>1, <1>2, <1>6, <1>7 DEF NewsInv, Hearing
    <2>3. \A g \in watchers[e] : heard'[g] = heard[g]
      BY <1>6, <2>1, <2>2
    <2> HIDE DEF q
    <2>4. Tells(q, watchers[e], news[e], heard') /\ TellOn(q, q, heard, heard')
      BY <1>6, <2>1, <2>3, TellsSame
    <2> QED
      BY <2>4 DEF q
  <1>8. ListsTell(lists', watchers', news', heard')
    <2> SUFFICES ASSUME NEW e \in Deferreds
                 PROVE  Tells(lists[e]["progress"], watchers[e], news[e], heard')
      BY <1>1 DEF ListsTell
    <2>1. CASE e = d
      BY <1>4, <1>5, <2>1 DEF CallTold
    <2>2. CASE e # d
      BY <1>7, <2>2
    <2> QED
      BY <2>1, <2>2
  <1>9. FramesTell(frames', lists', heard')
    <2> SUFFICES ASSUME NEW i \in DOMAIN frames', frames'[i].kind = "progress"
                 PROVE  Telling(frames'[i], lists[frames'[i].of]["progress"], heard')
      BY <1>1 DEF FramesTell
    <2>1. /\ Head(frames') \in Frame /\ Head(frames').of = d /\ Head(frames').running = h
          /\ \/ frames'[i] = Head(frames')
             \/ \E j \in DOMAIN frames : /\ frames'[i] = frames[j]
                                         /\ frames[j].of # d \/ frames[j].kind # "progress"
      <3>1. /\ Head(frames') \in Frame /\ Head(frames').running = h
            /\ Head(frames').of = Head(frames).of
            /\ \A x \in DOMAIN frames' :
                  \/ frames'[x] = Head(frames')
                  \/ \E j \in DOMAIN frames :
                        /\ frames'[x] = frames[j]
                        /\ frames[j].of # Head(frames).of \/ frames[j].kind # Head(frames).kind
        BY <1>1, <1>2, HeadRuns
      <3>2. Head(frames).of = d /\ Head(frames).kind = "progress"
        BY <1>5 DEF f
      <3> QED
        BY <3>1, <3>2
    <2>2. CASE frames'[i] = Head(frames')
      <3>1. Telling(Head(frames'), p, heard')
        BY <1>4, <2>1 DEF CallTold
      <3> QED
        BY <1>5, <2>1, <2>2, <3>1
    <2>3. ASSUME NEW j \in DOMAIN frames, frames'[i] = frames[j], frames[j].of # d
          PROVE  Telling(frames'[i], lists[frames'[i].of]["progress"], heard')
      <3>1. /\ frames[j] \in Frame /\ frames[j].of \in Deferreds
            /\ lists[frames[j].of]["progress"].firing
        BY <2>3, FrameFires
      <3>2. Telling(frames[j], lists[frames[j].of]["progress"], heard)
        BY <2>3 DEF NewsInv, FramesTell
      <3> QED
        BY <1>7, <2>3, <3>1, <3>2 DEF TellOn
    <2> QED
      BY <2>1, <2>2, <2>3
  <1>10. Hearing(watchers', heard')
    <2>1. \A g \in Handlers : (heard'[g] = << >>) \/ \E e \in Deferreds : g \in watchers[e]
      BY <1>2, <1>6 DEF NewsInv, Hearing
    <2>2. \A g \in Handlers : Consecutive(heard'[g])
      BY <1>1, <1>6 DEF NewsInv, Hearing
    <2> QED
      BY <1>1, <2>1, <2>2 DEF NewsInv, Hearing
  <1> QED
    BY <1>8, <1>9, <1>10 DEF NewsInv

(* A handler returns to the loop that has called it. *)
LEMMA ReturnNews ==
    ASSUME DeferredInv, NewsInv, HandlerReturns
    PROVE  NewsInv'
  <1> DEFINE f == Head(frames)
             d == f.of
             k == f.kind
             c == lists[d][k]
             a == [c EXCEPT !.firingIndex = @ + 1]
  <1>1. /\ frames # << >> /\ f.running # null /\ frames' = Runs(frames, null)
        /\ watchers' = watchers /\ news' = news /\ heard' = heard
    BY DEF HandlerReturns, Runs
  <1>2. /\ f \in Frame /\ d \in Deferreds /\ k \in Kinds /\ c.firing
        /\ (k = "progress") => Telling(f, c, heard)
        /\ frames \in Seq(Frame) /\ Apart(frames)
    BY <1>1, NewsInnermost
  <1>3. /\ \A e \in Deferreds : \A j \in Kinds : (e # d \/ j # k) => (lists'[e][j] = lists[e][j])
        /\ lists'[d][k] = a
    BY BackStep
  <1>4. CASE k # "progress"
    <2>1. \A e \in Deferreds : lists'[e]["progress"] = lists[e]["progress"]
      BY <1>3, <1>4, KindFacts
    <2>2. \E h \in Handlers \cup {null} : frames' = Runs(frames, h)
      BY <1>1
    <2> QED
      BY <1>1, <1>4, <2>1, <2>2, OtherNews
  <1>5. CASE k = "progress"
    <2>1. /\ c \in CallbackList /\ ListensOnly(c) /\ watchers[d] \in SUBSET Handlers
          /\ heard \in [Handlers -> Seq(Nat)]
          /\ Tells(c, watchers[d], news[d], heard)
      BY <1>2, <1>5, NewsOfOne
    <2>2. Tells(a, watchers[d], news[d], heard) /\ MayTell(a, heard)
      <3> HIDE DEF c, f
      <3> QED
        BY <1>1, <1>2, <1>5, <2>1, ReturnTells
    <2>3. /\ \A e \in Deferreds : (e # d) => (lists'[e]["progress"] = lists[e]["progress"])
          /\ lists'[d]["progress"] = a
      BY <1>3, <1>5, KindFacts
    <2> HIDE DEF a, c
    <2>4. /\ Head(frames') \in Frame /\ Head(frames').of = d /\ Head(frames').running = null
          /\ \A i \in DOMAIN frames' :
                \/ frames'[i] = Head(frames')
                \/ \E j \in DOMAIN frames : /\ frames'[i] = frames[j]
                                            /\ frames[j].of # d \/ frames[j].kind # "progress"
      BY <1>1, <1>2, <1>5, HeadRuns
    <2>5. Telling(Head(frames'), a, heard)
      BY <2>2, <2>4 DEF MayTell
    <2> HIDE DEF d, f, k
    <2>6. NewsGoOn(d, a)
      BY <1>1, <2>2, <2>3, <2>4, <2>5 DEF NewsGoOn
    <2> QED
      BY <1>2, <2>6, NewsGoesOn
  <1> QED
    BY <1>4, <1>5

(* A loop ends, or begins again with what waits on the stack. *)
LEMMA EndNews ==
    ASSUME DeferredInv, NewsInv, EndLoop
    PROVE  NewsInv'
  <1> DEFINE f == Head(frames)
             d == f.of
             k == f.kind
             c == lists[d][k]
             a == endFire(c)
  <1>1. /\ frames # << >> /\ f.running = null /\ c.firing /\ ~HasNext(c)
        /\ frames' = IF a.firing THEN frames ELSE Tail(frames)
        /\ watchers' = watchers /\ news' = news /\ heard' = heard
        /\ \A e \in Deferreds : \A j \in Kinds : (e # d \/ j # k) => (lists'[e][j] = lists[e][j])
        /\ lists'[d][k] = a
    BY OverStep
  <1>2. /\ f \in Frame /\ d \in Deferreds /\ k \in Kinds
        /\ frames \in Seq(Frame) /\ Apart(frames)
        /\ \A i \in DOMAIN frames : \/ frames[i] = f
                                    \/ frames[i].of # d \/ frames[i].kind # k
    BY <1>1, NewsInnermost
  <1>3. CASE k # "progress"
    <2>1. \A e \in Deferreds : lists'[e]["progress"] = lists[e]["progress"]
      BY <1>1, <1>3, KindFacts
    <2>2. frames' = frames \/ frames' = Tail(frames)
      BY <1>1
    <2> QED
      BY <1>1, <1>3, <2>1, <2>2, OtherNews
  <1>4. CASE k = "progress"
    <2>1. /\ c \in CallbackList /\ ListensOnly(c) /\ watchers[d] \in SUBSET Handlers
          /\ news[d] \in Nat /\ heard \in [Handlers -> Seq(Nat)]
          /\ Tells(c, watchers[d], news[d], heard)
      BY <1>2, <1>4, NewsOfOne
    <2>2. Tells(a, watchers[d], news[d], heard) /\ (a.firing => MayTell(a, heard))
      <3> HIDE DEF c
      <3> QED
        BY <1>1, <2>1, EndTells
    <2>3. /\ \A e \in Deferreds : (e # d) => (lists'[e]["progress"] = lists[e]["progress"])
          /\ lists'[d]["progress"] = a
      BY <1>1, <1>4, KindFacts
    <2> HIDE DEF a, c
    <2>4. \A i \in DOMAIN frames' :
             \/ frames'[i].of = d /\ Telling(frames'[i], a, heard)
             \/ \E j \in DOMAIN frames : /\ frames'[i] = frames[j]
                                         /\ frames[j].of # d \/ frames[j].kind # "progress"
      <3>1. CASE a.firing
        <4>1. frames' = frames /\ Telling(f, a, heard)
          BY <1>1, <1>2, <2>2, <3>1 DEF MayTell
        <4> QED
          BY <1>2, <1>4, <4>1
      <3>2. CASE ~a.firing
        <4>1. frames' = Tail(frames)
          BY <1>1, <3>2
        <4> QED
          BY <1>1, <1>2, <1>4, <4>1, Popped
      <3> QED
        BY <3>1, <3>2
    <2> HIDE DEF d, f, k
    <2>5. NewsGoOn(d, a)
      BY <1>1, <2>2, <2>3, <2>4 DEF NewsGoOn
    <2> QED
      BY <1>2, <2>5, NewsGoesOn
  <1> QED
    BY <1>3, <1>4

(* The loops, and the exception that leaves them all. *)
LEMMA LoopNews ==
    ASSUME DeferredInv, NewsInv, Loop \/ HandlerThrows
    PROVE  NewsInv'
  <1>1. CASE CallInternal
    BY <1>1, InternalNews
  <1>2. CASE CallHandler
    <2>1. CASE Head(frames).kind = "progress"
      BY <1>2, <2>1, HearsNews
    <2>2. CASE Head(frames).kind # "progress"
      <3>1. /\ frames # << >> /\ frames' = Runs(frames, Callback(Current))
            /\ Callback(Current) \in Handlers
            /\ lists' = lists /\ watchers' = watchers /\ news' = news /\ heard' = heard
        BY <1>2, <2>2 DEF CallHandler, Looping, Runs
      <3> QED
        BY <2>2, <3>1, OtherNews
    <2> QED
      BY <2>1, <2>2
  <1>3. CASE HandlerReturns
    BY <1>3, ReturnNews
  <1>4. CASE EndLoop
    BY <1>4, EndNews
  <1>5. CASE HandlerThrows
    <2>1. NewsStay
      BY <1>5 DEF HandlerThrows, NewsStay
    <2> QED
      BY <2>1, NewsStays
  <1> QED
    BY <1>1, <1>2, <1>3, <1>4, <1>5 DEF Loop

(* Whatever jQuery.ready does with the promises. *)
LEMMA BecomeReadyNews ==
    ASSUME DeferredInv, NewsInv, PageRuns, NEW wait \in BOOLEAN, becomeReady(wait)
    PROVE  NewsInv'
  <1>1. UNCHANGED dvars \/ settleWith(readyList, "done")
    BY DEF becomeReady
  <1>2. readyList \in Deferreds /\ "done" \in Settling
    BY ReadyAssumption, KindFacts
  <1> QED
    BY <1>1, <1>2, SameNews, SettleNews

(* Every step of the page. *)
LEMMA ReadyNews ==
    ASSUME DeferredInv, NewsInv, [Next]_vars
    PROVE  NewsInv'
  <1>1. CASE (Loop \/ HandlerThrows) /\ UNCHANGED rvars
    BY <1>1, LoopNews
  <1>2. CASE \E d \in Deferreds \ {readyList} : Use(d) /\ UNCHANGED rvars
    BY <1>2, UseNews
  <1>3. CASE \E h \in Handlers : ready(h)
    <2>1. PICK h \in Handlers : Register(readyList, h, {"resolved"})
      BY <1>3 DEF ready
    <2>2. readyList \in Deferreds /\ {"resolved"} \in SUBSET Final
      BY ReadyAssumption DEF Final
    <2> QED
      BY <2>1, <2>2, RegisterNews
  <1>4. CASE \E hold \in BOOLEAN : holdReady(hold)
    <2>1. PageRuns /\ (UNCHANGED dvars \/ becomeReady(TRUE))
      BY <1>4 DEF holdReady
    <2> QED
      BY <2>1, SameNews, BecomeReadyNews
  <1>5. CASE DocumentEvent
    <2>1. PageRuns /\ (UNCHANGED dvars \/ becomeReady(FALSE))
      BY <1>5, NoFrames DEF DocumentEvent
    <2> QED
      BY <2>1, SameNews, BecomeReadyNews
  <1>6. CASE TimerFires
    <2>1. PageRuns /\ becomeReady(FALSE)
      BY <1>6, NoFrames DEF TimerFires
    <2> QED
      BY <2>1, BecomeReadyNews
  <1>7. CASE UNCHANGED vars
    <2>1. UNCHANGED dvars
      BY <1>7 DEF vars
    <2> QED
      BY <2>1, SameNews
  <1> QED
    BY <1>1, <1>2, <1>3, <1>4, <1>5, <1>6, <1>7 DEF Next

-----------------------------------------------------------------------------
(* The theorems. *)

(* The types of the promises and of what jQuery.ready keeps. *)
THEOREM ReadyTypes == Spec => []ReadyTypeOK
  <1>1. IInv => ReadyTypeOK
    BY DEF IInv, WaitTypeOK, DeferredInv, ReadyTypeOK
  <1> QED
    BY <1>1, Invariance, PTL

(* Deferred keeps what Promise says: a promise is settled once, and calls  *)
(* the handlers of its outcome once each in the order of their             *)
(* registration, whatever they do while they run.                          *)
THEOREM DeferredKeepsPromise == Spec => ImplementsPromise
  <1>1. Init => Promises!Init
    BY DEF Init, DeferredInit, Promises!Init, Promises!Final
  <1>2. ASSUME IInv, [Next]_vars
        PROVE  [Promises!Next]_Promises!vars
    <2>1. CASE Next
      BY <1>2, <2>1, ReadyStep DEF Promises!vars
    <2>2. CASE UNCHANGED vars
      BY <2>2 DEF vars, dvars, Promises!vars
    <2> QED
      BY <1>2, <2>1, <2>2
  <1> QED
    BY <1>1, <1>2, Invariance, PTL DEF Spec, ImplementsPromise, Promises!Spec

(* The first function given to $ is called when the document is there and  *)
(* nothing holds the ready event.                                          *)
THEOREM NotBeforeReady == Spec => CalledWhenReady
  <1>1. ASSUME IInv, [Next]_vars, called'[readyList] # called[readyList]
        PROVE  /\ document # "loading"
               /\ (called[readyList] = << >>) => (holds = 0)
    <2>1. Next
      BY <1>1 DEF vars, dvars
    <2>2. \E k \in Settling : lists[readyList][k].firing /\ lists[readyList][k].fired
      BY <1>1, <2>1, ReadyStep
    <2>3. lists[readyList]["done"].fired
      BY <1>1, <2>2 DEF IInv, ReadyInv, Settling
    <2> QED
      BY <1>1, <2>3 DEF IInv, ReadyInv
  <1> QED
    BY <1>1, Invariance, PTL DEF Spec, CalledWhenReady

(* A progress handler hears the notifications of its promise in order,     *)
(* without a gap and none of them twice: those that come while the list    *)
(* fires wait on its stack, also when a handler sent them, and a late      *)
(* handler begins with the last one.                                       *)
THEOREM NewsComesInOrder == Spec => []NewsInOrder
  <1>1. Init => NewsInv
    BY NewsInitially DEF Init
  <1>2. ASSUME IInv, NewsInv, [Next]_vars
        PROVE  NewsInv'
    BY <1>2, ReadyNews DEF IInv
  <1>3. NewsInv => NewsInOrder
    BY DEF NewsInv, Hearing, Consecutive, NewsInOrder
  <1> QED
    BY <1>1, <1>2, <1>3, Invariance, PTL DEF Spec

=============================================================================
