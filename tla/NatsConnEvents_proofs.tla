------------------------ MODULE NatsConnEvents_proofs ------------------------
(***************************************************************************)
(* Proofs about NatsConnEvents: the types, that the slice of listeners is  *)
(* a set of the listeners that are not removed, though append and          *)
(* removeListener write its array in place, and that a listener that has   *)
(* caught up knows the latest event.                                       *)
(***************************************************************************)
EXTENDS NatsConnEvents, TLAPS

\* The backing arrays; nil has no slots.
NilInv == Len(arrays) >= 1 /\ Len(arrays[1]) = 0

\* What handleEvent ranges over is an array with a listener in every slot.
RangeInv ==
  phase = "send" =>
    /\ iter.array <= Len(arrays) /\ iter.len <= Capacity(iter.array)
    /\ \A i \in 1..iter.len : arrays[iter.array][i] \in Listeners

PhaseInv == phase # "idle" => nev \in 1..MaxEvents

\* A listener is observed once, and removed by the one that holds subsMutex.
StopInv ==
  \A l \in Listeners :
    /\ client[l] = "off" <=> stopper[l] = "off"
    /\ stopper[l] = "shift" => subsLock = l /\ l \in Registered

EventsInv == TypeOK /\ NilInv /\ RangeInv /\ PhaseInv /\ StopInv /\ SliceIsSet

-----------------------------------------------------------------------------
\* Sequences: an element, the head and the tail, a function on 1..n, a slot written.
LEMMA ElementOf ==
  ASSUME NEW S, NEW s \in Seq(S), NEW n \in 1..Len(s)
  PROVE  s[n] \in S
  OBVIOUS

LEMMA HeadTail ==
  ASSUME NEW S, NEW s \in Seq(S), s # <<>>
  PROVE  /\ Head(s) \in S /\ Tail(s) \in Seq(S)
         /\ Len(Tail(s)) <= Len(s) /\ Len(s) \in Nat /\ Len(Tail(s)) \in Nat
  OBVIOUS

LEMMA SeqFcn ==
  ASSUME NEW S, NEW n \in Nat, NEW s, s \in [1..n -> S]
  PROVE  s \in Seq(S) /\ Len(s) = n
  <1>1. s \in Seq(S) OBVIOUS
  <1> QED BY <1>1

LEMMA SetAt ==
  ASSUME NEW S, NEW s \in Seq(S), NEW n \in 1..Len(s), NEW x \in S
  PROVE  [s EXCEPT ![n] = x] \in Seq(S) /\ Len([s EXCEPT ![n] = x]) = Len(s)
  OBVIOUS

\* A pair with one component replaced.
LEMMA PairOne ==
  ASSUME NEW S, NEW q \in S \X S, NEW x \in S
  PROVE  [q EXCEPT ![1] = x] \in S \X S /\ [q EXCEPT ![2] = x] \in S \X S
  <1>1. PICK a \in S, b \in S : q = <<a, b>> OBVIOUS
  <1>2. [q EXCEPT ![1] = x] = <<x, b>> BY <1>1
  <1>3. [q EXCEPT ![2] = x] = <<a, x>> BY <1>1
  <1> QED BY <1>2, <1>3

-----------------------------------------------------------------------------
\* append writes one free slot, of the array or of a copy of it: what the slice
\* had stays, and no slot of any array gets anything but the new listener.
LEMMA AppendFacts ==
  ASSUME SliceOK, NilInv, NEW l \in Listeners, AppendSub(l)
  PROVE  /\ arrays' \in Seq(Seq(Listeners \union {NoOne})) /\ Len(arrays') >= Len(arrays)
         /\ \A k \in 1..Len(arrays) :
              /\ Len(arrays'[k]) = Len(arrays[k])
              /\ \A i \in 1..Len(arrays[k]) : arrays'[k][i] = arrays[k][i] \/ arrays'[k][i] = l
         /\ subs' \in [array : Nat \ {0}, len : Nat]
         /\ subs'.array <= Len(arrays') /\ subs'.len <= Len(arrays'[subs'.array])
         /\ subs'.len = subs.len + 1
         /\ \A i \in 1..subs.len : arrays'[subs'.array][i] = arrays[subs.array][i]
         /\ arrays'[subs'.array][subs.len + 1] = l
         /\ Len(arrays'[1]) = 0
  <1> DEFINE S == Listeners \union {NoOne}
             a == arrays[subs.array]
             n == subs.len
             k == subs.array
  <1>1. arrays \in Seq(Seq(S)) /\ subs \in [array : Nat \ {0}, len : Nat]
        /\ k \in 1..Len(arrays) /\ n \in Nat /\ n <= Len(a) /\ Len(arrays) \in Nat
    BY DEF SliceOK, Capacity
  <1>2. a \in Seq(S) /\ Len(a) \in Nat /\ a \in [1..Len(a) -> S]
    <2>1. a \in Seq(S) BY <1>1, ElementOf
    <2> QED BY <2>1
  <1>3. CASE n < Len(a)
    <2> DEFINE b == [a EXCEPT ![n + 1] = l]
    <2>1. n + 1 \in 1..Len(a) BY <1>1, <1>2, <1>3
    <2>2. b \in Seq(S) /\ Len(b) = Len(a) BY <1>2, <2>1, SetAt
    <2>3. arrays' = [arrays EXCEPT ![k] = b] /\ subs' = [subs EXCEPT !.len = n + 1]
      BY <1>3 DEF AppendSub, Capacity
    <2>4. arrays' \in Seq(Seq(S)) /\ Len(arrays') = Len(arrays)
      BY <1>1, <2>2, <2>3, SetAt
    <2>5. arrays'[k] = b /\ \A j \in 1..Len(arrays) : j # k => arrays'[j] = arrays[j]
      BY <1>1, <2>3
    <2>6. b[n + 1] = l /\ \A i \in 1..Len(a) : i # n + 1 => b[i] = a[i]
      BY <1>2, <2>1
    <2>7. subs' \in [array : Nat \ {0}, len : Nat] /\ subs'.array = k /\ subs'.len = n + 1
      BY <1>1, <2>3
    <2>8. k # 1 BY <1>1, <1>3 DEF NilInv
    <2>9. Len(arrays'[1]) = 0 BY <1>1, <2>5, <2>8 DEF NilInv
    <2>10. \A i \in 1..n : b[i] = a[i] BY <1>1, <2>1, <2>6
    <2>11. \A j \in 1..Len(arrays) :
              /\ Len(arrays'[j]) = Len(arrays[j])
              /\ \A i \in 1..Len(arrays[j]) : arrays'[j][i] = arrays[j][i] \/ arrays'[j][i] = l
      BY <2>2, <2>5, <2>6
    <2>12. n + 1 <= Len(b) BY <2>1, <2>2
    <2> HIDE DEF b, a, k, n
    <2>13. arrays'[subs'.array] = b BY <2>5, <2>7
    <2> QED BY <1>1, <2>4, <2>6, <2>7, <2>9, <2>10, <2>11, <2>12, <2>13 DEF S, a, k, n
  <1>4. CASE ~(n < Len(a))
    <2> DEFINE m == IF n = 0 THEN 1 ELSE 2 * n
               b == [i \in 1..m |-> IF i <= n THEN a[i] ELSE IF i = n + 1 THEN l ELSE NoOne]
    <2>1. m \in Nat /\ n + 1 <= m BY <1>1
    <2>2. b \in Seq(S) /\ Len(b) = m
      <3>1. \A i \in 1..m : b[i] \in S BY <1>1, <1>2, <1>4, <2>1
      <3>2. b \in [1..m -> S] BY <3>1
      <3> HIDE DEF b, m
      <3> QED BY <2>1, <3>2, SeqFcn
    <2>3. arrays' = Append(arrays, b) /\ subs' = [array |-> Len(arrays) + 1, len |-> n + 1]
      BY <1>4 DEF AppendSub, Capacity
    <2>4. b[n + 1] = l /\ \A i \in 1..n : b[i] = a[i]
      BY <1>1, <2>1
    <2> HIDE DEF b, a, k, n, m, S
    <2>5. /\ arrays' \in Seq(Seq(S)) /\ Len(arrays') = Len(arrays) + 1
          /\ arrays'[Len(arrays) + 1] = b
          /\ \A j \in 1..Len(arrays) : arrays'[j] = arrays[j]
      BY <1>1, <2>2, <2>3
    <2>6. Len(arrays'[1]) = 0 BY <1>1, <2>5 DEF NilInv
    <2>7. subs' \in [array : Nat \ {0}, len : Nat] /\ subs'.array = Len(arrays) + 1
          /\ subs'.len = n + 1
      BY <1>1, <2>3
    <2>8. arrays'[subs'.array] = b BY <2>5, <2>7
    <2>9. subs'.array <= Len(arrays') /\ subs'.len <= Len(arrays'[subs'.array])
      BY <1>1, <2>1, <2>2, <2>5, <2>7, <2>8
    <2>10. arrays'[subs'.array][n + 1] = l /\ \A i \in 1..n : arrays'[subs'.array][i] = a[i]
      BY <2>4, <2>8
    <2>11. Len(arrays') >= Len(arrays)
      BY <1>1, <2>5
    <2> QED BY <2>5, <2>6, <2>7, <2>9, <2>10, <2>11 DEF S, a, n
  <1> QED BY <1>3, <1>4

\* A removal moves what follows the listener one slot down: the slice loses that
\* listener and no other, and its array gets nothing it did not have.
LEMMA ShiftFacts ==
  ASSUME SliceOK, SliceIsSet, NEW l \in Registered, Shift(l)
  PROVE  /\ arrays' \in Seq(Seq(Listeners \union {NoOne})) /\ Len(arrays') = Len(arrays)
         /\ \A k \in 1..Len(arrays) :
              /\ Len(arrays'[k]) = Len(arrays[k])
              /\ \A i \in 1..Len(arrays[k]) : arrays'[k][i] = arrays[k][i] \/ arrays'[k][i] \in Registered
         /\ subs' \in [array : Nat \ {0}, len : Nat]
         /\ subs'.array <= Len(arrays') /\ subs'.len <= Len(arrays'[subs'.array])
         /\ \A i, j \in 1..subs'.len : arrays'[subs'.array][i] = arrays'[subs'.array][j]
               => i = j
         /\ Registered' = Registered \ {l}
  <1> DEFINE S == Listeners \union {NoOne}
             a == arrays[subs.array]
             n == subs.len
             k == subs.array
             p == CHOOSE i \in 1..n : a[i] = l
             b == [i \in DOMAIN a |-> IF i >= p /\ i < n THEN a[i + 1] ELSE a[i]]
  <1>1. arrays \in Seq(Seq(S)) /\ subs \in [array : Nat \ {0}, len : Nat]
        /\ k \in 1..Len(arrays) /\ n \in Nat /\ n <= Len(a) /\ Len(arrays) \in Nat
    BY DEF SliceOK, Capacity
  <1>2. a \in Seq(S) /\ Len(a) \in Nat /\ a \in [1..Len(a) -> S]
    <2>1. a \in Seq(S) BY <1>1, ElementOf
    <2> QED BY <2>1
  <1>3. p \in 1..n /\ a[p] = l
    <2>1. \E i \in 1..n : a[i] = l BY DEF Registered, Elements
    <2> QED BY <2>1
  <1>4. \A i, j \in 1..n : a[i] = a[j] => i = j
    BY DEF SliceIsSet
  <1>5. arrays' = [arrays EXCEPT ![k] = b] /\ subs' = [subs EXCEPT !.len = n - 1]
    BY DEF Shift, Without
  <1> HIDE DEF p
  <1>6. /\ \A i \in 1..(p - 1) : b[i] = a[i]
        /\ \A i \in p..(n - 1) : b[i] = a[i + 1]
        /\ \A i \in 1..Len(a) : b[i] = a[i] \/ \E j \in 1..n : b[i] = a[j]
    BY <1>1, <1>2, <1>3
  <1>7. b \in Seq(S) /\ Len(b) = Len(a)
    <2>1. \A i \in 1..Len(a) : b[i] \in S BY <1>1, <1>2, <1>3
    <2>2. b \in [1..Len(a) -> S] BY <1>2, <2>1
    <2> HIDE DEF b
    <2> QED BY <1>2, <2>2, SeqFcn
  <1>8. Registered = {a[i] : i \in 1..n}
    BY DEF Registered, Elements
  <1> HIDE DEF a, b, n, k
  <1>9. /\ arrays' \in Seq(Seq(S)) /\ Len(arrays') = Len(arrays)
        /\ arrays'[k] = b /\ \A j \in 1..Len(arrays) : j # k => arrays'[j] = arrays[j]
    BY <1>1, <1>5, <1>7, SetAt
  <1>10. subs' \in [array : Nat \ {0}, len : Nat] /\ subs'.array = k /\ subs'.len = n - 1
    <2>1. n - 1 \in Nat BY <1>1, <1>3
    <2> QED BY <1>1, <1>5, <2>1 DEF k
  <1>11. \A i, j \in 1..(n - 1) : b[i] = b[j] => i = j
    <2> TAKE i \in 1..(n - 1), j \in 1..(n - 1)
    <2>1. /\ (i < p /\ b[i] = a[i]) \/ (i >= p /\ b[i] = a[i + 1])
          /\ (j < p /\ b[j] = a[j]) \/ (j >= p /\ b[j] = a[j + 1])
      BY <1>1, <1>3, <1>6
    <2>2. i \in 1..n /\ j \in 1..n /\ i + 1 \in 1..n /\ j + 1 \in 1..n
      BY <1>1
    <2> QED BY <1>1, <1>3, <1>4, <2>1, <2>2
  <1>12. {b[i] : i \in 1..(n - 1)} = {a[i] : i \in 1..n} \ {l}
    <2>1. ASSUME NEW i \in 1..(n - 1)
          PROVE  b[i] \in {a[j] : j \in 1..n} \ {l}
      <3>1. CASE i < p
        <4>1. b[i] = a[i] /\ i \in 1..n /\ i # p BY <1>1, <1>3, <1>6, <3>1
        <4> QED BY <1>3, <1>4, <4>1
      <3>2. CASE i >= p
        <4>1. b[i] = a[i + 1] /\ i + 1 \in 1..n /\ i + 1 # p BY <1>1, <1>3, <1>6, <3>2
        <4> QED BY <1>3, <1>4, <4>1
      <3> QED BY <1>1, <1>3, <3>1, <3>2
    <2>2. ASSUME NEW j \in 1..n, a[j] # l
          PROVE  a[j] \in {b[i] : i \in 1..(n - 1)}
      <3>1. CASE j < p
        <4>1. b[j] = a[j] /\ j \in 1..(n - 1) BY <1>1, <1>3, <1>6, <3>1
        <4> QED BY <4>1
      <3>2. CASE j > p
        <4>1. b[j - 1] = a[j] /\ j - 1 \in 1..(n - 1)
          <5>1. j - 1 \in p..(n - 1) /\ (j - 1) + 1 = j BY <1>1, <1>3, <3>2
          <5> QED BY <1>1, <1>3, <1>6, <5>1
        <4> QED BY <4>1
      <3>3. j # p BY <1>3, <2>2
      <3> QED BY <1>1, <1>3, <3>1, <3>2, <3>3
    <2> QED BY <2>1, <2>2
  <1>13. Registered' = {b[i] : i \in 1..(n - 1)}
    BY <1>9, <1>10 DEF Registered, Elements
  <1>14. \A j \in 1..Len(arrays) :
              /\ Len(arrays'[j]) = Len(arrays[j])
              /\ \A i \in 1..Len(arrays[j]) : arrays'[j][i] = arrays[j][i] \/ arrays'[j][i] \in Registered
    <2>1. \A i \in 1..Len(a) : b[i] = a[i] \/ b[i] \in Registered
      BY <1>6, <1>8
    <2>2. Len(arrays'[k]) = Len(a)
          /\ \A i \in 1..Len(a) : arrays'[k][i] = a[i] \/ arrays'[k][i] \in Registered
      BY <1>7, <1>9, <2>1
    <2>3. a = arrays[k] BY DEF a, k
    <2> QED BY <1>9, <2>2, <2>3
  <1>15. arrays'[subs'.array] = b /\ subs'.len <= Len(b)
    BY <1>1, <1>7, <1>9, <1>10
  <1>16. Registered' = Registered \ {l} BY <1>8, <1>12, <1>13
  <1>17. \A i, j \in 1..subs'.len : arrays'[subs'.array][i] = arrays'[subs'.array][j] => i = j
    BY <1>10, <1>11, <1>15
  <1>18. subs'.array <= Len(arrays') BY <1>1, <1>9, <1>10
  <1> QED BY <1>9, <1>10, <1>14, <1>15, <1>16, <1>17, <1>18

\* Neither append nor a removal can give the range of handleEvent an empty slot.
LEMMA RangeKept ==
  ASSUME SliceOK, EventOK, RangeInv, UNCHANGED <<phase, iter>>, SliceOK',
         Len(arrays') >= Len(arrays),
         \A k \in 1..Len(arrays) :
           /\ Len(arrays'[k]) = Len(arrays[k])
           /\ \A i \in 1..Len(arrays[k]) : arrays'[k][i] = arrays[k][i] \/ arrays'[k][i] \in Listeners
  PROVE  RangeInv'
  <1> SUFFICES ASSUME phase = "send"
               PROVE  /\ iter.array <= Len(arrays') /\ iter.len <= Capacity(iter.array)'
                      /\ \A i \in 1..iter.len : arrays'[iter.array][i] \in Listeners
    BY DEF RangeInv
  <1>1. /\ iter.array \in Nat \ {0} /\ iter.array <= Len(arrays) /\ iter.len \in Nat
        /\ iter.len <= Len(arrays[iter.array])
        /\ \A i \in 1..iter.len : arrays[iter.array][i] \in Listeners
    BY DEF RangeInv, EventOK, Capacity
  <1>2. /\ arrays \in Seq(Seq(Listeners \union {NoOne}))
        /\ arrays' \in Seq(Seq(Listeners \union {NoOne}))
    BY DEF SliceOK
  <1>3. Len(arrays) \in Nat /\ Len(arrays') \in Nat BY <1>2
  <1>4. iter.array \in 1..Len(arrays) BY <1>1, <1>3
  <1>5. arrays[iter.array] \in Seq(Listeners \union {NoOne}) BY <1>2, <1>4, ElementOf
  <1>6. Len(arrays[iter.array]) \in Nat BY <1>5
  <1>7. 1..iter.len \subseteq 1..Len(arrays[iter.array]) BY <1>1, <1>6
  <1>8. Len(arrays'[iter.array]) = Len(arrays[iter.array]) BY <1>4
  <1>9. \A i \in 1..iter.len : arrays'[iter.array][i] \in Listeners BY <1>1, <1>4, <1>7
  <1>10. iter.array <= Len(arrays') BY <1>1, <1>3
  <1> QED BY <1>1, <1>8, <1>9, <1>10 DEF Capacity

-----------------------------------------------------------------------------
\* The types of the listeners' variables after the actions that write a pair or a
\* channel.
LEMMA AskStatusTypes ==
  ASSUME EventsInv, NEW l \in Listeners, AskStatus(l)
  PROVE  ListenersOK'
  <1>1. ListenersOK /\ EventOK BY DEF EventsInv, TypeOK
  <1>2. told \in [Listeners -> (0..MaxEvents) \X (0..MaxEvents)] /\ lastStatus \in 0..MaxEvents
    BY <1>1 DEF ListenersOK, EventOK
  <1>3. [told[l] EXCEPT ![1] = lastStatus] \in (0..MaxEvents) \X (0..MaxEvents) BY <1>2, PairOne
  <1>4. told' = [told EXCEPT ![l] = [told[l] EXCEPT ![1] = lastStatus]] BY DEF AskStatus
  <1>5. told' \in [Listeners -> (0..MaxEvents) \X (0..MaxEvents)] BY <1>2, <1>3, <1>4
  <1> QED BY <1>1, <1>5 DEF ListenersOK, AskStatus, clientVars, eventVars, sliceVars

LEMMA AskErrorTypes ==
  ASSUME EventsInv, NEW l \in Listeners, AskError(l)
  PROVE  ListenersOK'
  <1>1. ListenersOK /\ EventOK BY DEF EventsInv, TypeOK
  <1>2. told \in [Listeners -> (0..MaxEvents) \X (0..MaxEvents)] /\ lastError \in 0..MaxEvents
    BY <1>1 DEF ListenersOK, EventOK
  <1>3. [told[l] EXCEPT ![2] = lastError] \in (0..MaxEvents) \X (0..MaxEvents) BY <1>2, PairOne
  <1>4. told' = [told EXCEPT ![l] = [told[l] EXCEPT ![2] = lastError]] BY DEF AskError
  <1>5. told' \in [Listeners -> (0..MaxEvents) \X (0..MaxEvents)] BY <1>2, <1>3, <1>4
  <1> QED BY <1>1, <1>5 DEF ListenersOK, AskError, clientVars, eventVars, sliceVars

LEMMA ReceiveTypes ==
  ASSUME EventsInv, NEW l \in Listeners, Receive(l)
  PROVE  ListenersOK'
  <1>1. ListenersOK /\ EventOK BY DEF EventsInv, TypeOK
  <1>2. events[l] \in Seq(1..MaxEvents) /\ events[l] # <<>> /\ Len(events[l]) <= EvCap
    BY <1>1 DEF ListenersOK, Receive, clientVars, eventVars, sliceVars
  <1>3. Head(events[l]) \in 1..MaxEvents /\ Tail(events[l]) \in Seq(1..MaxEvents)
        /\ Len(Tail(events[l])) <= EvCap
    <2>1. Len(Tail(events[l])) <= Len(events[l]) /\ Len(Tail(events[l])) \in Nat
          /\ Len(events[l]) \in Nat /\ Head(events[l]) \in 1..MaxEvents
          /\ Tail(events[l]) \in Seq(1..MaxEvents)
      BY <1>2, HeadTail
    <2> QED BY <1>2, <2>1, EventsAssumption
  <1>4. Head(events[l]) \in 0..MaxEvents BY <1>3, EventsAssumption
  <1>5. told' \in [Listeners -> (0..MaxEvents) \X (0..MaxEvents)]
    BY <1>1, <1>4 DEF ListenersOK, Receive, clientVars, eventVars, sliceVars
  <1>6. events' \in [Listeners -> Seq(1..MaxEvents)]
        /\ \A k \in Listeners : Len(events'[k]) <= EvCap
    BY <1>1, <1>3 DEF ListenersOK, Receive, clientVars, eventVars, sliceVars
  <1> QED BY <1>1, <1>5, <1>6 DEF ListenersOK, Receive, clientVars, eventVars, sliceVars

LEMMA RemoveListenerTypes ==
  ASSUME EventsInv, NEW l \in Listeners, RemoveListener(l)
  PROVE  ListenersOK'
  <1>1. ListenersOK BY DEF EventsInv, TypeOK
  <1>2. stopper' \in [Listeners -> {"off", "wait", "shift", "ended"}]
        /\ closed' \subseteq Listeners
    BY <1>1 DEF ListenersOK, RemoveListener, clientVars, eventVars, sliceVars
  <1> QED BY <1>1, <1>2 DEF ListenersOK, RemoveListener, clientVars, eventVars, sliceVars

LEMMA EventSendTypes ==
  ASSUME EventsInv, EventSend
  PROVE  ListenersOK' /\ EventOK'
  <1>1. ListenersOK /\ EventOK /\ RangeInv /\ PhaseInv BY DEF EventsInv, TypeOK
  <1> DEFINE l == arrays[iter.array][iter.next]
  <1>2. l \in Listeners /\ nev \in 1..MaxEvents
    BY <1>1 DEF RangeInv, PhaseInv, EventSend, EventOK
  <1>3. \/ events' = events
        \/ events' = [events EXCEPT ![l] = IF Len(@) < EvCap THEN Append(@, nev) ELSE @]
    BY DEF EventSend
  <1>4. events' \in [Listeners -> Seq(1..MaxEvents)]
        /\ \A k \in Listeners : Len(events'[k]) <= EvCap
    <2>1. events \in [Listeners -> Seq(1..MaxEvents)]
          /\ \A k \in Listeners : Len(events[k]) <= EvCap
      BY <1>1 DEF ListenersOK
    <2>2. events[l] \in Seq(1..MaxEvents) BY <1>2, <2>1
    <2>3. Append(events[l], nev) \in Seq(1..MaxEvents)
          /\ Len(Append(events[l], nev)) = Len(events[l]) + 1
      BY <1>2, <2>2
    <2>4. Len(events[l]) < EvCap => Len(events[l]) + 1 <= EvCap BY <2>2, EventsAssumption
    <2> HIDE DEF l
    <2> QED BY <1>2, <1>3, <2>1, <2>3, <2>4
  <1>5. lost' \subseteq Listeners
    <2>1. lost' = lost \/ lost' = lost \union {l} BY DEF EventSend
    <2> QED BY <1>1, <1>2, <2>1 DEF ListenersOK
  <1>6. ListenersOK'
    BY <1>1, <1>4, <1>5 DEF ListenersOK, EventSend, clientVars, eventVars, sliceVars
  <1>7. iter' = [iter EXCEPT !.next = iter.next + 1] /\ panicked' \in BOOLEAN
        /\ UNCHANGED <<nev, lastStatus, lastError, phase>>
    <2>1. panicked' = TRUE \/ panicked' = panicked BY DEF EventSend
    <2>2. panicked \in BOOLEAN BY <1>1 DEF EventOK
    <2> QED BY <2>1, <2>2 DEF EventSend
  <1>8. EventOK' BY <1>1, <1>7 DEF EventOK
  <1> QED BY <1>6, <1>8

-----------------------------------------------------------------------------
\* ObserveConnectionEvents keeps the invariant.
LEMMA ObserveStep ==
  ASSUME EventsInv, NEW l \in Listeners, Observe(l)
  PROVE  EventsInv'
  <1>1. SliceOK /\ ListenersOK /\ EventOK /\ NilInv /\ RangeInv /\ PhaseInv /\ StopInv
        /\ SliceIsSet
    BY DEF EventsInv, TypeOK
  <1>2. AppendSub(l) /\ subsLock = NoOne /\ client[l] = "off" BY DEF Observe
  <1>3. stopper[l] = "off" /\ l \notin Registered BY <1>1, <1>2 DEF StopInv, SliceIsSet
  <1>4. subs.len \in Nat BY <1>1 DEF SliceOK
  <1>5. Registered' = Registered \union {l}
    <2>1. Registered' = {arrays'[subs'.array][i] : i \in 1..(subs.len + 1)}
      BY <1>1, <1>2, AppendFacts DEF Registered, Elements
    <2>2. \A i \in 1..subs.len : arrays'[subs'.array][i] = arrays[subs.array][i]
      BY <1>1, <1>2, AppendFacts
    <2>3. arrays'[subs'.array][subs.len + 1] = l BY <1>1, <1>2, AppendFacts
    <2>4. Registered = {arrays[subs.array][i] : i \in 1..subs.len} BY DEF Registered, Elements
    <2>5. \A i \in 1..(subs.len + 1) : i \in 1..subs.len \/ i = subs.len + 1 BY <1>4
    <2>6. 1..subs.len \subseteq 1..(subs.len + 1) /\ subs.len + 1 \in 1..(subs.len + 1) BY <1>4
    <2>7. Registered' \subseteq Registered \union {l} BY <2>1, <2>2, <2>3, <2>4, <2>5
    <2>8. Registered \subseteq Registered' BY <2>1, <2>2, <2>4, <2>6
    <2>9. l \in Registered' BY <2>1, <2>3, <2>6
    <2> QED BY <2>7, <2>8, <2>9
  <1>6. SliceOK'
    <2>1. arrays' \in Seq(Seq(Listeners \union {NoOne}))
          /\ subs' \in [array : Nat \ {0}, len : Nat]
          /\ subs'.array <= Len(arrays') /\ subs'.len <= Len(arrays'[subs'.array])
      BY <1>1, <1>2, AppendFacts
    <2>2. Registered' \subseteq Listeners BY <1>1, <1>5 DEF SliceOK
    <2> QED BY <1>1, <2>1, <2>2 DEF SliceOK, Observe, Capacity
  <1>7. ListenersOK' BY <1>1 DEF ListenersOK, Observe, clientVars
  <1>8. EventOK' BY <1>1 DEF EventOK, Observe, eventVars
  <1>9. NilInv'
    <2>1. Len(arrays') >= Len(arrays) /\ Len(arrays'[1]) = 0 /\ Len(arrays) \in Nat
          /\ Len(arrays') \in Nat
      <3>1. arrays \in Seq(Seq(Listeners \union {NoOne}))
            /\ arrays' \in Seq(Seq(Listeners \union {NoOne}))
        BY <1>1, <1>6 DEF SliceOK
      <3> QED BY <1>1, <1>2, <3>1, AppendFacts
    <2> QED BY <1>1, <2>1 DEF NilInv
  <1>10. RangeInv' BY <1>1, <1>2, <1>6, RangeKept, AppendFacts DEF Observe, eventVars
  <1>11. PhaseInv' BY <1>1 DEF PhaseInv, Observe, eventVars
  <1>12. StopInv' BY <1>1, <1>2, <1>3, <1>5 DEF StopInv, Observe, ListenersOK
  <1>13. SliceIsSet'
    <2>1. \A i, j \in 1..subs'.len : arrays'[subs'.array][i] = arrays'[subs'.array][j] => i = j
      <3>1. \A i \in 1..subs.len : arrays'[subs'.array][i] = arrays[subs.array][i]
            /\ arrays[subs.array][i] \in Registered
        BY <1>1, <1>2, AppendFacts DEF Registered, Elements
      <3>2. arrays'[subs'.array][subs.len + 1] = l /\ subs'.len = subs.len + 1
        BY <1>1, <1>2, AppendFacts
      <3>3. \A i \in 1..subs'.len : i \in 1..subs.len \/ i = subs.len + 1 BY <1>4, <3>2
      <3>4. \A i, j \in 1..subs.len : arrays[subs.array][i] = arrays[subs.array][j] => i = j
        BY <1>1 DEF SliceIsSet
      <3> QED BY <1>3, <3>1, <3>2, <3>3, <3>4
    <2>2. stopper' = [stopper EXCEPT ![l] = "wait"] /\ conn' = conn
          /\ stopper \in [Listeners -> {"off", "wait", "shift", "ended"}]
      BY <1>1 DEF Observe, ListenersOK
    <2> QED BY <1>1, <1>5, <2>1, <2>2 DEF SliceIsSet
  <1> QED BY <1>6, <1>7, <1>8, <1>9, <1>10, <1>11, <1>12, <1>13 DEF EventsInv, TypeOK

\* removeListener keeps it, and so does Close.
LEMMA ShiftStep ==
  ASSUME EventsInv, NEW l \in Listeners, Shift(l)
  PROVE  EventsInv'
  <1>1. SliceOK /\ ListenersOK /\ EventOK /\ NilInv /\ RangeInv /\ PhaseInv /\ StopInv
        /\ SliceIsSet
    BY DEF EventsInv, TypeOK
  <1>2. stopper[l] = "shift" /\ l \in Registered /\ subsLock = l BY <1>1 DEF Shift, StopInv
  <1>3. Registered' = Registered \ {l} BY <1>1, <1>2, ShiftFacts
  <1>4. SliceOK'
    <2>1. arrays' \in Seq(Seq(Listeners \union {NoOne}))
          /\ subs' \in [array : Nat \ {0}, len : Nat]
          /\ subs'.array <= Len(arrays') /\ subs'.len <= Len(arrays'[subs'.array])
      BY <1>1, <1>2, ShiftFacts
    <2>2. Registered' \subseteq Listeners BY <1>1, <1>3 DEF SliceOK
    <2> QED BY <1>1, <2>1, <2>2 DEF SliceOK, Shift, Capacity
  <1>5. ListenersOK'
    <2>1. lost' \subseteq Listeners
      <3>1. CASE phase = "send" /\ iter.array = subs.array
        <4>1. Ahead \subseteq Listeners BY <1>1, <3>1 DEF Ahead, RangeInv, EventOK
        <4>2. lost' = lost \union (Ahead \ {NoOne}) BY <3>1 DEF Shift
        <4> QED BY <1>1, <4>1, <4>2 DEF ListenersOK
      <3>2. CASE lost' = lost BY <1>1, <3>2 DEF ListenersOK
      <3> QED BY <3>1, <3>2 DEF Shift
    <2>2. stopper' \in [Listeners -> {"off", "wait", "shift", "ended"}]
      BY <1>1 DEF Shift, ListenersOK
    <2> QED BY <1>1, <2>1, <2>2 DEF ListenersOK, Shift, clientVars
  <1>6. EventOK' BY <1>1 DEF EventOK, Shift, eventVars
  <1>7. NilInv'
    <2>1. Len(arrays') = Len(arrays)
          /\ \A k \in 1..Len(arrays) : Len(arrays'[k]) = Len(arrays[k])
      BY <1>1, <1>2, ShiftFacts
    <2>2. 1 \in 1..Len(arrays)
      <3>1. arrays \in Seq(Seq(Listeners \union {NoOne})) BY <1>1 DEF SliceOK
      <3> QED BY <1>1, <3>1 DEF NilInv
    <2> QED BY <1>1, <2>1, <2>2 DEF NilInv
  <1>8. RangeInv'
    <2>1. \A k \in 1..Len(arrays) : /\ Len(arrays'[k]) = Len(arrays[k])
          /\ \A i \in 1..Len(arrays[k]) : arrays'[k][i] = arrays[k][i] \/ arrays'[k][i] \in Listeners
      <3>1. Registered \subseteq Listeners BY <1>1 DEF SliceOK
      <3> QED BY <1>1, <1>2, <3>1, ShiftFacts
    <2>2. Len(arrays') >= Len(arrays)
      <3>1. arrays \in Seq(Seq(Listeners \union {NoOne})) BY <1>1 DEF SliceOK
      <3>2. Len(arrays') = Len(arrays) /\ Len(arrays) \in Nat BY <1>1, <1>2, <3>1, ShiftFacts
      <3> QED BY <3>2
    <2> QED BY <1>1, <1>4, <2>1, <2>2, RangeKept DEF Shift, eventVars
  <1>9. PhaseInv' BY <1>1 DEF PhaseInv, Shift, eventVars
  <1>10. StopInv'
    BY <1>1, <1>2, <1>3, EventsAssumption DEF StopInv, Shift, ListenersOK, clientVars
  <1>11. SliceIsSet'
    <2>1. \A i, j \in 1..subs'.len : arrays'[subs'.array][i] = arrays'[subs'.array][j] => i = j
      BY <1>1, <1>2, ShiftFacts
    <2>2. stopper' = [stopper EXCEPT ![l] = "ended"] /\ conn' = conn
          /\ stopper \in [Listeners -> {"off", "wait", "shift", "ended"}]
      BY <1>1 DEF Shift, ListenersOK
    <2> QED BY <1>1, <1>2, <1>3, <2>1, <2>2 DEF SliceIsSet
  <1> QED BY <1>4, <1>5, <1>6, <1>7, <1>8, <1>9, <1>10, <1>11 DEF EventsInv, TypeOK

LEMMA CloseStep ==
  ASSUME EventsInv, Close
  PROVE  EventsInv'
  <1>1. SliceOK /\ ListenersOK /\ EventOK /\ NilInv /\ RangeInv /\ PhaseInv /\ StopInv
        /\ SliceIsSet
    BY DEF EventsInv, TypeOK
  <1>2. subs' = Nil /\ arrays' = arrays /\ conn' = "closed" /\ subsLock = NoOne BY DEF Close
  <1>3. Registered' = {} BY <1>2 DEF Registered, Elements, Nil
  <1>4. SliceOK'
    <2>1. Nil \in [array : Nat \ {0}, len : Nat] /\ Nil.array = 1 /\ Nil.len = 0 BY DEF Nil
    <2> QED BY <1>1, <1>2, <1>3, <2>1 DEF SliceOK, NilInv, Close, Capacity
  <1>5. ListenersOK'
    <2>1. done' \subseteq Listeners BY <1>1 DEF ListenersOK, SliceOK, Close
    <2> QED BY <1>1, <2>1 DEF ListenersOK, Close
  <1>6. EventOK' BY <1>1 DEF EventOK, Close, eventVars
  <1>7. NilInv' BY <1>1, <1>2 DEF NilInv
  <1>8. RangeInv' BY <1>1, <1>2 DEF RangeInv, Close, eventVars, Capacity
  <1>9. PhaseInv' BY <1>1 DEF PhaseInv, Close, eventVars
  <1>10. StopInv' BY <1>1, <1>2, EventsAssumption DEF StopInv, Close
  <1>11. SliceIsSet' BY <1>1, <1>2, <1>3 DEF SliceIsSet, Nil
  <1> QED BY <1>4, <1>5, <1>6, <1>7, <1>8, <1>9, <1>10, <1>11 DEF EventsInv, TypeOK

\* The actions that leave the slice alone.
LEMMA AskStatusStep ==
  ASSUME EventsInv, NEW l \in Listeners, AskStatus(l)
  PROVE  EventsInv'
  <1>1. /\ SliceOK /\ ListenersOK /\ EventOK
        /\ NilInv /\ RangeInv /\ PhaseInv /\ StopInv /\ SliceIsSet
    BY DEF EventsInv, TypeOK
  <1>2. UNCHANGED <<arrays, subs>> /\ Registered' = Registered
    BY DEF AskStatus, sliceVars, clientVars, eventVars, Registered, Elements
  <1>3. SliceOK' /\ NilInv'
    BY <1>1, <1>2 DEF SliceOK, NilInv, AskStatus, sliceVars, clientVars, eventVars, Capacity
  <1>4. ListenersOK'
    BY AskStatusTypes
  <1>5. EventOK'
    BY <1>1, EventsAssumption DEF EventOK, SliceOK, PhaseInv, AskStatus, sliceVars,
       clientVars, eventVars
  <1>6. RangeInv'
    BY <1>1, <1>2 DEF SliceOK, RangeInv, AskStatus, sliceVars, clientVars, eventVars,
       Capacity, EventOK, Registered, Elements
  <1>7. PhaseInv'
    BY <1>1, EventsAssumption DEF PhaseInv, AskStatus, sliceVars, clientVars, eventVars, EventOK
  <1>8. StopInv'
    BY <1>1, <1>2, EventsAssumption DEF StopInv, AskStatus, sliceVars, clientVars,
       eventVars, ListenersOK
  <1>9. SliceIsSet'
    BY <1>1, <1>2 DEF SliceIsSet, SliceOK, AskStatus, sliceVars, clientVars, eventVars,
       ListenersOK, StopInv
  <1> QED BY <1>3, <1>4, <1>5, <1>6, <1>7, <1>8, <1>9 DEF EventsInv, TypeOK

LEMMA AskErrorStep ==
  ASSUME EventsInv, NEW l \in Listeners, AskError(l)
  PROVE  EventsInv'
  <1>1. /\ SliceOK /\ ListenersOK /\ EventOK
        /\ NilInv /\ RangeInv /\ PhaseInv /\ StopInv /\ SliceIsSet
    BY DEF EventsInv, TypeOK
  <1>2. UNCHANGED <<arrays, subs>> /\ Registered' = Registered
    BY DEF AskError, sliceVars, clientVars, eventVars, Registered, Elements
  <1>3. SliceOK' /\ NilInv'
    BY <1>1, <1>2 DEF SliceOK, NilInv, AskError, sliceVars, clientVars, eventVars, Capacity
  <1>4. ListenersOK'
    BY AskErrorTypes
  <1>5. EventOK'
    BY <1>1, EventsAssumption DEF EventOK, SliceOK, PhaseInv, AskError, sliceVars,
       clientVars, eventVars
  <1>6. RangeInv'
    BY <1>1, <1>2 DEF SliceOK, RangeInv, AskError, sliceVars, clientVars, eventVars,
       Capacity, EventOK, Registered, Elements
  <1>7. PhaseInv'
    BY <1>1, EventsAssumption DEF PhaseInv, AskError, sliceVars, clientVars, eventVars, EventOK
  <1>8. StopInv'
    BY <1>1, <1>2, EventsAssumption DEF StopInv, AskError, sliceVars, clientVars,
       eventVars, ListenersOK
  <1>9. SliceIsSet'
    BY <1>1, <1>2 DEF SliceIsSet, SliceOK, AskError, sliceVars, clientVars, eventVars,
       ListenersOK, StopInv
  <1> QED BY <1>3, <1>4, <1>5, <1>6, <1>7, <1>8, <1>9 DEF EventsInv, TypeOK

LEMMA ReceiveStep ==
  ASSUME EventsInv, NEW l \in Listeners, Receive(l)
  PROVE  EventsInv'
  <1>1. /\ SliceOK /\ ListenersOK /\ EventOK
        /\ NilInv /\ RangeInv /\ PhaseInv /\ StopInv /\ SliceIsSet
    BY DEF EventsInv, TypeOK
  <1>2. UNCHANGED <<arrays, subs>> /\ Registered' = Registered
    BY DEF Receive, sliceVars, clientVars, eventVars, Registered, Elements
  <1>3. SliceOK' /\ NilInv'
    BY <1>1, <1>2 DEF SliceOK, NilInv, Receive, sliceVars, clientVars, eventVars, Capacity
  <1>4. ListenersOK'
    BY ReceiveTypes
  <1>5. EventOK'
    BY <1>1, EventsAssumption DEF EventOK, SliceOK, PhaseInv, Receive, sliceVars,
       clientVars, eventVars
  <1>6. RangeInv'
    BY <1>1, <1>2 DEF SliceOK, RangeInv, Receive, sliceVars, clientVars, eventVars,
       Capacity, EventOK, Registered, Elements
  <1>7. PhaseInv'
    BY <1>1, EventsAssumption DEF PhaseInv, Receive, sliceVars, clientVars, eventVars, EventOK
  <1>8. StopInv'
    BY <1>1, <1>2, EventsAssumption DEF StopInv, Receive, sliceVars, clientVars, eventVars,
       ListenersOK
  <1>9. SliceIsSet'
    BY <1>1, <1>2 DEF SliceIsSet, SliceOK, Receive, sliceVars, clientVars, eventVars,
       ListenersOK, StopInv
  <1> QED BY <1>3, <1>4, <1>5, <1>6, <1>7, <1>8, <1>9 DEF EventsInv, TypeOK

LEMMA ReceiveClosedStep ==
  ASSUME EventsInv, NEW l \in Listeners, ReceiveClosed(l)
  PROVE  EventsInv'
  <1>1. /\ SliceOK /\ ListenersOK /\ EventOK
        /\ NilInv /\ RangeInv /\ PhaseInv /\ StopInv /\ SliceIsSet
    BY DEF EventsInv, TypeOK
  <1>2. UNCHANGED <<arrays, subs>> /\ Registered' = Registered
    BY DEF ReceiveClosed, sliceVars, clientVars, eventVars, Registered, Elements
  <1>3. SliceOK' /\ NilInv'
    BY <1>1, <1>2 DEF SliceOK, NilInv, ReceiveClosed, sliceVars, clientVars, eventVars, Capacity
  <1>4. ListenersOK'
    BY <1>1, EventsAssumption DEF ListenersOK, EventOK, ReceiveClosed, sliceVars,
       clientVars, eventVars
  <1>5. EventOK'
    BY <1>1, EventsAssumption DEF EventOK, SliceOK, PhaseInv, ReceiveClosed, sliceVars,
       clientVars, eventVars
  <1>6. RangeInv'
    BY <1>1, <1>2 DEF SliceOK, RangeInv, ReceiveClosed, sliceVars, clientVars, eventVars,
       Capacity, EventOK, Registered, Elements
  <1>7. PhaseInv'
    BY <1>1, EventsAssumption DEF PhaseInv, ReceiveClosed, sliceVars, clientVars,
       eventVars, EventOK
  <1>8. StopInv'
    BY <1>1, <1>2, EventsAssumption DEF StopInv, ReceiveClosed, sliceVars, clientVars,
       eventVars, ListenersOK
  <1>9. SliceIsSet'
    BY <1>1, <1>2 DEF SliceIsSet, SliceOK, ReceiveClosed, sliceVars, clientVars, eventVars,
       ListenersOK, StopInv
  <1> QED BY <1>3, <1>4, <1>5, <1>6, <1>7, <1>8, <1>9 DEF EventsInv, TypeOK

LEMMA CancelStep ==
  ASSUME EventsInv, NEW l \in Listeners, Cancel(l)
  PROVE  EventsInv'
  <1>1. /\ SliceOK /\ ListenersOK /\ EventOK
        /\ NilInv /\ RangeInv /\ PhaseInv /\ StopInv /\ SliceIsSet
    BY DEF EventsInv, TypeOK
  <1>2. UNCHANGED <<arrays, subs>> /\ Registered' = Registered
    BY DEF Cancel, sliceVars, clientVars, eventVars, Registered, Elements
  <1>3. SliceOK' /\ NilInv'
    BY <1>1, <1>2 DEF SliceOK, NilInv, Cancel, sliceVars, clientVars, eventVars, Capacity
  <1>4. ListenersOK'
    BY <1>1, EventsAssumption DEF ListenersOK, EventOK, Cancel, sliceVars, clientVars, eventVars
  <1>5. EventOK'
    BY <1>1, EventsAssumption DEF EventOK, SliceOK, PhaseInv, Cancel, sliceVars,
       clientVars, eventVars
  <1>6. RangeInv'
    BY <1>1, <1>2 DEF SliceOK, RangeInv, Cancel, sliceVars, clientVars, eventVars,
       Capacity, EventOK, Registered, Elements
  <1>7. PhaseInv'
    BY <1>1, EventsAssumption DEF PhaseInv, Cancel, sliceVars, clientVars, eventVars, EventOK
  <1>8. StopInv'
    BY <1>1, <1>2, EventsAssumption DEF StopInv, Cancel, sliceVars, clientVars, eventVars,
       ListenersOK
  <1>9. SliceIsSet'
    BY <1>1, <1>2 DEF SliceIsSet, SliceOK, Cancel, sliceVars, clientVars, eventVars,
       ListenersOK, StopInv
  <1> QED BY <1>3, <1>4, <1>5, <1>6, <1>7, <1>8, <1>9 DEF EventsInv, TypeOK

LEMMA RemoveListenerStep ==
  ASSUME EventsInv, NEW l \in Listeners, RemoveListener(l)
  PROVE  EventsInv'
  <1>1. /\ SliceOK /\ ListenersOK /\ EventOK
        /\ NilInv /\ RangeInv /\ PhaseInv /\ StopInv /\ SliceIsSet
    BY DEF EventsInv, TypeOK
  <1>2. UNCHANGED <<arrays, subs>> /\ Registered' = Registered
    BY DEF RemoveListener, sliceVars, clientVars, eventVars, Registered, Elements
  <1>3. SliceOK' /\ NilInv'
    BY <1>1, <1>2 DEF SliceOK, NilInv, RemoveListener, sliceVars, clientVars, eventVars,
       Capacity
  <1>4. ListenersOK'
    BY RemoveListenerTypes
  <1>5. EventOK'
    BY <1>1, EventsAssumption DEF EventOK, SliceOK, PhaseInv, RemoveListener, sliceVars,
       clientVars, eventVars
  <1>6. RangeInv'
    BY <1>1, <1>2 DEF SliceOK, RangeInv, RemoveListener, sliceVars, clientVars, eventVars,
       Capacity, EventOK, Registered, Elements
  <1>7. PhaseInv'
    BY <1>1, EventsAssumption DEF PhaseInv, RemoveListener, sliceVars, clientVars,
       eventVars, EventOK
  <1>8. StopInv'
    BY <1>1, <1>2, EventsAssumption DEF StopInv, RemoveListener, sliceVars, clientVars,
       eventVars, ListenersOK
  <1>9. SliceIsSet'
    BY <1>1, <1>2, ZenonT(60) DEF SliceIsSet, SliceOK, RemoveListener, sliceVars, clientVars,
       eventVars, ListenersOK, StopInv
  <1> QED BY <1>3, <1>4, <1>5, <1>6, <1>7, <1>8, <1>9 DEF EventsInv, TypeOK

LEMMA EventStatusStep ==
  ASSUME EventsInv, EventStatus
  PROVE  EventsInv'
  <1>1. /\ SliceOK /\ ListenersOK /\ EventOK
        /\ NilInv /\ RangeInv /\ PhaseInv /\ StopInv /\ SliceIsSet
    BY DEF EventsInv, TypeOK
  <1>2. UNCHANGED <<arrays, subs>> /\ Registered' = Registered
    BY DEF EventStatus, sliceVars, clientVars, eventVars, Registered, Elements
  <1>3. SliceOK' /\ NilInv'
    BY <1>1, <1>2 DEF SliceOK, NilInv, EventStatus, sliceVars, clientVars, eventVars, Capacity
  <1>4. ListenersOK'
    BY <1>1, EventsAssumption DEF ListenersOK, EventOK, EventStatus, sliceVars, clientVars,
       eventVars
  <1>5. EventOK'
    BY <1>1, EventsAssumption DEF EventOK, SliceOK, PhaseInv, EventStatus, sliceVars,
       clientVars, eventVars
  <1>6. RangeInv'
    BY <1>1, <1>2 DEF SliceOK, RangeInv, EventStatus, sliceVars, clientVars, eventVars,
       Capacity, EventOK, Registered, Elements
  <1>7. PhaseInv'
    BY <1>1, EventsAssumption DEF PhaseInv, EventStatus, sliceVars, clientVars, eventVars,
       EventOK
  <1>8. StopInv'
    BY <1>1, <1>2, EventsAssumption DEF StopInv, EventStatus, sliceVars, clientVars,
       eventVars, ListenersOK
  <1>9. SliceIsSet'
    BY <1>1, <1>2 DEF SliceIsSet, SliceOK, EventStatus, sliceVars, clientVars, eventVars,
       ListenersOK, StopInv
  <1> QED BY <1>3, <1>4, <1>5, <1>6, <1>7, <1>8, <1>9 DEF EventsInv, TypeOK

LEMMA EventErrorStep ==
  ASSUME EventsInv, EventError
  PROVE  EventsInv'
  <1>1. /\ SliceOK /\ ListenersOK /\ EventOK
        /\ NilInv /\ RangeInv /\ PhaseInv /\ StopInv /\ SliceIsSet
    BY DEF EventsInv, TypeOK
  <1>2. UNCHANGED <<arrays, subs>> /\ Registered' = Registered
    BY DEF EventError, sliceVars, clientVars, eventVars, Registered, Elements
  <1>3. SliceOK' /\ NilInv'
    BY <1>1, <1>2 DEF SliceOK, NilInv, EventError, sliceVars, clientVars, eventVars, Capacity
  <1>4. ListenersOK'
    BY <1>1, EventsAssumption DEF ListenersOK, EventOK, EventError, sliceVars, clientVars,
       eventVars
  <1>5. EventOK'
    BY <1>1, EventsAssumption DEF EventOK, SliceOK, PhaseInv, EventError, sliceVars,
       clientVars, eventVars
  <1>6. RangeInv'
    BY <1>1, <1>2 DEF SliceOK, RangeInv, EventError, sliceVars, clientVars, eventVars,
       Capacity, EventOK, Registered, Elements
  <1>7. PhaseInv'
    BY <1>1, EventsAssumption DEF PhaseInv, EventError, sliceVars, clientVars, eventVars,
       EventOK
  <1>8. StopInv'
    BY <1>1, <1>2, EventsAssumption DEF StopInv, EventError, sliceVars, clientVars,
       eventVars, ListenersOK
  <1>9. SliceIsSet'
    BY <1>1, <1>2 DEF SliceIsSet, SliceOK, EventError, sliceVars, clientVars, eventVars,
       ListenersOK, StopInv
  <1> QED BY <1>3, <1>4, <1>5, <1>6, <1>7, <1>8, <1>9 DEF EventsInv, TypeOK

LEMMA EventRangeStep ==
  ASSUME EventsInv, EventRange
  PROVE  EventsInv'
  <1>1. /\ SliceOK /\ ListenersOK /\ EventOK
        /\ NilInv /\ RangeInv /\ PhaseInv /\ StopInv /\ SliceIsSet
    BY DEF EventsInv, TypeOK
  <1>2. UNCHANGED <<arrays, subs>> /\ Registered' = Registered
    BY DEF EventRange, sliceVars, clientVars, eventVars, Registered, Elements
  <1>3. SliceOK' /\ NilInv'
    BY <1>1, <1>2 DEF SliceOK, NilInv, EventRange, sliceVars, clientVars, eventVars, Capacity
  <1>4. ListenersOK'
    BY <1>1, EventsAssumption DEF ListenersOK, EventOK, EventRange, sliceVars, clientVars,
       eventVars
  <1>5. EventOK'
    BY <1>1, EventsAssumption DEF EventOK, SliceOK, PhaseInv, EventRange, sliceVars,
       clientVars, eventVars
  <1>6. RangeInv'
    BY <1>1, <1>2 DEF SliceOK, RangeInv, EventRange, sliceVars, clientVars, eventVars,
       Capacity, EventOK, Registered, Elements
  <1>7. PhaseInv'
    BY <1>1, EventsAssumption DEF PhaseInv, EventRange, sliceVars, clientVars, eventVars,
       EventOK
  <1>8. StopInv'
    BY <1>1, <1>2, EventsAssumption DEF StopInv, EventRange, sliceVars, clientVars,
       eventVars, ListenersOK
  <1>9. SliceIsSet'
    BY <1>1, <1>2 DEF SliceIsSet, SliceOK, EventRange, sliceVars, clientVars, eventVars,
       ListenersOK, StopInv
  <1> QED BY <1>3, <1>4, <1>5, <1>6, <1>7, <1>8, <1>9 DEF EventsInv, TypeOK

LEMMA EventSendStep ==
  ASSUME EventsInv, EventSend
  PROVE  EventsInv'
  <1>1. /\ SliceOK /\ ListenersOK /\ EventOK
        /\ NilInv /\ RangeInv /\ PhaseInv /\ StopInv /\ SliceIsSet
    BY DEF EventsInv, TypeOK
  <1>2. UNCHANGED <<arrays, subs>> /\ Registered' = Registered
    BY DEF EventSend, sliceVars, clientVars, eventVars, Registered, Elements
  <1>3. SliceOK' /\ NilInv'
    BY <1>1, <1>2 DEF SliceOK, NilInv, EventSend, sliceVars, clientVars, eventVars, Capacity
  <1>4. ListenersOK' /\ EventOK'
    BY EventSendTypes
  <1>6. RangeInv'
    BY <1>1, <1>2 DEF SliceOK, RangeInv, EventSend, sliceVars, clientVars, eventVars,
       Capacity, EventOK, Registered, Elements
  <1>7. PhaseInv'
    BY <1>1, EventsAssumption DEF PhaseInv, EventSend, sliceVars, clientVars, eventVars, EventOK
  <1>8. StopInv'
    BY <1>1, <1>2, EventsAssumption DEF StopInv, EventSend, sliceVars, clientVars,
       eventVars, ListenersOK
  <1>9. SliceIsSet'
    BY <1>1, <1>2 DEF SliceIsSet, SliceOK, EventSend, sliceVars, clientVars, eventVars,
       ListenersOK, StopInv
  <1> QED BY <1>3, <1>4, <1>6, <1>7, <1>8, <1>9 DEF EventsInv, TypeOK

LEMMA EventEndStep ==
  ASSUME EventsInv, EventEnd
  PROVE  EventsInv'
  <1>1. /\ SliceOK /\ ListenersOK /\ EventOK
        /\ NilInv /\ RangeInv /\ PhaseInv /\ StopInv /\ SliceIsSet
    BY DEF EventsInv, TypeOK
  <1>2. UNCHANGED <<arrays, subs>> /\ Registered' = Registered
    BY DEF EventEnd, sliceVars, clientVars, eventVars, Registered, Elements
  <1>3. SliceOK' /\ NilInv'
    BY <1>1, <1>2 DEF SliceOK, NilInv, EventEnd, sliceVars, clientVars, eventVars, Capacity
  <1>4. ListenersOK'
    BY <1>1, EventsAssumption DEF ListenersOK, EventOK, EventEnd, sliceVars, clientVars,
       eventVars
  <1>5. EventOK'
    BY <1>1, EventsAssumption DEF EventOK, SliceOK, PhaseInv, EventEnd, sliceVars,
       clientVars, eventVars
  <1>6. RangeInv'
    BY <1>1, <1>2 DEF SliceOK, RangeInv, EventEnd, sliceVars, clientVars, eventVars,
       Capacity, EventOK, Registered, Elements
  <1>7. PhaseInv'
    BY <1>1, EventsAssumption DEF PhaseInv, EventEnd, sliceVars, clientVars, eventVars, EventOK
  <1>8. StopInv'
    BY <1>1, <1>2, EventsAssumption DEF StopInv, EventEnd, sliceVars, clientVars,
       eventVars, ListenersOK
  <1>9. SliceIsSet'
    BY <1>1, <1>2 DEF SliceIsSet, SliceOK, EventEnd, sliceVars, clientVars, eventVars,
       ListenersOK, StopInv
  <1> QED BY <1>3, <1>4, <1>5, <1>6, <1>7, <1>8, <1>9 DEF EventsInv, TypeOK

-----------------------------------------------------------------------------
\* The invariant is inductive.
LEMMA EventsInvariant == ControlSpec => []EventsInv
  <1>1. Init => EventsInv
    <2> SUFFICES ASSUME Init PROVE EventsInv
      OBVIOUS
    <2>1. Registered = {}
      BY DEF Init, Registered, Elements, Nil
    <2>2. SliceOK /\ NilInv
      <3>1. <<>> \in Seq(Listeners \union {NoOne}) /\ Len(<<>>) = 0
        OBVIOUS
      <3>2. arrays = << <<>> >> /\ Len(arrays) = 1 /\ arrays[1] = <<>>
        BY DEF Init
      <3>3. arrays \in Seq(Seq(Listeners \union {NoOne}))
        BY <3>1, <3>2
      <3>4. subs = [array |-> 1, len |-> 0]
        BY DEF Init, Nil
      <3> QED BY <2>1, <3>1, <3>2, <3>3, <3>4 DEF Init, SliceOK, NilInv, Capacity
    <2>3. ListenersOK
      <3>1. 0 \in 0..MaxEvents /\ <<>> \in Seq(1..MaxEvents) /\ Len(<<>>) = 0 /\ 0 <= EvCap
        BY EventsAssumption
      <3> QED BY <3>1 DEF Init, ListenersOK
    <2>4. EventOK
      <3>1. 0 \in 0..MaxEvents /\ {nev, lastStatus, lastError} = {0}
        BY EventsAssumption DEF Init
      <3>2. iter \in [array : Nat \ {0}, len : Nat, next : Nat \ {0}]
        <4>1. 1 \in Nat \ {0} /\ 0 \in Nat
          OBVIOUS
        <4> QED BY <4>1 DEF Init
      <3>3. phase = "idle" /\ panicked = FALSE
        BY DEF Init
      <3> QED BY <3>1, <3>2, <3>3 DEF EventOK
    <2>5. RangeInv /\ PhaseInv /\ StopInv
      BY DEF Init, RangeInv, PhaseInv, StopInv
    <2>6. SliceIsSet
      BY <2>1 DEF Init, SliceIsSet, Nil
    <2> QED BY <2>2, <2>3, <2>4, <2>5, <2>6 DEF EventsInv, TypeOK
  <1>2. EventsInv /\ [Next]_vars => EventsInv'
    <2> SUFFICES ASSUME EventsInv, [Next]_vars PROVE EventsInv'
      OBVIOUS
    <2>1. ASSUME NEW l \in Listeners, Listen(l) PROVE EventsInv'
      BY <2>1, ObserveStep, AskStatusStep, AskErrorStep, ReceiveStep, ReceiveClosedStep DEF Listen
    <2>2. ASSUME NEW l \in Listeners, Cancel(l) PROVE EventsInv'
      BY <2>2, CancelStep
    <2>3. ASSUME NEW l \in Listeners, Stop(l) PROVE EventsInv'
      BY <2>3, RemoveListenerStep, ShiftStep DEF Stop
    <2>4. CASE Close
      BY <2>4, CloseStep
    <2>5. CASE EventStatus
      BY <2>5, EventStatusStep
    <2>6. CASE HandleEvent
      BY <2>6, EventErrorStep, EventRangeStep, EventSendStep, EventEndStep DEF HandleEvent
    <2>7. CASE UNCHANGED vars
      <3>1. /\ UNCHANGED <<arrays, subs, subsLock, conn, done, client, told, stopper, events>>
            /\ UNCHANGED <<closed, nev, lastStatus, lastError, phase, iter, lost, panicked>>
        BY <2>7 DEF vars, sliceVars, clientVars, eventVars
      <3>2. Registered' = Registered
        BY <3>1 DEF Registered, Elements
      <3>3. TypeOK'
        BY <3>1, <3>2 DEF EventsInv, TypeOK, SliceOK, ListenersOK, EventOK, Capacity
      <3>4. NilInv' /\ RangeInv' /\ PhaseInv'
        BY <3>1 DEF EventsInv, NilInv, RangeInv, PhaseInv, Capacity
      <3>5. StopInv' /\ SliceIsSet'
        BY <3>1, <3>2 DEF EventsInv, StopInv, SliceIsSet
      <3> QED BY <3>3, <3>4, <3>5 DEF EventsInv
    <2> QED BY <2>1, <2>2, <2>3, <2>4, <2>5, <2>6, <2>7 DEF Next
  <1> QED BY <1>1, <1>2, PTL DEF ControlSpec

\* The variables keep their types: in particular no channel holds more than EvCap
\* events and subs always lies within its array (nconn.go:22-38, 60-96).
THEOREM TypeCorrect == Spec => []TypeOK
  <1>1. EventsInv => TypeOK
    BY DEF EventsInv
  <1> QED BY <1>1, EventsInvariant, PTL DEF Spec

\* connectionEventsSubs is a set of the listeners that are not removed, for any
\* number of listeners and whatever append and removeListener overwrite
\* (nconn.go:29-38, 80-90).
THEOREM SliceStaysSet == Spec => []SliceIsSet
  <1>1. EventsInv => SliceIsSet
    BY DEF EventsInv
  <1> QED BY <1>1, EventsInvariant, PTL DEF Spec

\* Types and slice together, as the run checks them.
THEOREM ListenersStaySound == Spec => []ListenersSound
  <1> QED BY TypeCorrect, SliceStaysSet, PTL DEF ListenersSound

-----------------------------------------------------------------------------
(* What a listener that has caught up knows. *)

\* handleEvent has still to reach a listener with the latest event.
ToReach(l) == phase \in {"error", "range"} \/ (phase = "send" /\ l \in Ahead)

\* LastEvent answers with the latest event, but for its error while handleEvent
\* is between its two assignments.
LastInv == lastStatus = nev /\ (phase # "error" => lastError = nev)

\* Only a listener whose context is done is removed.
DoneInv ==
  /\ closed \subseteq done
  /\ \A l \in Listeners : stopper[l] \in {"shift", "ended"} => l \in done

\* Only a listener that has registered is ranged over or has events.
KnownInv ==
  /\ \A l \in Listeners : client[l] = "off" => events[l] = <<>>
  /\ phase = "send" => \A i \in 1..iter.len : client[arrays[iter.array][i]] # "off"

\* A slot beyond the slice that handleEvent has still to reach, which an append may
\* take, holds a listener that is counted as lost.
StaleInv ==
  (phase = "send" /\ conn = "open" /\ iter.array = subs.array) =>
    \A i \in iter.next..iter.len : i > subs.len => arrays[iter.array][i] \in lost

\* The last event in its channel, or what it knows if that is empty, is the
\* latest one.
UpToDate(l) ==
  IF events[l] = <<>>
    THEN /\ client[l] = "error" => told[l][1] = nev
         /\ client[l] = "receive" => told[l] = <<nev, nev>>
    ELSE events[l][Len(events[l])] = nev

LatestInv ==
  conn = "open" =>
    \A l \in Listeners \ (done \union lost) :
      client[l] # "off" /\ ~ToReach(l) => UpToDate(l)

KnowInv == LastInv /\ DoneInv /\ KnownInv /\ StaleInv /\ LatestInv

\* append writes one slot, the one after the slice, if not in a new array.
LEMMA AppendWhere ==
  ASSUME SliceOK, NilInv, NEW l \in Listeners, AppendSub(l),
         NEW k \in 1..Len(arrays), NEW i \in 1..Len(arrays[k]),
         k # subs.array \/ i # subs.len + 1
  PROVE  arrays'[k][i] = arrays[k][i]
  <1>1. /\ arrays \in Seq(Seq(Listeners \union {NoOne})) /\ subs \in [array : Nat \ {0}, len : Nat]
        /\ subs.array \in 1..Len(arrays)
    BY DEF SliceOK
  <1>2. arrays[subs.array] \in Seq(Listeners \union {NoOne})
    BY <1>1, ElementOf
  <1>3. CASE subs.len < Capacity(subs.array)
    BY <1>1, <1>2, <1>3 DEF AppendSub, Capacity
  <1>4. CASE ~(subs.len < Capacity(subs.array))
    <2> DEFINE b == [j \in 1..(IF subs.len = 0 THEN 1 ELSE 2 * subs.len) |->
                       IF j <= subs.len THEN arrays[subs.array][j]
                         ELSE IF j = subs.len + 1 THEN l ELSE NoOne]
    <2>1. arrays' = Append(arrays, b)
      BY <1>4 DEF AppendSub
    <2> HIDE DEF b
    <2> QED
      BY <1>1, <2>1
  <1> QED
    BY <1>3, <1>4

\* append leaves the slice where it is or gives it a new array.
LEMMA AppendArray ==
  ASSUME SliceOK, NEW l \in Listeners, AppendSub(l)
  PROVE  subs'.array = subs.array \/ subs'.array = Len(arrays) + 1
  <1>1. subs \in [array : Nat \ {0}, len : Nat]
    BY DEF SliceOK
  <1> QED
    BY <1>1 DEF AppendSub

\* A removal writes the array of the slice only, and there no slot from the last
\* one of the slice on.
LEMMA ShiftWhere ==
  ASSUME SliceOK, NEW l \in Registered, Shift(l), NEW k \in 1..Len(arrays)
  PROVE  /\ k # subs.array => arrays'[k] = arrays[k]
         /\ \A i \in 1..Len(arrays[k]) : i >= subs.len => arrays'[k][i] = arrays[k][i]
         /\ subs'.array = subs.array /\ subs'.len = subs.len - 1
  <1>1. /\ arrays \in Seq(Seq(Listeners \union {NoOne})) /\ subs \in [array : Nat \ {0}, len : Nat]
        /\ subs.array \in 1..Len(arrays)
    BY DEF SliceOK
  <1>2. arrays[subs.array] \in Seq(Listeners \union {NoOne})
    BY <1>1, ElementOf
  <1>3. arrays' = [arrays EXCEPT ![subs.array] = Without(l)] /\ subs' = [subs EXCEPT !.len = @ - 1]
    BY DEF Shift
  <1>4. \A i \in 1..Len(arrays[subs.array]) :
          i >= subs.len => Without(l)[i] = arrays[subs.array][i]
    BY <1>1, <1>2 DEF Without
  <1> HIDE DEF Without
  <1> QED
    BY <1>1, <1>3, <1>4

\* The types the steps below rest on.
LEMMA EventTypes ==
  ASSUME EventsInv
  PROVE  /\ SliceOK /\ EventOK /\ NilInv /\ RangeInv /\ StopInv /\ SliceIsSet
         /\ arrays \in Seq(Seq(Listeners \union {NoOne})) /\ Len(arrays) \in Nat
         /\ subs \in [array : Nat \ {0}, len : Nat] /\ subs.array \in 1..Len(arrays)
         /\ iter \in [array : Nat \ {0}, len : Nat, next : Nat \ {0}]
         /\ done \subseteq Listeners /\ closed \subseteq Listeners /\ lost \subseteq Listeners
         /\ stopper \in [Listeners -> {"off", "wait", "shift", "ended"}]
         /\ client \in [Listeners -> {"off", "status", "error", "receive", "ended"}]
         /\ told \in [Listeners -> (0..MaxEvents) \X (0..MaxEvents)]
         /\ events \in [Listeners -> Seq(1..MaxEvents)]
         /\ nev \in 0..MaxEvents /\ MaxEvents \in Nat
         /\ phase \in {"idle", "error", "range", "send"}
  <1>1. TypeOK /\ NilInv /\ RangeInv /\ StopInv /\ SliceIsSet
    BY DEF EventsInv
  <1>2. arrays \in Seq(Seq(Listeners \union {NoOne})) /\ Len(arrays) \in Nat
    BY <1>1 DEF TypeOK, SliceOK
  <1>3. subs \in [array : Nat \ {0}, len : Nat] /\ subs.array \in 1..Len(arrays)
    BY <1>1, <1>2 DEF TypeOK, SliceOK
  <1> QED
    BY <1>1, <1>2, <1>3, EventsAssumption DEF TypeOK, SliceOK, ListenersOK, EventOK

\* What is ranged over are slots of an array.
LEMMA RangeSlots ==
  ASSUME EventsInv, phase = "send"
  PROVE  /\ iter.array \in 1..Len(arrays)
         /\ \A i \in 1..iter.len :
              i \in 1..Len(arrays[iter.array]) /\ arrays[iter.array][i] \in Listeners
         /\ \A i \in iter.next..iter.len : i \in 1..iter.len
  <1>1. iter.array \in 1..Len(arrays)
    BY EventTypes DEF RangeInv
  <1>2. arrays[iter.array] \in Seq(Listeners \union {NoOne})
    BY <1>1, EventTypes, ElementOf
  <1> QED
    BY <1>1, <1>2, EventTypes DEF RangeInv, Capacity

\* The listeners of the slice have registered, and their contexts are watched.
LEMMA RegisteredKnown ==
  ASSUME EventsInv, NEW l \in Registered
  PROVE  l \in Listeners /\ client[l] # "off"
  BY EventTypes DEF SliceOK, SliceIsSet, StopInv

\* A pair with one component replaced has it.
LEMMA PairAt ==
  ASSUME NEW S, NEW q \in S \X S, NEW x \in S
  PROVE  [q EXCEPT ![1] = x][1] = x /\ [q EXCEPT ![2] = x] = <<q[1], x>>
  <1>1. PICK a \in S, b \in S : q = <<a, b>> OBVIOUS
  <1> QED BY <1>1

LEMMA NoneIsEmpty ==
  ASSUME NEW S, NEW s \in Seq(S), Len(s) = 0
  PROVE  s = <<>>
  OBVIOUS

LEMMA LastOfAppend ==
  ASSUME NEW S, NEW s \in Seq(S), NEW x \in S
  PROVE  Append(s, x) # <<>> /\ Append(s, x)[Len(Append(s, x))] = x
  OBVIOUS

\* The last of a channel is still its last when its first is taken, unless it was
\* the only one.
LEMMA TailLast ==
  ASSUME NEW S, NEW s \in Seq(S), s # <<>>
  PROVE  IF Tail(s) = <<>> THEN s[Len(s)] = Head(s) ELSE Tail(s)[Len(Tail(s))] = s[Len(s)]
  <1>1. Len(s) \in Nat \ {0} /\ Len(Tail(s)) = Len(s) - 1 /\ Head(s) = s[1]
    OBVIOUS
  <1>2. CASE Tail(s) = <<>>
    <2> DEFINE n == Len(s)
               m == Len(Tail(s))
    <2>1. m = 0
      <3>1. Len(<<>>) = 0 OBVIOUS
      <3> QED BY <1>2, <3>1
    <2>2. n \in Nat \ {0} /\ m = n - 1 BY <1>1
    <2>3. n = 1
      <3> HIDE DEF n, m
      <3> QED BY <2>1, <2>2
    <2> QED BY <1>1, <1>2, <2>3
  <1>3. CASE Tail(s) # <<>>
    <2>1. Len(Tail(s)) # 0
      <3>1. Tail(s) \in Seq(S) /\ (Len(Tail(s)) = 0 => Tail(s) = <<>>)
        BY HeadTail, NoneIsEmpty
      <3> QED BY <1>3, <3>1
    <2>2. \A i \in 1..Len(Tail(s)) : Tail(s)[i] = s[i + 1]
      OBVIOUS
    <2>3. Len(Tail(s)) \in 1..Len(Tail(s)) /\ Len(Tail(s)) + 1 = Len(s)
      BY <1>1, <2>1
    <2> QED BY <1>3, <2>2, <2>3
  <1> QED BY <1>2, <1>3

\* A step of one listener leaves the others what they know.
LEMMA OthersKnow ==
  ASSUME EventsInv, LatestInv, NEW l \in Listeners,
         UNCHANGED <<arrays, conn, lost, nev, phase, iter>>, done \subseteq done',
         \A m \in Listeners \ {l} :
           events'[m] = events[m] /\ told'[m] = told[m] /\ client'[m] = client[m],
         UpToDate(l) => UpToDate(l)', client[l] # "off"
  PROVE  LatestInv'
  <1> SUFFICES ASSUME conn = "open", NEW m \in Listeners, m \notin done', m \notin lost,
                      client'[m] # "off", ~ToReach(m)
               PROVE  UpToDate(m)'
    BY DEF LatestInv, ToReach, Ahead
  <1>1. UpToDate(m) \/ client[m] = "off"
    BY DEF LatestInv
  <1>2. CASE m = l
    BY <1>1, <1>2
  <1>3. CASE m # l
    BY <1>1, <1>3 DEF UpToDate
  <1> QED
    BY <1>2, <1>3

LEMMA ObserveKnows ==
  ASSUME EventsInv, KnowInv, NEW l \in Listeners, Observe(l)
  PROVE  KnowInv'
  <1> USE DEF sliceVars, clientVars, eventVars
  <1>1. LastInv /\ DoneInv /\ KnownInv /\ StaleInv /\ LatestInv
    BY DEF KnowInv
  <1>2. LastInv' /\ DoneInv'
    BY <1>1, EventTypes DEF LastInv, DoneInv, Observe
  <1>3. KnownInv'
    <2>1. \A m \in Listeners : client'[m] = "off" => events'[m] = <<>>
      BY <1>1, EventTypes DEF KnownInv, Observe
    <2>2. ASSUME phase = "send", NEW i \in 1..iter.len
          PROVE  client'[arrays'[iter.array][i]] # "off"
      <3>1. arrays'[iter.array][i] = arrays[iter.array][i] \/ arrays'[iter.array][i] = l
        <4>1. iter.array \in 1..Len(arrays) /\ i \in 1..Len(arrays[iter.array]) /\ AppendSub(l)
          BY <2>2, RangeSlots DEF Observe
        <4> QED
          BY <4>1, EventTypes, AppendFacts, ZenonT(60)
      <3>2. arrays[iter.array][i] \in Listeners /\ client[arrays[iter.array][i]] # "off"
        BY <1>1, <2>2, RangeSlots DEF KnownInv
      <3>3. client' = [client EXCEPT ![l] = "status"]
        BY DEF Observe
      <3>4. \A x \in Listeners : client'[x] = IF x = l THEN "status" ELSE client[x]
        BY <3>3, EventTypes
      <3> QED
        BY <3>1, <3>2, <3>4
    <2> QED
      BY <2>1, <2>2 DEF KnownInv, Observe
  <1>4. StaleInv'
    <2> SUFFICES ASSUME phase = "send", conn = "open", iter.array = subs'.array,
                        NEW i \in iter.next..iter.len, i > subs'.len
                 PROVE  arrays'[iter.array][i] \in lost
      BY DEF StaleInv, Observe
    <2>1. AppendSub(l)
      BY DEF Observe
    <2>2. iter.array \in 1..Len(arrays) /\ i \in 1..Len(arrays[iter.array])
      BY EventTypes, RangeSlots
    <2>3. subs'.array = subs.array
      BY <2>1, <2>2, EventTypes, AppendArray
    <2>4. subs'.len = subs.len + 1
      BY <2>1, EventTypes, AppendFacts
    <2>5. i # subs.len + 1 /\ i > subs.len
      BY <2>4, EventTypes
    <2>6. arrays'[iter.array][i] = arrays[iter.array][i]
      BY <2>1, <2>2, <2>5, EventTypes, AppendWhere
    <2> QED
      BY <1>1, <2>3, <2>5, <2>6 DEF StaleInv
  <1>5. LatestInv'
    <2> SUFFICES ASSUME conn = "open", NEW m \in Listeners, m \notin done, m \notin lost,
                        client'[m] # "off", ~ToReach(m)'
                 PROVE  UpToDate(m)'
      BY DEF LatestInv, Observe
    <2>1. CASE m = l
      BY <1>1, <2>1, EventTypes DEF KnownInv, UpToDate, Observe
    <2>2. CASE m # l
      <3>1. ~ToReach(m)
        <4> SUFFICES ASSUME phase = "send", NEW i \in iter.next..iter.len, arrays[iter.array][i] = m
                     PROVE  FALSE
          BY DEF ToReach, Ahead, Observe
        <4>1. arrays'[iter.array][i] # m
          BY DEF ToReach, Ahead, Observe
        <4>2. iter.array \in 1..Len(arrays) /\ i \in 1..Len(arrays[iter.array])
          BY EventTypes, RangeSlots
        <4>3. iter.array = subs.array /\ i = subs.len + 1
          BY <4>1, <4>2, EventTypes, AppendWhere DEF Observe
        <4>4. i > subs.len
          BY <4>3, EventTypes
        <4> QED
          BY <1>1, <4>3, <4>4 DEF StaleInv
      <3>2. UpToDate(m)
        BY <1>1, <2>2, <3>1, EventTypes DEF LatestInv, Observe
      <3> QED
        BY <2>2, <3>2, EventTypes DEF UpToDate, Observe
    <2> QED
      BY <2>1, <2>2
  <1> QED
    BY <1>2, <1>3, <1>4, <1>5 DEF KnowInv

LEMMA AskStatusKnows ==
  ASSUME EventsInv, KnowInv, NEW l \in Listeners, AskStatus(l)
  PROVE  KnowInv'
  <1> USE DEF sliceVars, clientVars, eventVars
  <1>1. LastInv /\ DoneInv /\ KnownInv /\ StaleInv /\ LatestInv
    BY DEF KnowInv
  <1>2. LastInv' /\ DoneInv'
    BY <1>1, EventTypes DEF LastInv, DoneInv, AskStatus
  <1>3. KnownInv'
    BY <1>1, EventTypes, RangeSlots DEF KnownInv, AskStatus
  <1>4. StaleInv'
    BY <1>1, EventTypes, RangeSlots DEF StaleInv, AskStatus
  <1>5. LatestInv'
    <2>1. told[l] \in (0..MaxEvents) \X (0..MaxEvents) /\ lastStatus = nev /\ nev \in 0..MaxEvents
      BY <1>1, EventTypes DEF LastInv
    <2>2. told'[l] = [told[l] EXCEPT ![1] = lastStatus] /\ client'[l] = "error"
      BY EventTypes DEF AskStatus
    <2>3. told'[l][1] = nev
      BY <2>1, <2>2, PairAt
    <2>4. UpToDate(l) => UpToDate(l)'
      BY <2>2, <2>3 DEF UpToDate, AskStatus
    <2> QED
      BY <1>1, <2>4, EventTypes, OthersKnow DEF AskStatus
  <1> QED
    BY <1>2, <1>3, <1>4, <1>5 DEF KnowInv

LEMMA AskErrorKnows ==
  ASSUME EventsInv, KnowInv, NEW l \in Listeners, AskError(l)
  PROVE  KnowInv'
  <1> USE DEF sliceVars, clientVars, eventVars
  <1>1. LastInv /\ DoneInv /\ KnownInv /\ StaleInv /\ LatestInv
    BY DEF KnowInv
  <1>2. LastInv' /\ DoneInv'
    BY <1>1, EventTypes DEF LastInv, DoneInv, AskError
  <1>3. KnownInv'
    BY <1>1, EventTypes, RangeSlots DEF KnownInv, AskError
  <1>4. StaleInv'
    BY <1>1, EventTypes, RangeSlots DEF StaleInv, AskError
  <1>5. LatestInv'
    <2> SUFFICES ASSUME conn = "open", NEW m \in Listeners, m \notin done, m \notin lost,
                        client'[m] # "off", ~ToReach(m)
                 PROVE  UpToDate(m)'
      BY DEF LatestInv, ToReach, Ahead, AskError
    <2>1. UpToDate(m)
      BY <1>1, EventTypes DEF LatestInv, AskError
    <2>2. CASE m = l
      <3>1. told[l] \in (0..MaxEvents) \X (0..MaxEvents) /\ lastError = nev /\ nev \in 0..MaxEvents
        BY <1>1, EventTypes DEF LastInv, ToReach
      <3>2. told'[l] = [told[l] EXCEPT ![2] = lastError] /\ client'[l] = "receive"
        BY EventTypes DEF AskError
      <3>3. told'[l] = <<told[l][1], nev>>
        BY <3>1, <3>2, PairAt
      <3> QED
        BY <2>1, <2>2, <3>2, <3>3 DEF UpToDate, AskError
    <2>3. CASE m # l
      BY <2>1, <2>3, EventTypes DEF UpToDate, AskError
    <2> QED
      BY <2>2, <2>3
  <1> QED
    BY <1>2, <1>3, <1>4, <1>5 DEF KnowInv

LEMMA ReceiveKnows ==
  ASSUME EventsInv, KnowInv, NEW l \in Listeners, Receive(l)
  PROVE  KnowInv'
  <1> USE DEF sliceVars, clientVars, eventVars
  <1>1. LastInv /\ DoneInv /\ KnownInv /\ StaleInv /\ LatestInv
    BY DEF KnowInv
  <1>2. LastInv' /\ DoneInv'
    BY <1>1, EventTypes DEF LastInv, DoneInv, Receive
  <1>3. KnownInv'
    BY <1>1, EventTypes, RangeSlots DEF KnownInv, Receive
  <1>4. StaleInv'
    BY <1>1, EventTypes, RangeSlots DEF StaleInv, Receive
  <1>5. LatestInv'
    <2>1. events[l] \in Seq(1..MaxEvents) /\ events[l] # <<>>
      BY EventTypes DEF Receive
    <2>2. /\ events'[l] = Tail(events[l]) /\ told'[l] = <<Head(events[l]), Head(events[l])>>
          /\ client'[l] = "receive"
      BY EventTypes DEF Receive
    <2>3. UpToDate(l) => UpToDate(l)'
      BY <2>1, <2>2, TailLast DEF UpToDate, Receive
    <2> QED
      BY <1>1, <2>3, EventTypes, OthersKnow DEF Receive
  <1> QED
    BY <1>2, <1>3, <1>4, <1>5 DEF KnowInv

LEMMA ReceiveClosedKnows ==
  ASSUME EventsInv, KnowInv, NEW l \in Listeners, ReceiveClosed(l)
  PROVE  KnowInv'
  <1> USE DEF sliceVars, clientVars, eventVars
  <1>1. LastInv /\ DoneInv /\ KnownInv /\ StaleInv /\ LatestInv
    BY DEF KnowInv
  <1>2. LastInv' /\ DoneInv'
    BY <1>1, EventTypes DEF LastInv, DoneInv, ReceiveClosed
  <1>3. KnownInv'
    BY <1>1, EventTypes, RangeSlots DEF KnownInv, ReceiveClosed
  <1>4. StaleInv'
    BY <1>1, EventTypes, RangeSlots DEF StaleInv, ReceiveClosed
  <1>5. LatestInv'
    <2>1. UpToDate(l) => UpToDate(l)'
      BY EventTypes DEF UpToDate, ReceiveClosed
    <2> QED
      BY <1>1, <2>1, EventTypes, OthersKnow DEF ReceiveClosed
  <1> QED
    BY <1>2, <1>3, <1>4, <1>5 DEF KnowInv

LEMMA CancelKnows ==
  ASSUME EventsInv, KnowInv, NEW l \in Listeners, Cancel(l)
  PROVE  KnowInv'
  <1> USE DEF sliceVars, clientVars, eventVars
  <1>1. LastInv /\ DoneInv /\ KnownInv /\ StaleInv /\ LatestInv
    BY DEF KnowInv
  <1>2. LastInv' /\ DoneInv'
    BY <1>1, EventTypes DEF LastInv, DoneInv, Cancel
  <1>3. KnownInv'
    BY <1>1, EventTypes, RangeSlots DEF KnownInv, Cancel
  <1>4. StaleInv'
    BY <1>1, EventTypes, RangeSlots DEF StaleInv, Cancel
  <1>5. LatestInv'
    BY <1>1, EventTypes, RangeSlots, SMTT(30) DEF LatestInv, UpToDate, ToReach, Ahead, Cancel
  <1> QED
    BY <1>2, <1>3, <1>4, <1>5 DEF KnowInv

LEMMA RemoveListenerKnows ==
  ASSUME EventsInv, KnowInv, NEW l \in Listeners, RemoveListener(l)
  PROVE  KnowInv'
  <1> USE DEF sliceVars, clientVars, eventVars
  <1>1. LastInv /\ DoneInv /\ KnownInv /\ StaleInv /\ LatestInv
    BY DEF KnowInv
  <1>2. LastInv' /\ DoneInv'
    BY <1>1, EventTypes DEF LastInv, DoneInv, RemoveListener
  <1>3. KnownInv'
    BY <1>1, EventTypes, RangeSlots DEF KnownInv, RemoveListener
  <1>4. StaleInv'
    BY <1>1, EventTypes, RangeSlots DEF StaleInv, RemoveListener
  <1>5. LatestInv'
    BY <1>1, EventTypes, RangeSlots DEF LatestInv, UpToDate, ToReach, Ahead, RemoveListener
  <1> QED
    BY <1>2, <1>3, <1>4, <1>5 DEF KnowInv

LEMMA ShiftKnows ==
  ASSUME EventsInv, KnowInv, NEW l \in Listeners, Shift(l)
  PROVE  KnowInv'
  <1> USE DEF sliceVars, clientVars, eventVars
  <1>0. l \in Registered
    BY EventTypes DEF StopInv, Shift
  <1>1. LastInv /\ DoneInv /\ KnownInv /\ StaleInv /\ LatestInv
    BY DEF KnowInv
  <1>2. LastInv' /\ DoneInv'
    BY <1>1, EventTypes DEF LastInv, DoneInv, Shift
  <1>3. KnownInv'
    <2>1. \A m \in Listeners : client'[m] = "off" => events'[m] = <<>>
      BY <1>1, EventTypes DEF KnownInv, Shift
    <2>2. ASSUME phase = "send", NEW i \in 1..iter.len
          PROVE  client'[arrays'[iter.array][i]] # "off"
      <3>1. arrays'[iter.array][i] = arrays[iter.array][i] \/ arrays'[iter.array][i] \in Registered
        BY <1>0, <2>2, EventTypes, RangeSlots, ShiftFacts
      <3>2. client[arrays[iter.array][i]] # "off"
        BY <1>1, <2>2 DEF KnownInv
      <3> QED
        BY <3>1, <3>2, RegisteredKnown DEF Shift
    <2> QED
      BY <2>1, <2>2 DEF KnownInv, Shift
  <1>4. StaleInv'
    <2> SUFFICES ASSUME phase = "send", conn = "open", iter.array = subs'.array,
                        NEW i \in iter.next..iter.len, i > subs'.len
                 PROVE  arrays'[iter.array][i] \in lost'
      BY DEF StaleInv, Shift
    <2>1. iter.array \in 1..Len(arrays) /\ i \in 1..Len(arrays[iter.array])
          /\ arrays[iter.array][i] \in Listeners
      BY EventTypes, RangeSlots
    <2>2. subs'.array = subs.array /\ subs'.len = subs.len - 1
      BY <1>0, <2>1, EventTypes, ShiftWhere
    <2>3. i >= subs.len
      BY <2>2, EventTypes
    <2>4. arrays'[iter.array][i] = arrays[iter.array][i]
      BY <1>0, <2>1, <2>3, EventTypes, ShiftWhere
    <2>5. arrays[iter.array][i] \in Ahead \ {NoOne}
      BY <2>1, EventsAssumption DEF Ahead
    <2> QED
      BY <2>2, <2>4, <2>5 DEF Shift
  <1>5. LatestInv'
    <2> SUFFICES ASSUME conn = "open", NEW m \in Listeners, m \notin done, m \notin lost',
                        client[m] # "off", ~ToReach(m)'
                 PROVE  UpToDate(m)
      BY DEF LatestInv, UpToDate, Shift
    <2>1. m \notin lost
      BY DEF Shift
    <2>2. ~ToReach(m)
      <3> SUFFICES ASSUME phase = "send", m \in Ahead
                   PROVE  FALSE
        BY DEF ToReach, Shift
      <3>1. CASE iter.array = subs.array
        BY <3>1, EventsAssumption DEF Shift
      <3>2. CASE iter.array # subs.array
        <4>1. arrays'[iter.array] = arrays[iter.array]
          BY <1>0, <3>2, EventTypes, RangeSlots, ShiftWhere
        <4> QED
          BY <4>1 DEF ToReach, Ahead, Shift
      <3> QED
        BY <3>1, <3>2
    <2> QED
      BY <1>1, <2>1, <2>2 DEF LatestInv
  <1> QED
    BY <1>2, <1>3, <1>4, <1>5 DEF KnowInv

LEMMA CloseKnows ==
  ASSUME EventsInv, KnowInv, Close
  PROVE  KnowInv'
  <1> USE DEF sliceVars, clientVars, eventVars
  <1>1. LastInv /\ DoneInv /\ KnownInv /\ StaleInv /\ LatestInv
    BY DEF KnowInv
  <1>2. LastInv' /\ DoneInv'
    BY <1>1, EventTypes DEF LastInv, DoneInv, Close
  <1>3. KnownInv'
    BY <1>1, EventTypes, RangeSlots DEF KnownInv, Close
  <1>4. StaleInv'
    BY <1>1, EventTypes, RangeSlots DEF StaleInv, Close
  <1>5. LatestInv'
    BY <1>1, EventTypes, RangeSlots DEF LatestInv, UpToDate, ToReach, Ahead, Close
  <1> QED
    BY <1>2, <1>3, <1>4, <1>5 DEF KnowInv

LEMMA EventStatusKnows ==
  ASSUME EventsInv, KnowInv, EventStatus
  PROVE  KnowInv'
  <1> USE DEF sliceVars, clientVars, eventVars
  <1>1. LastInv /\ DoneInv /\ KnownInv /\ StaleInv /\ LatestInv
    BY DEF KnowInv
  <1>2. LastInv' /\ DoneInv'
    BY <1>1, EventTypes DEF LastInv, DoneInv, EventStatus
  <1>3. KnownInv'
    BY <1>1, EventTypes, RangeSlots DEF KnownInv, EventStatus
  <1>4. StaleInv'
    BY <1>1, EventTypes, RangeSlots DEF StaleInv, EventStatus
  <1>5. LatestInv'
    BY <1>1, EventTypes, RangeSlots DEF LatestInv, UpToDate, ToReach, Ahead, EventStatus
  <1> QED
    BY <1>2, <1>3, <1>4, <1>5 DEF KnowInv

LEMMA EventErrorKnows ==
  ASSUME EventsInv, KnowInv, EventError
  PROVE  KnowInv'
  <1> USE DEF sliceVars, clientVars, eventVars
  <1>1. LastInv /\ DoneInv /\ KnownInv /\ StaleInv /\ LatestInv
    BY DEF KnowInv
  <1>2. LastInv' /\ DoneInv'
    BY <1>1, EventTypes DEF LastInv, DoneInv, EventError
  <1>3. KnownInv'
    BY <1>1, EventTypes, RangeSlots DEF KnownInv, EventError
  <1>4. StaleInv'
    BY <1>1, EventTypes, RangeSlots DEF StaleInv, EventError
  <1>5. LatestInv'
    BY <1>1, EventTypes, RangeSlots DEF LatestInv, UpToDate, ToReach, Ahead, EventError
  <1> QED
    BY <1>2, <1>3, <1>4, <1>5 DEF KnowInv

LEMMA EventRangeKnows ==
  ASSUME EventsInv, KnowInv, EventRange
  PROVE  KnowInv'
  <1> USE DEF sliceVars, clientVars, eventVars
  <1>1. LastInv /\ DoneInv /\ KnownInv /\ StaleInv /\ LatestInv
    BY DEF KnowInv
  <1>2. LastInv' /\ DoneInv'
    BY <1>1, EventTypes DEF LastInv, DoneInv, EventRange
  <1>3. KnownInv'
    <2>1. \A i \in 1..subs.len : arrays[subs.array][i] \in Registered
      BY DEF Registered, Elements
    <2>2. \A i \in 1..subs.len : client[arrays[subs.array][i]] # "off"
      BY <2>1, RegisteredKnown
    <2> QED
      BY <1>1, <2>2, EventTypes DEF KnownInv, EventRange
  <1>4. StaleInv'
    BY <1>1, EventTypes, RangeSlots DEF StaleInv, EventRange
  <1>5. LatestInv'
    <2> SUFFICES ASSUME conn = "open", NEW m \in Listeners, m \notin done, client[m] # "off"
                 PROVE  ToReach(m)'
      BY DEF LatestInv, EventRange
    <2>1. m \in Registered
      BY <1>1, EventTypes DEF DoneInv, SliceIsSet, StopInv
    <2>2. Ahead' = Registered
      BY EventTypes DEF Ahead, Registered, Elements, EventRange
    <2> QED
      BY <2>1, <2>2 DEF ToReach, EventRange
  <1> QED
    BY <1>2, <1>3, <1>4, <1>5 DEF KnowInv

LEMMA EventSendKnows ==
  ASSUME EventsInv, KnowInv, EventSend
  PROVE  KnowInv'
  <1> USE DEF sliceVars, clientVars, eventVars
  <1>1. LastInv /\ DoneInv /\ KnownInv /\ StaleInv /\ LatestInv
    BY DEF KnowInv
  <1>2. LastInv' /\ DoneInv'
    BY <1>1, EventTypes DEF LastInv, DoneInv, EventSend
  <1>3. KnownInv'
    <2> DEFINE l == arrays[iter.array][iter.next]
    <2>1. l \in Listeners /\ client[l] # "off"
      BY <1>1, EventTypes, RangeSlots DEF KnownInv, EventSend
    <2>2. \A m \in Listeners \ {l} : events'[m] = events[m]
      BY EventTypes DEF EventSend
    <2> HIDE DEF l
    <2> QED
      BY <1>1, <2>1, <2>2, EventTypes DEF KnownInv, EventSend
  <1>4. StaleInv'
    BY <1>1, EventTypes, RangeSlots DEF StaleInv, EventSend
  <1>5. LatestInv'
    <2> DEFINE l == arrays[iter.array][iter.next]
    <2>1. l \in Listeners /\ phase = "send" /\ iter'.next = iter.next + 1
      BY <1>1, EventTypes, RangeSlots DEF EventSend
    <2> SUFFICES ASSUME conn = "open", NEW m \in Listeners, m \notin done, m \notin lost',
                        client[m] # "off", ~ToReach(m)'
                 PROVE  UpToDate(m)'
      BY DEF LatestInv, EventSend
    <2>2. CASE m # l
      <3>1. m \notin lost /\ events'[m] = events[m]
        BY <2>2, EventTypes DEF EventSend
      <3>2. ~ToReach(m)
        <4> SUFFICES ASSUME NEW i \in iter.next..iter.len, arrays[iter.array][i] = m
                     PROVE  m \in Ahead'
          BY <2>1 DEF ToReach, Ahead, EventSend
        <4>1. i # iter.next
          BY <2>2
        <4>2. i \in (iter.next + 1)..iter.len
          BY <4>1, EventTypes
        <4>3. iter'.next = iter.next + 1 /\ iter'.len = iter.len /\ iter'.array = iter.array
          BY EventTypes DEF EventSend
        <4> QED
          BY <4>2, <4>3 DEF Ahead, EventSend
      <3> QED
        BY <1>1, <3>1, <3>2 DEF LatestInv, UpToDate, EventSend
    <2>3. CASE m = l
      <3>1. l \notin closed
        BY <1>1, <2>3 DEF DoneInv
      <3>2. events'[l] = Append(events[l], nev)
        BY <2>1, <2>3, <3>1, EventTypes DEF EventSend
      <3>3. nev \in 1..MaxEvents
        BY <2>1 DEF EventsInv, PhaseInv
      <3>4. events'[l] # <<>> /\ events'[l][Len(events'[l])] = nev
        <4>1. events[l] \in Seq(1..MaxEvents)
          BY <2>1, EventTypes
        <4> HIDE DEF l
        <4> QED
          BY <3>2, <3>3, <4>1, LastOfAppend
      <3> QED
        BY <2>3, <3>4 DEF UpToDate, EventSend
    <2> QED
      BY <2>2, <2>3
  <1> QED
    BY <1>2, <1>3, <1>4, <1>5 DEF KnowInv

LEMMA EventEndKnows ==
  ASSUME EventsInv, KnowInv, EventEnd
  PROVE  KnowInv'
  <1> USE DEF sliceVars, clientVars, eventVars
  <1>1. LastInv /\ DoneInv /\ KnownInv /\ StaleInv /\ LatestInv
    BY DEF KnowInv
  <1>2. LastInv' /\ DoneInv'
    BY <1>1, EventTypes DEF LastInv, DoneInv, EventEnd
  <1>3. KnownInv'
    BY <1>1, EventTypes, RangeSlots DEF KnownInv, EventEnd
  <1>4. StaleInv'
    BY <1>1, EventTypes, RangeSlots DEF StaleInv, EventEnd
  <1>5. LatestInv'
    BY <1>1, EventTypes, RangeSlots DEF LatestInv, UpToDate, ToReach, Ahead, EventEnd
  <1> QED
    BY <1>2, <1>3, <1>4, <1>5 DEF KnowInv

LEMMA KnowInvariant == ControlSpec => []KnowInv
  <1>1. Init => KnowInv
    BY DEF Init, KnowInv, LastInv, DoneInv, KnownInv, StaleInv, LatestInv
  <1>2. EventsInv /\ KnowInv /\ [Next]_vars => KnowInv'
    <2> SUFFICES ASSUME EventsInv, KnowInv, [Next]_vars
                 PROVE  KnowInv'
      OBVIOUS
    <2>1. ASSUME NEW l \in Listeners, Listen(l) \/ Cancel(l) \/ Stop(l)
          PROVE  KnowInv'
      BY <2>1, ObserveKnows, AskStatusKnows, AskErrorKnows, ReceiveKnows, ReceiveClosedKnows,
         CancelKnows, RemoveListenerKnows, ShiftKnows
      DEF Listen, Stop
    <2>2. CASE Close \/ EventStatus \/ HandleEvent
      BY <2>2, CloseKnows, EventStatusKnows, EventErrorKnows, EventRangeKnows, EventSendKnows,
         EventEndKnows
      DEF HandleEvent
    <2>3. CASE UNCHANGED vars
      BY <2>3 DEF vars, sliceVars, clientVars, eventVars, KnowInv, LastInv, DoneInv, KnownInv,
                  StaleInv, LatestInv, UpToDate, ToReach, Ahead
    <2> QED
      BY <2>1, <2>2, <2>3 DEF Next
  <1> QED
    BY <1>1, <1>2, EventsInvariant, PTL DEF ControlSpec

\* A listener that has caught up knows status and error of the latest event,
\* whenever it registered and whatever removals did to the array it is in, unless
\* it lost that event (hub.go:212-232, nconn.go:60-90).
THEOREM CaughtUpKnowsLatest == Spec => []KnowsLatest
  <1>1. KnowInv => KnowsLatest
    BY DEF KnowInv, LatestInv, UpToDate, ToReach, KnowsLatest
  <1> QED
    BY <1>1, KnowInvariant, PTL DEF Spec
=============================================================================
