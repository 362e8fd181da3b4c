--------------------------- MODULE NatsConnEvents ---------------------------
(***************************************************************************)
(* The connection status events of a NatsConn.  The NATS client calls      *)
(* handleEvent, which ranges over the slice connectionEventsSubs under one *)
(* mutex; ObserveConnectionEvents, removeListener and Close change that    *)
(* slice under another.  So the slice is modelled as Go has it: a header   *)
(* (array and length) over backing arrays that append and removeListener   *)
(* write in place, while handleEvent goes on with the header it has read.  *)
(*                                                                         *)
(* The listeners are the HandleConnectionEvents goroutines of the hub: each *)
(* observes the connection and then asks for its last event.               *)
(***************************************************************************)
EXTENDS Naturals, Sequences

CONSTANTS
  Listeners,
  NoOne,      \* no listener, an empty slot
  MaxEvents,  \* bound: events of the NATS client
  EvCap       \* capacity of a listener's channel (5 in the code)

ASSUME EventsAssumption ==
  NoOne \notin Listeners /\ MaxEvents \in Nat /\ EvCap \in Nat \ {0}

VARIABLES
  arrays,     \* the backing arrays allocated so far; the first is nil's
  subs,       \* connectionEventsSubs: [array, len]
  subsLock,   \* the holder of subsMutex
  conn,       \* whether Close has run
  done,       \* the listeners whose context is done
  stopper,    \* listenForStop
  events,     \* the listeners' channels
  closed,     \* those that are closed
  client,     \* HandleConnectionEvents
  told,       \* the event whose status and the event whose error it knows
  nev,        \* events so far: an event is its number, 0 the state at start
  lastStatus, lastError,
  phase,      \* where handleEvent is
  iter,       \* what it ranges over: [array, len, next]
  lost,       \* history: listeners the latest event may not have reached
  panicked    \* a send on a closed channel has ended the process

sliceVars  == <<arrays, subs, subsLock, conn>>
clientVars == <<done, client, told>>
eventVars  == <<nev, lastStatus, lastError, phase, iter>>
vars == <<sliceVars, clientVars, stopper, events, closed, eventVars, lost, panicked>>

-----------------------------------------------------------------------------
Capacity(a) == Len(arrays[a])
Elements(a, n) == {arrays[a][i] : i \in 1..n}
Registered == Elements(subs.array, subs.len)
Nil == [array |-> 1, len |-> 0]

Init ==
  /\ arrays   = << <<>> >>
  /\ subs     = Nil
  /\ subsLock = NoOne
  /\ conn     = "open"
  /\ done     = {}
  /\ stopper  = [l \in Listeners |-> "off"]
  /\ events   = [l \in Listeners |-> <<>>]
  /\ closed   = {}
  /\ client   = [l \in Listeners |-> "off"]
  /\ told     = [l \in Listeners |-> <<0, 0>>]
  /\ nev = 0 /\ lastStatus = 0 /\ lastError = 0
  /\ phase    = "idle"
  /\ iter     = [array |-> 1, len |-> 0, next |-> 1]
  /\ lost     = {}
  /\ panicked = FALSE

-----------------------------------------------------------------------------
(* The listeners. *)

\* append: in place while there is room, else in a new array of twice the size
\* (of one for the first element), whose free slots are empty.
AppendSub(l) ==
  LET a == subs.array
      n == subs.len
  IN IF n < Capacity(a)
       THEN /\ arrays' = [arrays EXCEPT ![a][n + 1] = l]
            /\ subs'   = [subs EXCEPT !.len = n + 1]
       ELSE /\ arrays' = Append(arrays,
                [i \in 1..(IF n = 0 THEN 1 ELSE 2 * n) |->
                   IF i <= n THEN arrays[a][i] ELSE IF i = n + 1 THEN l ELSE NoOne])
            /\ subs'   = [array |-> Len(arrays) + 1, len |-> n + 1]

Observe(l) ==
  /\ client[l] = "off"
  /\ subsLock = NoOne
  /\ AppendSub(l)
  /\ stopper' = [stopper EXCEPT ![l] = "wait"]
  /\ client'  = [client EXCEPT ![l] = "status"]
  /\ UNCHANGED <<subsLock, conn, done, told, events, closed, eventVars, lost, panicked>>

\* LastEvent reads two fields that handleEvent may be writing.
AskStatus(l) ==
  /\ client[l] = "status"
  /\ told'   = [told EXCEPT ![l][1] = lastStatus]
  /\ client' = [client EXCEPT ![l] = "error"]
  /\ UNCHANGED <<sliceVars, done, stopper, events, closed, eventVars, lost, panicked>>

AskError(l) ==
  /\ client[l] = "error"
  /\ told'   = [told EXCEPT ![l][2] = lastError]
  /\ client' = [client EXCEPT ![l] = "receive"]
  /\ UNCHANGED <<sliceVars, done, stopper, events, closed, eventVars, lost, panicked>>

Receive(l) ==
  /\ client[l] = "receive" /\ events[l] # <<>>
  /\ told'   = [told EXCEPT ![l] = <<Head(events[l]), Head(events[l])>>]
  /\ events' = [events EXCEPT ![l] = Tail(@)]
  /\ UNCHANGED <<sliceVars, done, client, stopper, closed, eventVars, lost, panicked>>

ReceiveClosed(l) ==
  /\ client[l] = "receive" /\ events[l] = <<>> /\ l \in closed
  /\ client' = [client EXCEPT ![l] = "ended"]
  /\ UNCHANGED <<sliceVars, done, told, stopper, events, closed, eventVars, lost, panicked>>

\* The websocket's context ends, before or after the listener registers.
Cancel(l) ==
  /\ l \notin done
  /\ done' = done \union {l}
  /\ UNCHANGED <<sliceVars, client, told, stopper, events, closed, eventVars, lost, panicked>>

-----------------------------------------------------------------------------
(* listenForStop and removeListener. *)

RemoveListener(l) ==
  /\ stopper[l] = "wait" /\ l \in done
  /\ subsLock = NoOne
  /\ IF l \in Registered
       THEN /\ closed'   = closed \union {l}
            /\ subsLock' = l
            /\ stopper'  = [stopper EXCEPT ![l] = "shift"]
       ELSE /\ stopper' = [stopper EXCEPT ![l] = "ended"]
            /\ UNCHANGED <<closed, subsLock>>
  /\ UNCHANGED <<arrays, subs, conn, clientVars, events, eventVars, lost, panicked>>

\* append(subs[:i], subs[i+1:]...) moves what follows the listener one down, in
\* the array itself; the last slot keeps what it had.
Without(l) ==
  LET a == arrays[subs.array]
      p == CHOOSE i \in 1..subs.len : a[i] = l
  IN [i \in DOMAIN a |-> IF i >= p /\ i < subs.len THEN a[i + 1] ELSE a[i]]

\* Those handleEvent has still to reach.  A shift of the array it ranges over
\* may move one of them behind it, and an append then takes the slot it left.
Ahead == {arrays[iter.array][i] : i \in iter.next .. iter.len}

\* Mutants: the length stays; the lock stays.
Shift_KeepsLength(l) ==
  /\ stopper[l] = "shift"
  /\ arrays' = [arrays EXCEPT ![subs.array] = Without(l)]
  /\ subsLock' = NoOne /\ stopper' = [stopper EXCEPT ![l] = "ended"]
  /\ UNCHANGED <<subs, conn, clientVars, events, closed, eventVars, lost, panicked>>

Shift_KeepsLock(l) ==
  /\ stopper[l] = "shift"
  /\ arrays' = [arrays EXCEPT ![subs.array] = Without(l)]
  /\ subs' = [subs EXCEPT !.len = @ - 1] /\ stopper' = [stopper EXCEPT ![l] = "ended"]
  /\ UNCHANGED <<subsLock, conn, clientVars, events, closed, eventVars, lost, panicked>>

Shift(l) ==
  /\ stopper[l] = "shift"
  /\ arrays'   = [arrays EXCEPT ![subs.array] = Without(l)]
  /\ subs'     = [subs EXCEPT !.len = @ - 1]
  /\ subsLock' = NoOne
  /\ stopper'  = [stopper EXCEPT ![l] = "ended"]
  /\ lost' = IF phase = "send" /\ iter.array = subs.array
               THEN lost \union (Ahead \ {NoOne}) ELSE lost
  /\ UNCHANGED <<conn, clientVars, events, closed, eventVars, panicked>>

\* Refresh or Purge closes the connection, perhaps a second time: the
\* listeners are stopped and forgotten, so removeListener will not find them.
Close ==
  /\ subsLock = NoOne
  /\ conn' = "closed"
  /\ done' = done \union Registered
  /\ subs' = Nil
  /\ UNCHANGED <<arrays, subsLock, client, told, stopper, events, closed, eventVars, lost,
                 panicked>>

-----------------------------------------------------------------------------
(* handleEvent, under eventHandleMutex. *)

EventStatus ==
  /\ phase = "idle" /\ nev < MaxEvents
  /\ nev' = nev + 1
  /\ lastStatus' = nev + 1
  /\ phase' = "error"
  /\ UNCHANGED <<sliceVars, clientVars, stopper, events, closed, lastError, iter, lost,
                 panicked>>

\* Mutant: an event without an error leaves the earlier one.
EventError_Kept ==
  /\ phase = "error"
  /\ lastError' \in {lastError, nev}
  /\ phase' = "range"
  /\ UNCHANGED <<sliceVars, clientVars, stopper, events, closed, nev, lastStatus, iter, lost,
                 panicked>>

EventError ==
  /\ phase = "error"
  /\ lastError' = nev
  /\ phase' = "range"
  /\ UNCHANGED <<sliceVars, clientVars, stopper, events, closed, nev, lastStatus, iter, lost,
                 panicked>>

\* range evaluates the slice once.
EventRange ==
  /\ phase = "range"
  /\ iter'  = [array |-> subs.array, len |-> subs.len, next |-> 1]
  /\ lost'  = {}
  /\ phase' = "send"
  /\ UNCHANGED <<sliceVars, clientVars, stopper, events, closed, nev, lastStatus, lastError,
                 panicked>>

EventSend ==
  /\ phase = "send" /\ iter.next <= iter.len
  /\ LET l == arrays[iter.array][iter.next] IN
       IF l \in closed
         THEN /\ panicked' = TRUE
              /\ UNCHANGED <<events, lost>>
         ELSE /\ events' = [events EXCEPT ![l] = IF Len(@) < EvCap THEN Append(@, nev) ELSE @]
              /\ lost' = IF Len(events[l]) < EvCap THEN lost ELSE lost \union {l}
              /\ UNCHANGED panicked
  /\ iter' = [iter EXCEPT !.next = @ + 1]
  /\ UNCHANGED <<sliceVars, clientVars, stopper, closed, nev, lastStatus, lastError, phase>>

EventEnd ==
  /\ phase = "send" /\ iter.next > iter.len
  /\ phase' = "idle"
  /\ UNCHANGED <<sliceVars, clientVars, stopper, events, closed, nev, lastStatus, lastError,
                 iter, lost, panicked>>

-----------------------------------------------------------------------------
Listen(l) == Observe(l) \/ AskStatus(l) \/ AskError(l) \/ Receive(l) \/ ReceiveClosed(l)
Stop(l) == RemoveListener(l) \/ Shift(l)
HandleEvent == EventError \/ EventRange \/ EventSend \/ EventEnd

Next ==
  /\ ~panicked
  /\ \/ \E l \in Listeners : Listen(l) \/ Cancel(l) \/ Stop(l)
     \/ Close
     \/ EventStatus \/ HandleEvent

(***************************************************************************)
(* Fairness: goroutines run, and one that waits for subsMutex gets it.     *)
(* The NATS client owes no event, a context need not end.                  *)
(***************************************************************************)
Fairness ==
  /\ WF_vars(~panicked /\ HandleEvent)
  /\ \A l \in Listeners :
       /\ SF_vars(~panicked /\ Stop(l))
       /\ WF_vars(~panicked /\ (AskStatus(l) \/ AskError(l) \/ Receive(l) \/ ReceiveClosed(l)))

ControlSpec == Init /\ [][Next]_vars
Spec == ControlSpec /\ Fairness

-----------------------------------------------------------------------------
(* Properties. *)

SliceOK ==
  /\ arrays \in Seq(Seq(Listeners \union {NoOne}))
  /\ subs \in [array : Nat \ {0}, len : Nat]
  /\ subs.array <= Len(arrays) /\ subs.len <= Capacity(subs.array)
  /\ Registered \subseteq Listeners
  /\ subsLock \in Listeners \union {NoOne}
  /\ conn \in {"open", "closed"}

ListenersOK ==
  /\ done \subseteq Listeners /\ closed \subseteq Listeners /\ lost \subseteq Listeners
  /\ stopper \in [Listeners -> {"off", "wait", "shift", "ended"}]
  /\ events \in [Listeners -> Seq(1..MaxEvents)]
  /\ \A l \in Listeners : Len(events[l]) <= EvCap
  /\ client \in [Listeners -> {"off", "status", "error", "receive", "ended"}]
  /\ told \in [Listeners -> (0..MaxEvents) \X (0..MaxEvents)]

EventOK ==
  /\ {nev, lastStatus, lastError} \subseteq 0..MaxEvents
  /\ phase \in {"idle", "error", "range", "send"}
  /\ iter \in [array : Nat \ {0}, len : Nat, next : Nat \ {0}]
  /\ panicked \in BOOLEAN

\* The variables keep their types; a buffer never holds more than EvCap events.
TypeOK == SliceOK /\ ListenersOK /\ EventOK

\* In-place appends and removals keep the slice what it stands for: every
\* listener that is not removed is in it once, unless Close has dropped it, and
\* no removed one (nconn.go:29-38, 80-90).
SliceIsSet ==
  /\ \A i, j \in 1..subs.len : arrays[subs.array][i] = arrays[subs.array][j] => i = j
  /\ \A l \in Registered : stopper[l] \in {"wait", "shift"}
  /\ conn = "open" => \A l \in Listeners : stopper[l] = "wait" => l \in Registered

\* Both at once: the slice lies in its array, holds who it should, and no listener's
\* channel holds more than its capacity (nconn.go:22-38, 60-96).
ListenersSound == TypeOK /\ SliceIsSet

\* A listener that has caught up knows status and error of the latest event,
\* whenever it registered: observing before asking LastEvent leaves no gap, even
\* though LastEvent may read the status of one event and the error of another
\* (hub.go:212-232, nconn.go:60-71).  Excepted are the events it lost because
\* its buffer was full or because a removal shifted the array under the range.
KnowsLatest ==
  \A l \in Listeners :
    (client[l] = "receive" /\ events[l] = <<>> /\ phase = "idle" /\ l \notin lost
       /\ l \notin done /\ conn = "open") => told[l] = <<nev, nev>>

\* A listener whose context is done has its channel closed, which is what ends
\* HandleConnectionEvents, or the whole connection is closed (nconn.go:73-90).
StopCloses ==
  \A l \in Listeners :
    (l \in done /\ stopper[l] = "wait") ~> (l \in closed \/ conn = "closed" \/ panicked)

\* nconn_test.go:38-48 cancels one of two listeners, goes on sending events and
\* expects the other to have received them all: a cancellation does no harm.
CancelIsHarmless == ~panicked

=============================================================================
