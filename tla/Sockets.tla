------------------------------ MODULE Sockets ------------------------------
(***************************************************************************)
(* The frontend's websockets: SocketService (one websocket, its listeners  *)
(* and its reconnection timer), SocketPool (services by key, closed with a *)
(* delay once no card needs them), the connection store's rows and the     *)
(* registry of metrics.  A messages card has a service of its own; metrics *)
(* cards share the "global" service of their connection.  Everything runs  *)
(* on the browser's event loop: an action is one task, with the promise    *)
(* continuations it resolves.                                              *)
(***************************************************************************)
EXTENDS Naturals, Sequences, FiniteSets

CONSTANTS Connections, MsgCards, MetricsCards,
          CnnOf,       \* the connection of every card
          MaxSockets,  \* bound: services made
          MaxDrops,    \* bound: failed or lost websockets
          None

Cards == MsgCards \cup MetricsCards
Keys == MsgCards \cup Connections     \* msg::<uuid> and global::<connection>

ASSUME CardsAssumption == /\ MsgCards \cap MetricsCards = {}
                          /\ CnnOf \in [Cards -> Connections]
                          /\ Cards \cap Connections = {}
ASSUME BoundAssumption == MaxSockets \in Nat /\ MaxDrops \in Nat
ASSUME NoneAssumption == None \notin Connections /\ None \notin Nat

VARIABLES
  cards,    \* card -> "closed", "hidden" (in the documents) or "shown" (mounted)
  pool,     \* key -> index of its service in socks, or None
  socks,    \* every SocketService ever made
  doomed,   \* keys whose delayed destroy is pending
  waiters,  \* cards that wait in waitForConnection, with the service they wait for
  metrics,  \* connections with an entry in the metrics store
  rows,     \* connection -> what the connections' list shows of it
  stored,   \* the connections the backend has
  drops

poolVars == <<cards, pool, socks, doomed, waiters, metrics, rows, stored, drops>>

KeyOf(card) == IF card \in MsgCards THEN card ELSE CnnOf[card]
CnnOfKey(key) == IF key \in MsgCards THEN CnnOf[key] ELSE key

Status == {"connected", "disconnected", "reconnecting"}
Service == [cnn: Connections \cup {None}, ws: {"none", "connecting", "open"},
            late: BOOLEAN,      \* a websocket it gave up has its close event to come
            enabled: BOOLEAN, timer: BOOLEAN,
            on: SUBSET {"nats", "metrics"},     \* listeners of its emitter
            asked: SUBSET {"subs", "metrics"}]  \* what the server streams on it

PoolTypeOK ==
  /\ cards \in [Cards -> {"closed", "hidden", "shown"}]
  /\ socks \in Seq(Service) /\ Len(socks) <= MaxSockets
  /\ pool \in [Keys -> 1..Len(socks) \cup {None}]
  /\ doomed \subseteq Keys
  /\ waiters \subseteq [card: Cards, sock: 1..Len(socks)]
  /\ metrics \subseteq Connections
  /\ rows \in [Connections -> Status \cup {"absent", "unset", "undefined"}]
  /\ stored \subseteq Connections
  /\ drops \in 0..MaxDrops

PoolInit ==
  /\ cards = [c \in Cards |-> "closed"]
  /\ pool = [k \in Keys |-> None]
  /\ socks = <<>>
  /\ doomed = {} /\ waiters = {} /\ metrics = {}
  /\ rows = [c \in Connections |-> "unset"]
  /\ stored = Connections
  /\ drops = 0

-----------------------------------------------------------------------------
(* One service. *)

Fresh == [cnn |-> None, ws |-> "none", late |-> FALSE, enabled |-> TRUE,
          timer |-> FALSE, on |-> {}, asked |-> {}]

\* Mutant: a websocket that cannot be made arms no retry.
Connect_NoRetry(s, c, starts) ==
  IF s.ws # "none" THEN s
  ELSE [s EXCEPT !.cnn = c, !.enabled = TRUE, !.ws = IF starts THEN "connecting" ELSE "none"]

\* connect: new WebSocket either starts or throws, and then a retry is armed.
Connect(s, c, starts) ==
  IF s.ws # "none" THEN s
  ELSE [s EXCEPT !.cnn = c, !.enabled = TRUE,
                 !.ws = IF starts THEN "connecting" ELSE "none",
                 !.timer = @ \/ ~starts]

\* clear drops the websocket and every listener; without one it does nothing.
Clear(s) ==
  IF s.ws = "none" THEN s ELSE [s EXCEPT !.ws = "none", !.on = {}, !.asked = {}]

\* Mutant: the retry is never armed.
StartTimer_Never(s) == s

StartTimer(s) == IF s.enabled THEN [s EXCEPT !.timer = TRUE] ELSE s
StopTimer(s) == [s EXCEPT !.timer = FALSE]

\* Mutant: a service that is disconnected may still reconnect.
Disconnect_Enabled(s) ==
  Clear(StopTimer([s EXCEPT !.cnn = None, !.late = @ \/ s.ws # "none"]))

Disconnect(s) ==
  Clear(StopTimer([s EXCEPT !.cnn = None, !.enabled = FALSE,
                            !.late = @ \/ s.ws # "none"]))

\* update adds a row for an id it does not find.
SetStatus(c, status) ==
  rows' = IF c = None THEN rows ELSE [rows EXCEPT ![c] = status]

\* What follows the await of getOrCreate, for the cards that got their service.
Resumed(s, resumed) ==
  LET msg == resumed \cap MsgCards # {}
      met == resumed \cap MetricsCards # {}
  IN  [s EXCEPT !.on = @ \cup (IF msg THEN {"nats"} ELSE {})
                         \cup (IF met /\ s.cnn \notin metrics THEN {"metrics"} ELSE {}),
                !.asked = @ \cup (IF msg THEN {"subs"} ELSE {})
                            \cup (IF met THEN {"metrics"} ELSE {})]

Registered(resumed) == metrics' = metrics \cup {CnnOf[c] : c \in resumed \cap MetricsCards}

-----------------------------------------------------------------------------
(* The pool. *)

\* getOrCreate cancels a pending destroy and finds or makes the service; the
\* cards in "then" go on once it is open.
GetOrCreate(key, then) ==
  /\ doomed' = doomed \ {key}
  /\ \E starts \in BOOLEAN :
       LET all == IF pool[key] # None THEN socks
                  ELSE Append(socks, Connect(Fresh, CnnOfKey(key), starts))
           i == IF pool[key] # None THEN pool[key] ELSE Len(all)
           open == all[i].ws = "open"
       IN  /\ pool[key] = None => Len(socks) < MaxSockets
           /\ starts \/ (pool[key] = None /\ drops < MaxDrops)
           /\ drops' = IF starts THEN drops ELSE drops + 1
           /\ pool' = [pool EXCEPT ![key] = i]
           /\ socks' = IF open THEN [all EXCEPT ![i] = Resumed(@, then)] ELSE all
           /\ waiters' = IF open THEN waiters
                         ELSE waiters \cup [card: then, sock: {i}]
           /\ Registered(IF open THEN then ELSE {})

\* destroy arms the delayed closing of the key's service.
Destroy(key) == doomed' = IF pool[key] = None THEN doomed ELSE doomed \cup {key}

\* A new card: a metrics card asks for metrics as soon as it is built.
OpenCard(card) ==
  /\ cards[card] = "closed"
  /\ CnnOf[card] \in stored
  /\ cards' = [cards EXCEPT ![card] = "hidden"]
  /\ \/ card \in MetricsCards /\ GetOrCreate(KeyOf(card), {card})
     \/ card \in MsgCards /\ UNCHANGED <<pool, socks, doomed, waiters, metrics, drops>>
  /\ UNCHANGED <<rows, stored>>

\* The first listener of the card's store: its view is mounted.
Show(card) ==
  /\ cards[card] = "hidden"
  /\ cards' = [cards EXCEPT ![card] = "shown"]
  /\ GetOrCreate(KeyOf(card), {card} \cap MsgCards)
  /\ UNCHANGED <<rows, stored>>

\* A messages card takes its own listener away before it gives its service up.
Silence(s, card) == IF card \in MsgCards THEN [s EXCEPT !.on = @ \ {"nats"}] ELSE s

\* The last listener is gone: the view is unmounted, its card may stay.
Hide(card) ==
  /\ cards[card] = "shown"
  /\ cards' = [cards EXCEPT ![card] = "hidden"]
  /\ socks' = [i \in DOMAIN socks |->
                 IF i = pool[KeyOf(card)] THEN Silence(socks[i], card) ELSE socks[i]]
  /\ Destroy(KeyOf(card))
  /\ UNCHANGED <<pool, waiters, metrics, rows, stored, drops>>

MetricsWanted(c, open) == \E m \in MetricsCards : CnnOf[m] = c /\ open[m] # "closed"

\* remove: the entry, the listener and the server's metrics go, if there is a service.
TurnOff(s) == [s EXCEPT !.on = @ \ {"metrics"},
                        !.asked = IF s.ws = "open" THEN @ \ {"metrics"} ELSE @]

\* A card leaves the documents; onRemoval gives up metrics nobody else shows, and
\* its view, if mounted, lets go of the service as in Hide.
Close(card) ==
  LET c == CnnOf[card]
      off == /\ card \in MetricsCards /\ ~MetricsWanted(c, cards')
             /\ pool[c] # None /\ c \in metrics
      Let(s) == Silence(IF off THEN TurnOff(s) ELSE s, card)
  IN  /\ cards[card] # "closed"
      /\ cards' = [cards EXCEPT ![card] = "closed"]
      /\ metrics' = IF off THEN metrics \ {c} ELSE metrics
      /\ socks' = [i \in DOMAIN socks |->
                     IF i = pool[KeyOf(card)] THEN Let(socks[i]) ELSE socks[i]]
      /\ IF cards[card] = "shown" THEN Destroy(KeyOf(card)) ELSE UNCHANGED doomed
      /\ UNCHANGED <<pool, waiters, rows, stored, drops>>

DropListeners(i) == waiters' = {w \in waiters : w.sock # i}

\* Mutant: the row keeps the status it had.
DestroyForce_KeepsRow(key) ==
  LET i == pool[key]
  IN  /\ UNCHANGED rows
      /\ socks' = [socks EXCEPT ![i] = Disconnect(@)]
      /\ pool' = [pool EXCEPT ![key] = None]
      /\ IF socks[i].ws = "none" THEN UNCHANGED waiters ELSE DropListeners(i)

\* destroyForce disconnects the service and forgets it.
DestroyForce(key) ==
  LET i == pool[key]
  IN  /\ SetStatus(socks[i].cnn, "undefined")
      /\ socks' = [socks EXCEPT ![i] = Disconnect(@)]
      /\ pool' = [pool EXCEPT ![key] = None]
      /\ IF socks[i].ws = "none" THEN UNCHANGED waiters ELSE DropListeners(i)

Needed(c) == \E card \in Cards : CnnOf[card] = c /\ cards[card] # "closed"

\* Two seconds after destroy: any card of the connection keeps the service.
DestroyTimer(key) ==
  /\ key \in doomed
  /\ doomed' = doomed \ {key}
  /\ IF pool[key] = None \/ Needed(CnnOfKey(key))
     THEN UNCHANGED <<pool, socks, waiters, rows>>
     ELSE DestroyForce(key)
  /\ UNCHANGED <<cards, metrics, stored, drops>>

-----------------------------------------------------------------------------
(* The websocket's events and the timers. *)

WsOpen(i) ==
  LET resumed == {w.card : w \in {v \in waiters : v.sock = i}}
  IN  /\ socks[i].ws = "connecting"
      /\ socks' = [socks EXCEPT ![i] = Resumed(StopTimer([@ EXCEPT !.ws = "open"]), resumed)]
      /\ Registered(resumed)
      /\ DropListeners(i)
      /\ SetStatus(socks[i].cnn, "reconnecting")
      /\ UNCHANGED <<cards, pool, doomed, stored, drops>>

\* handleClose of the current websocket, lost or refused.
WsClose(i) ==
  /\ socks[i].ws # "none" /\ drops < MaxDrops
  /\ drops' = drops + 1
  /\ socks' = [socks EXCEPT ![i] = StartTimer(Clear(@))]
  /\ DropListeners(i)
  /\ SetStatus(socks[i].cnn, "reconnecting")
  /\ UNCHANGED <<cards, pool, doomed, metrics, stored>>

\* handleClose of a websocket the service has closed itself.
LateClose(i) ==
  /\ socks[i].late
  /\ socks' = [socks EXCEPT ![i] = StartTimer(Clear([@ EXCEPT !.late = FALSE]))]
  /\ DropListeners(i)
  /\ SetStatus(socks[i].cnn, "reconnecting")
  /\ UNCHANGED <<cards, pool, doomed, metrics, stored, drops>>

WsStatus(i, status) ==
  /\ socks[i].ws = "open"
  /\ SetStatus(socks[i].cnn, status)
  /\ UNCHANGED <<cards, pool, socks, doomed, waiters, metrics, stored, drops>>

\* connect tells the listeners CONNECTING, which is all a waiter hears of once.
Reconnect(i, starts) ==
  /\ starts \/ (socks[i].ws = "none" /\ drops < MaxDrops)
  /\ drops' = IF starts THEN drops ELSE drops + 1
  /\ socks' = [socks EXCEPT ![i] = Connect(StopTimer(@), @.cnn, starts)]
  /\ IF starts /\ socks[i].ws = "none" THEN DropListeners(i) ELSE UNCHANGED waiters

RetryTimer(i) ==
  /\ socks[i].timer
  /\ \E starts \in BOOLEAN : Reconnect(i, starts)
  /\ UNCHANGED <<cards, pool, doomed, metrics, rows, stored>>

\* Ten seconds: the waiter's promise is rejected and its card does not go on.
WaitTimeout(w) ==
  /\ waiters' = waiters \ {w}
  /\ UNCHANGED <<cards, pool, socks, doomed, metrics, rows, stored, drops>>

-----------------------------------------------------------------------------
(* The store of connections. *)

\* fetch replaces the rows and connects the pooled services that have no websocket.
Fetch ==
  /\ rows' = [c \in Connections |-> IF c \in stored THEN "unset" ELSE "absent"]
  /\ LET idle == {pool[k] : k \in {j \in Keys : pool[j] # None}} \cap
                 {i \in DOMAIN socks : socks[i].ws = "none"}
     IN  /\ socks' = [i \in DOMAIN socks |->
                        IF i \in idle THEN Connect(socks[i], socks[i].cnn, TRUE) ELSE socks[i]]
         /\ waiters' = {w \in waiters : w.sock \notin idle}
  /\ UNCHANGED <<cards, pool, doomed, metrics, stored, drops>>

\* save writes the row, and replaces the connection's global service.
Save(c) ==
  LET key == c
      old == pool[key]
      kept == IF old = None THEN socks ELSE [socks EXCEPT ![old] = Disconnect(@)]
  IN  /\ Len(socks) < MaxSockets
      /\ stored' = stored \cup {c}
      /\ rows' = [rows EXCEPT ![c] = IF old # None THEN "undefined"
                                     ELSE IF @ = "absent" THEN "unset" ELSE @]
      /\ socks' = Append(kept, Connect(Fresh, c, TRUE))
      /\ pool' = [pool EXCEPT ![key] = Len(socks) + 1]
      /\ doomed' = doomed \ {key}
      /\ waiters' = {w \in waiters : w.sock # old \/ socks[old].ws = "none"}
      /\ UNCHANGED <<cards, metrics, drops>>

\* delete removes the row and leaves the services alone.
Delete(c) ==
  /\ rows[c] # "absent"
  /\ stored' = stored \ {c}
  /\ rows' = [rows EXCEPT ![c] = "absent"]
  /\ UNCHANGED <<cards, pool, socks, doomed, waiters, metrics, drops>>

CardNext == \E card \in Cards : OpenCard(card) \/ Show(card) \/ Hide(card) \/ Close(card)
SocketNext == \E i \in DOMAIN socks :
                \/ WsOpen(i) \/ WsClose(i) \/ LateClose(i) \/ RetryTimer(i)
                \/ \E status \in Status : WsStatus(i, status)
PoolNext ==
  \/ CardNext \/ SocketNext
  \/ \E key \in Keys : DestroyTimer(key)
  \/ \E w \in waiters : WaitTimeout(w)
  \/ Fetch
  \/ \E c \in Connections : Save(c) \/ Delete(c)

\* Timers fire and a websocket that is being opened gets an answer.
PoolFairness ==
  /\ \A i \in 1..MaxSockets :
       /\ WF_poolVars(i \in DOMAIN socks /\ RetryTimer(i))
       /\ WF_poolVars(i \in DOMAIN socks /\ WsOpen(i))
  /\ \A key \in Keys : WF_poolVars(DestroyTimer(key))

PoolSpec == PoolInit /\ [][PoolNext]_poolVars /\ PoolFairness

-----------------------------------------------------------------------------
(* Properties. *)

Pooled(i) == \E k \in Keys : pool[k] = i

\* A service that left the pool never comes back to life: no websocket, no
\* retry, whatever events of its old websocket are still to come.
NoZombie ==
  \A i \in DOMAIN socks :
    Pooled(i) \/ (socks[i].ws = "none" /\ ~socks[i].timer /\ ~socks[i].enabled)

\* A pooled service without a websocket has its next attempt scheduled; a key
\* that is neither connected nor retrying would stay dead until a reload.
RetryArmed ==
  \A i \in DOMAIN socks : Pooled(i) /\ socks[i].ws = "none" => socks[i].timer

\* A connection is shown as connected only while one of its websockets is open,
\* whichever of its services came, went or was replaced last.
StatusHonest ==
  \A c \in Connections : rows[c] = "connected" =>
    \E i \in DOMAIN socks : socks[i].cnn = c /\ socks[i].ws = "open"

\* A card on the screen has its service in the pool, although services are shared
\* and closed by timers that other cards have armed.
ShownHasSocket == \A card \in Cards : cards[card] = "shown" => pool[KeyOf(card)] # None

\* The listener of a metrics message finds its entry in the store (onMessage uses
\* it unguarded), and metrics the server streams are ones the store can turn off.
MetricsKnown ==
  \A i \in DOMAIN socks :
    ("metrics" \in socks[i].on \cup socks[i].asked) => socks[i].cnn \in metrics

\* A card that stays on the screen gets its websocket back, however it was lost.
Reconnects ==
  \A card \in Cards :
    (cards[card] = "shown") ~>
      (\/ cards[card] # "shown"
       \/ pool[KeyOf(card)] # None /\ socks[pool[KeyOf(card)]].ws = "open")

\* The cards, the rows and the metrics store tell of the sockets that are there.
SocketsAgree == PoolTypeOK /\ StatusHonest /\ ShownHasSocket /\ MetricsKnown
=============================================================================
