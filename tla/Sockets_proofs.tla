--------------------------- MODULE Sockets_proofs ---------------------------
(***************************************************************************)
(* Proofs about Sockets, for any number of connections, cards, services    *)
(* and failures: its types, that a service which left the pool stays dead, *)
(* that one in the pool has a websocket or its next attempt scheduled, and *)
(* that cards, rows and metrics tell of the sockets there are.             *)
(***************************************************************************)
EXTENDS Sockets, SequenceTheorems, TLAPS

Live(s) == s.enabled /\ (s.ws = "none" => s.timer)
Dead(s) == s.ws = "none" /\ ~s.timer /\ ~s.enabled

\* A service belongs to one key, and it is alive exactly as long as it is pooled.
PoolTyped == /\ socks \in Seq(Service) /\ Len(socks) <= MaxSockets
             /\ pool \in [Keys -> 1..Len(socks) \cup {None}]
OneKey == \A k, j \in Keys : pool[k] # None /\ pool[k] = pool[j] => k = j
Kept == \A i \in DOMAIN socks : IF Pooled(i) THEN Live(socks[i]) ELSE Dead(socks[i])

PoolInv == PoolTyped /\ OneKey /\ Kept

-----------------------------------------------------------------------------
(* What the operations of one service do to it. *)

LEMMA FreshConnects ==
  ASSUME NEW c \in Connections, NEW starts \in BOOLEAN
  PROVE  Connect(Fresh, c, starts) \in Service /\ Live(Connect(Fresh, c, starts))
  BY DEF Connect, Fresh, Service, Live

LEMMA ConnectKeeps ==
  ASSUME NEW s \in Service, NEW starts \in BOOLEAN
  PROVE  /\ Connect(s, s.cnn, starts) \in Service
         /\ Connect(StopTimer(s), s.cnn, starts) \in Service
         /\ Live(s) => Live(Connect(s, s.cnn, starts))
         /\ Live(s) => Live(Connect(StopTimer(s), s.cnn, starts))
  BY DEF Connect, StopTimer, Service, Live

LEMMA ResumedKeeps ==
  ASSUME NEW s \in Service, NEW r
  PROVE  /\ Resumed(s, r) \in Service
         /\ Live(s) => Live(Resumed(s, r))
         /\ Dead(s) => Dead(Resumed(s, r))
  BY DEF Resumed, Service, Live, Dead

LEMMA OpenKeeps ==
  ASSUME NEW s \in Service, NEW r, s.ws = "connecting"
  PROVE  /\ Resumed(StopTimer([s EXCEPT !.ws = "open"]), r) \in Service
         /\ Live(s) => Live(Resumed(StopTimer([s EXCEPT !.ws = "open"]), r))
         /\ ~Dead(s)
  <1>1. /\ StopTimer([s EXCEPT !.ws = "open"]) \in Service
        /\ Live(s) => Live(StopTimer([s EXCEPT !.ws = "open"]))
    BY DEF StopTimer, Service, Live
  <1> QED BY <1>1, ResumedKeeps DEF Dead

LEMMA CloseKeeps ==
  ASSUME NEW s \in Service
  PROVE  /\ StartTimer(Clear(s)) \in Service
         /\ StartTimer(Clear([s EXCEPT !.late = FALSE])) \in Service
         /\ Live(s) => Live(StartTimer(Clear(s)))
         /\ Live(s) => Live(StartTimer(Clear([s EXCEPT !.late = FALSE])))
         /\ Dead(s) => Dead(StartTimer(Clear([s EXCEPT !.late = FALSE])))
  <1>1. \A t \in Service : /\ StartTimer(Clear(t)) \in Service
                           /\ Live(t) => Live(StartTimer(Clear(t)))
                           /\ Dead(t) => Dead(StartTimer(Clear(t)))
    BY ZenonT(60) DEF StartTimer, Clear, Service, Live, Dead
  <1>2. /\ [s EXCEPT !.late = FALSE] \in Service
        /\ Live(s) => Live([s EXCEPT !.late = FALSE])
        /\ Dead(s) => Dead([s EXCEPT !.late = FALSE])
    BY DEF Service, Live, Dead
  <1> QED BY <1>1, <1>2

LEMMA SilenceKeeps ==
  ASSUME NEW s \in Service, NEW card
  PROVE  /\ Silence(s, card) \in Service
         /\ Live(s) => Live(Silence(s, card))
         /\ Dead(s) => Dead(Silence(s, card))
  BY DEF Silence, Service, Live, Dead

LEMMA TurnOffKeeps ==
  ASSUME NEW s \in Service
  PROVE  /\ TurnOff(s) \in Service
         /\ Live(s) => Live(TurnOff(s))
         /\ Dead(s) => Dead(TurnOff(s))
  BY DEF TurnOff, Service, Live, Dead

LEMMA DisconnectKills ==
  ASSUME NEW s \in Service
  PROVE  Disconnect(s) \in Service /\ Dead(Disconnect(s))
  BY DEF Disconnect, StopTimer, Clear, Service, Dead

-----------------------------------------------------------------------------
(* The sequence of services. *)

LEMMA SocksAreServices ==
  ASSUME PoolTyped
  PROVE  /\ Len(socks) \in Nat /\ DOMAIN socks = 1..Len(socks)
         /\ socks \in [DOMAIN socks -> Service]
         /\ \A i \in DOMAIN socks : socks[i] \in Service
         /\ \A k \in Keys : pool[k] # None => pool[k] \in DOMAIN socks
         /\ \A i \in DOMAIN socks : i \in Nat /\ i # None
  BY NoneAssumption, LenProperties, ElementOfSeq DEF PoolTyped

LEMMA KeyFacts ==
  /\ \A card \in Cards : KeyOf(card) \in Keys /\ CnnOf[card] \in Connections
  /\ \A key \in Keys : CnnOfKey(key) \in Connections
  /\ Connections \subseteq Keys
  BY CardsAssumption DEF KeyOf, CnnOfKey, Keys, Cards

\* Steps that change services where they stand, and leave the pool alone.
LEMMA InPlace ==
  ASSUME PoolInv, NEW f \in [DOMAIN socks -> Service],
         \A i \in DOMAIN socks : IF Pooled(i) THEN Live(socks[i]) => Live(f[i])
                                 ELSE Dead(socks[i]) => Dead(f[i]),
         pool' = pool, socks' = f
  PROVE  PoolInv' /\ Len(socks') = Len(socks)
  <1>1. /\ Len(socks) \in Nat /\ DOMAIN socks = 1..Len(socks)
    BY SocksAreServices DEF PoolInv
  <1>2. f \in Seq(Service)
    BY <1>1, SeqDef
  <1>3. Len(f) \in Nat /\ DOMAIN f = 1..Len(f) /\ DOMAIN f = DOMAIN socks
    BY <1>2, LenProperties
  <1>4. Len(f) = Len(socks)
    BY <1>1, <1>3
  <1>5. \A i \in DOMAIN f : IF \E k \in Keys : pool[k] = i THEN Live(f[i]) ELSE Dead(f[i])
    BY <1>3 DEF Kept, PoolInv, Pooled
  <1>6. Kept'
    BY <1>5 DEF Kept, Pooled
  <1> QED BY <1>2, <1>4, <1>6 DEF PoolInv, PoolTyped, OneKey

\* Steps that change one service where it stands.
LEMMA OneService ==
  ASSUME PoolInv, NEW i \in DOMAIN socks, NEW s \in Service,
         Live(socks[i]) => Live(s), Dead(socks[i]) => Dead(s),
         pool' = pool, socks' = [socks EXCEPT ![i] = s]
  PROVE  PoolInv' /\ Len(socks') = Len(socks)
  <1> DEFINE f == [socks EXCEPT ![i] = s]
  <1>1. f \in [DOMAIN socks -> Service]
    BY SocksAreServices DEF PoolInv
  <1>2. f[i] = s /\ \A j \in DOMAIN socks : j # i => f[j] = socks[j]
    BY SocksAreServices DEF PoolInv
  <1>3. \A j \in DOMAIN socks : IF Pooled(j) THEN Live(socks[j]) => Live(f[j])
                                ELSE Dead(socks[j]) => Dead(f[j])
    BY <1>2
  <1>4. socks' = f
    OBVIOUS
  <1> HIDE DEF f
  <1> QED BY <1>1, <1>3, <1>4, InPlace

\* Steps that add a service for a key whose old one, if it had any, is dead by then.
LEMMA NewService ==
  ASSUME PoolTyped, OneKey, Len(socks) < MaxSockets,
         NEW key \in Keys, NEW s \in Service, Live(s),
         NEW kept \in Seq(Service), Len(kept) = Len(socks),
         \A i \in DOMAIN socks :
            IF Pooled(i) /\ i # pool[key] THEN Live(kept[i]) ELSE Dead(kept[i]),
         socks' = Append(kept, s), pool' = [pool EXCEPT ![key] = Len(socks) + 1]
  PROVE  PoolInv' /\ Len(socks') = Len(socks) + 1
  <1> DEFINE n == Len(socks)
             all == Append(kept, s)
             new == [pool EXCEPT ![key] = n + 1]
  <1>1. /\ n \in Nat /\ DOMAIN socks = 1..n /\ pool \in [Keys -> 1..n \cup {None}]
        /\ \A k \in Keys : pool[k] # None => pool[k] \in DOMAIN socks
    BY SocksAreServices DEF PoolTyped
  <1>2. /\ all \in Seq(Service) /\ Len(all) = n + 1 /\ all[n + 1] = s
        /\ \A i \in 1..n : all[i] = kept[i]
    BY AppendProperties
  <1>3. DOMAIN all = 1..(n + 1)
    BY <1>2, LenProperties
  <1>4. /\ new \in [Keys -> 1..(n + 1) \cup {None}] /\ new[key] = n + 1
        /\ \A k \in Keys : k # key => new[k] = pool[k]
    BY <1>1
  <1>5. n + 1 \notin DOMAIN socks /\ n + 1 # None /\ n + 1 <= MaxSockets
    BY <1>1, NoneAssumption, BoundAssumption
  <1>e. socks' = all /\ pool' = new
    OBVIOUS
  <1> HIDE DEF n, all, new
  <1>6. \A k, j \in Keys : new[k] # None /\ new[k] = new[j] => k = j
    BY <1>1, <1>4, <1>5 DEF OneKey
  <1>7. \A i \in DOMAIN socks : (\E k \in Keys : new[k] = i) <=> (Pooled(i) /\ i # pool[key])
    <2> SUFFICES ASSUME NEW i \in DOMAIN socks
                 PROVE  (\E k \in Keys : new[k] = i) <=> (Pooled(i) /\ i # pool[key])
      OBVIOUS
    <2>1. i # None /\ i # n + 1
      BY <1>1, <1>5, NoneAssumption
    <2>2. ASSUME NEW k \in Keys, new[k] = i PROVE Pooled(i) /\ i # pool[key]
      <3>1. k # key /\ pool[k] = i
        BY <1>4, <2>1, <2>2
      <3> QED BY <2>1, <3>1 DEF Pooled, OneKey
    <2>3. ASSUME NEW k \in Keys, pool[k] = i, i # pool[key] PROVE new[k] = i
      BY <1>4, <2>3
    <2> QED BY <2>2, <2>3 DEF Pooled
  <1>8. ASSUME NEW i \in DOMAIN all
        PROVE  IF \E k \in Keys : new[k] = i THEN Live(all[i]) ELSE Dead(all[i])
    <2>1. CASE i = n + 1
      BY <1>2, <1>4, <2>1
    <2>2. CASE i # n + 1
      <3>1. i \in 1..n
        BY <1>1, <1>3, <2>2
      <3>2. all[i] = kept[i] /\ i \in DOMAIN socks
        BY <1>1, <1>2, <3>1
      <3> QED BY <1>7, <3>2
    <2> QED BY <2>1, <2>2
  <1>9. Kept'
    BY <1>e, <1>8 DEF Kept, Pooled
  <1>10. PoolTyped' /\ OneKey'
    BY <1>e, <1>2, <1>4, <1>5, <1>6 DEF PoolTyped, OneKey
  <1> QED BY <1>e, <1>2, <1>9, <1>10 DEF PoolInv, n

-----------------------------------------------------------------------------
(* The other variables. *)

Rest == /\ cards \in [Cards -> {"closed", "hidden", "shown"}]
        /\ doomed \subseteq Keys
        /\ waiters \subseteq [card: Cards, sock: 1..Len(socks)]
        /\ metrics \subseteq Connections
        /\ rows \in [Connections -> Status \cup {"absent", "unset", "undefined"}]
        /\ stored \subseteq Connections
        /\ drops \in 0..MaxDrops

SocketInv == PoolInv /\ Rest

LEMMA RowsTyped ==
  ASSUME Rest, NEW c \in Connections \cup {None},
         NEW status \in Status \cup {"undefined"}, SetStatus(c, status)
  PROVE  rows' \in [Connections -> Status \cup {"absent", "unset", "undefined"}]
  BY DEF Rest, SetStatus

LEMMA RegisteredTyped ==
  ASSUME Rest, NEW resumed, Registered(resumed)
  PROVE  metrics' \subseteq Connections
  BY KeyFacts DEF Rest, Registered, Cards

LEMMA DropsTyped ==
  ASSUME Rest, drops < MaxDrops PROVE drops + 1 \in 0..MaxDrops
  BY BoundAssumption DEF Rest

\* The waiters of a service that is there stay typed while services are only added.
LEMMA WaitersTyped ==
  ASSUME SocketInv, Len(socks') \in Nat, Len(socks') >= Len(socks)
  PROVE  waiters \subseteq [card: Cards, sock: 1..Len(socks')]
  <1>1. Len(socks) \in Nat
    BY SocksAreServices DEF SocketInv, PoolInv
  <1>2. 1..Len(socks) \subseteq 1..Len(socks')
    BY <1>1
  <1> QED BY <1>2 DEF SocketInv, Rest

-----------------------------------------------------------------------------
(* One lemma for the actions of the pool, and one for every kind of event. *)

LEMMA GetOrCreateKeeps ==
  ASSUME SocketInv, NEW key \in Keys, NEW then \in SUBSET Cards, GetOrCreate(key, then)
  PROVE  /\ PoolInv'
         /\ doomed' \subseteq Keys /\ metrics' \subseteq Connections /\ drops' \in 0..MaxDrops
         /\ waiters' \subseteq [card: Cards, sock: 1..Len(socks')]
  <1>1. /\ doomed' \subseteq Keys /\ drops' \in 0..MaxDrops
    BY DropsTyped DEF GetOrCreate, SocketInv, Rest
  <1>2. metrics' \subseteq Connections
    BY RegisteredTyped DEF GetOrCreate, SocketInv
  <1>3. PoolTyped /\ OneKey /\ Kept /\ pool \in [Keys -> 1..Len(socks) \cup {None}]
    BY DEF SocketInv, PoolInv, PoolTyped
  <1>4. CASE pool[key] # None
    <2> DEFINE i == pool[key]
               s == IF socks[i].ws = "open" THEN Resumed(socks[i], then) ELSE socks[i]
    <2>1. i \in DOMAIN socks /\ socks[i] \in Service
      BY <1>3, <1>4, SocksAreServices
    <2>2. s \in Service /\ (Live(socks[i]) => Live(s)) /\ (Dead(socks[i]) => Dead(s))
      BY <2>1, ResumedKeeps
    <2>3. pool' = pool
      BY <1>3, <1>4 DEF GetOrCreate
    <2>4. socks' = [socks EXCEPT ![i] = s]
      <3>1. [socks EXCEPT ![i] = socks[i]] = socks
        BY <1>3, SocksAreServices
      <3>2. \/ socks[i].ws = "open" /\ socks' = [socks EXCEPT ![i] = Resumed(socks[i], then)]
            \/ socks[i].ws # "open" /\ socks' = socks
        BY <1>4 DEF GetOrCreate
      <3> QED BY <3>1, <3>2
    <2>5. PoolInv' /\ Len(socks') = Len(socks)
      <3> HIDE DEF i, s
      <3> QED BY <2>1, <2>2, <2>3, <2>4, OneService DEF SocketInv
    <2>6. i \in 1..Len(socks)
      BY <1>3, <2>1, SocksAreServices
    <2>7. waiters' \subseteq waiters \cup [card: then, sock: {i}]
      BY <1>4 DEF GetOrCreate
    <2> QED BY <1>1, <1>2, <2>5, <2>6, <2>7 DEF SocketInv, Rest
  <1>5. CASE pool[key] = None
    <2>1. PICK starts \in BOOLEAN :
            LET all == Append(socks, Connect(Fresh, CnnOfKey(key), starts))
                open == all[Len(all)].ws = "open"
            IN  /\ Len(socks) < MaxSockets
                /\ pool' = [pool EXCEPT ![key] = Len(all)]
                /\ socks' = IF open THEN [all EXCEPT ![Len(all)] = Resumed(@, then)] ELSE all
                /\ waiters' = IF open THEN waiters
                              ELSE waiters \cup [card: then, sock: {Len(all)}]
      BY <1>5 DEF GetOrCreate
    <2> DEFINE s == Connect(Fresh, CnnOfKey(key), starts)
    <2>2. s \in Service /\ Live(s) /\ s.ws # "open"
      <3>1. s.ws # "open"
        BY DEF Connect, Fresh
      <3> QED BY <3>1, FreshConnects, KeyFacts
    <2>3. socks \in Seq(Service) /\ Len(socks) \in Nat
      BY <1>3, SocksAreServices DEF PoolTyped
    <2> HIDE DEF s
    <2>4. Len(Append(socks, s)) = Len(socks) + 1 /\ Append(socks, s)[Len(socks) + 1] = s
      BY <2>2, <2>3, AppendProperties
    <2>5. /\ socks' = Append(socks, s) /\ pool' = [pool EXCEPT ![key] = Len(socks) + 1]
          /\ waiters' = waiters \cup [card: then, sock: {Len(socks) + 1}]
      BY <2>1, <2>2, <2>4 DEF s
    <2>6. \A i \in DOMAIN socks :
             IF Pooled(i) /\ i # pool[key] THEN Live(socks[i]) ELSE Dead(socks[i])
      BY <1>3, <1>5, SocksAreServices DEF Kept
    <2>7. PoolInv' /\ Len(socks') = Len(socks) + 1
      BY <1>3, <2>1, <2>2, <2>3, <2>5, <2>6, NewService
    <2>8. waiters \subseteq [card: Cards, sock: 1..(Len(socks) + 1)]
      BY <2>3, <2>7, WaitersTyped
    <2>9. [card: then, sock: {Len(socks) + 1}] \subseteq [card: Cards, sock: 1..(Len(socks) + 1)]
      BY <2>3
    <2> QED BY <1>1, <1>2, <2>5, <2>7, <2>8, <2>9
  <1> QED BY <1>4, <1>5

LEMMA OpenKeepsInv ==
  ASSUME SocketInv, NEW card \in Cards, OpenCard(card) \/ Show(card)
  PROVE  SocketInv'
  <1>1. /\ cards' \in [Cards -> {"closed", "hidden", "shown"}]
        /\ UNCHANGED <<rows, stored>>
        /\ \/ \E then \in SUBSET Cards : GetOrCreate(KeyOf(card), then)
           \/ UNCHANGED <<pool, socks, doomed, waiters, metrics, drops>>
    BY DEF OpenCard, Show, SocketInv, Rest
  <1>2. CASE UNCHANGED <<pool, socks, doomed, waiters, metrics, drops>>
    BY <1>1, <1>2 DEF SocketInv, Rest, PoolInv, PoolTyped, OneKey, Kept, Pooled
  <1>3. CASE \E then \in SUBSET Cards : GetOrCreate(KeyOf(card), then)
    BY <1>1, <1>3, GetOrCreateKeeps, KeyFacts DEF SocketInv, Rest
  <1> QED BY <1>1, <1>2, <1>3

\* The view of a card goes: its listeners do, and its service may be closed later.
LEMMA CloseKeepsInv ==
  ASSUME SocketInv, NEW card \in Cards, Hide(card) \/ Close(card)
  PROVE  SocketInv'
  <1>0. \A i \in DOMAIN socks : socks[i] \in Service
    BY SocksAreServices DEF SocketInv, PoolInv
  <1>1. PICK f : /\ f \in [DOMAIN socks -> Service] /\ socks' = f
                 /\ \A i \in DOMAIN socks : /\ Live(socks[i]) => Live(f[i])
                                            /\ Dead(socks[i]) => Dead(f[i])
    <2>1. CASE Hide(card)
      <3> DEFINE f == [i \in DOMAIN socks |->
                         IF i = pool[KeyOf(card)] THEN Silence(socks[i], card) ELSE socks[i]]
      <3>1. f \in [DOMAIN socks -> Service]
        BY <1>0, SilenceKeeps
      <3>2. \A i \in DOMAIN socks : /\ Live(socks[i]) => Live(f[i])
                                    /\ Dead(socks[i]) => Dead(f[i])
        BY <1>0, SilenceKeeps
      <3>3. socks' = f
        BY <2>1 DEF Hide
      <3> QED BY <3>1, <3>2, <3>3
    <2>2. CASE Close(card)
      <3>1. PICK off \in BOOLEAN :
              socks' = [i \in DOMAIN socks |->
                          IF i = pool[KeyOf(card)]
                          THEN Silence(IF off THEN TurnOff(socks[i]) ELSE socks[i], card)
                          ELSE socks[i]]
        BY <2>2 DEF Close
      <3> DEFINE f == [i \in DOMAIN socks |->
                         IF i = pool[KeyOf(card)]
                         THEN Silence(IF off THEN TurnOff(socks[i]) ELSE socks[i], card)
                         ELSE socks[i]]
      <3>2. ASSUME NEW i \in DOMAIN socks
            PROVE  /\ f[i] \in Service
                   /\ Live(socks[i]) => Live(f[i])
                   /\ Dead(socks[i]) => Dead(f[i])
        <4> DEFINE t == IF off THEN TurnOff(socks[i]) ELSE socks[i]
        <4>1. /\ t \in Service
              /\ Live(socks[i]) => Live(t)
              /\ Dead(socks[i]) => Dead(t)
          BY <1>0, TurnOffKeeps
        <4>2. f[i] = IF i = pool[KeyOf(card)] THEN Silence(t, card) ELSE socks[i]
          OBVIOUS
        <4> HIDE DEF t, f
        <4> QED BY <1>0, <4>1, <4>2, SilenceKeeps
      <3>3. f \in [DOMAIN socks -> Service]
        BY <3>2
      <3> QED BY <3>1, <3>2, <3>3
    <2> QED BY <2>1, <2>2
  <1>2. /\ pool' = pool /\ UNCHANGED <<waiters, rows, stored, drops>>
        /\ cards' \in [Cards -> {"closed", "hidden", "shown"}]
        /\ metrics' \subseteq Connections
        /\ doomed' \subseteq Keys
    BY KeyFacts DEF Hide, Close, Destroy, SocketInv, Rest
  <1>3. PoolInv' /\ Len(socks') = Len(socks)
    BY <1>1, <1>2, InPlace DEF SocketInv
  <1> QED BY <1>2, <1>3 DEF SocketInv, Rest

\* A service that leaves the pool is disconnected in the same step.
LEMMA DestroyKeepsInv ==
  ASSUME SocketInv, NEW key \in Keys, DestroyTimer(key)
  PROVE  SocketInv'
  <1>1. CASE UNCHANGED <<pool, socks, waiters, rows>>
    BY <1>1 DEF DestroyTimer, SocketInv, Rest, PoolInv, PoolTyped, OneKey, Kept, Pooled
  <1>2. CASE pool[key] # None /\ DestroyForce(key)
    <2> DEFINE i == pool[key]
               f == [socks EXCEPT ![i] = Disconnect(socks[i])]
               new == [pool EXCEPT ![key] = None]
    <2>1. /\ socks \in Seq(Service) /\ Len(socks) \in Nat /\ DOMAIN socks = 1..Len(socks)
          /\ i \in DOMAIN socks /\ i \in 1..Len(socks) /\ socks[i] \in Service
          /\ pool \in [Keys -> 1..Len(socks) \cup {None}]
      BY <1>2, SocksAreServices DEF SocketInv, PoolInv, PoolTyped
    <2>2. /\ f \in Seq(Service) /\ Len(f) = Len(socks) /\ DOMAIN f = DOMAIN socks
          /\ Dead(f[i]) /\ \A j \in DOMAIN socks : j # i => f[j] = socks[j]
      BY <2>1, DisconnectKills, ExceptSeq
    <2>3. new[key] = None /\ \A k \in Keys : k # key => new[k] = pool[k]
      BY <2>1
    <2>4. socks' = f /\ pool' = new
      BY <1>2 DEF DestroyForce
    <2>5. \A k \in Keys : pool[k] = i => k = key
      BY <1>2 DEF SocketInv, PoolInv, OneKey
    <2>6. ASSUME NEW j \in DOMAIN socks
          PROVE  IF \E k \in Keys : new[k] = j THEN Live(f[j]) ELSE Dead(f[j])
      <3>1. j # None
        BY SocksAreServices DEF SocketInv, PoolInv
      <3>2. CASE j = i
        BY <2>2, <2>3, <2>5, <3>1, <3>2
      <3>3. CASE j # i
        <4>1. (\E k \in Keys : new[k] = j) <=> (\E k \in Keys : pool[k] = j)
          BY <2>3, <3>1, <3>3
        <4>2. f[j] = socks[j]
          BY <2>2, <3>3
        <4> HIDE DEF f, new
        <4> QED BY <4>1, <4>2 DEF SocketInv, PoolInv, Kept, Pooled
      <3> QED BY <3>2, <3>3
    <2>7. new \in [Keys -> 1..Len(f) \cup {None}]
      BY <2>1, <2>2
    <2>8. \A k, j \in Keys : new[k] # None /\ new[k] = new[j] => k = j
      BY <2>3 DEF SocketInv, PoolInv, OneKey
    <2>9. Len(f) <= MaxSockets
      BY <2>2 DEF SocketInv, PoolInv, PoolTyped
    <2>10. waiters' \subseteq waiters
      BY <1>2 DEF DestroyForce, DropListeners
    <2>11. rows' \in [Connections -> Status \cup {"absent", "unset", "undefined"}]
      <3>1. socks[i].cnn \in Connections \cup {None}
        BY <2>1 DEF Service
      <3> QED BY <1>2, <3>1, RowsTyped DEF DestroyForce, SocketInv
    <2> HIDE DEF f, new
    <2>12. PoolInv'
      BY <2>2, <2>4, <2>6, <2>7, <2>8, <2>9 DEF PoolInv, PoolTyped, OneKey, Kept, Pooled
    <2>13. UNCHANGED <<cards, metrics, stored, drops>> /\ doomed' \subseteq doomed
      BY DEF DestroyTimer
    <2> QED BY <2>2, <2>4, <2>10, <2>11, <2>12, <2>13 DEF SocketInv, Rest
  <1> QED BY <1>1, <1>2 DEF DestroyTimer

\* The events of one websocket, and its timers.
LEMMA EventKeepsInv ==
  ASSUME SocketInv, NEW i \in DOMAIN socks,
         \/ WsOpen(i) \/ WsClose(i) \/ LateClose(i) \/ RetryTimer(i)
         \/ \E status \in Status : WsStatus(i, status)
  PROVE  SocketInv'
  <1>1. /\ socks[i] \in Service /\ socks[i].cnn \in Connections \cup {None}
        /\ Live(socks[i]) \/ Dead(socks[i])
        /\ [socks EXCEPT ![i] = socks[i]] = socks
    <2>1. socks[i] \in Service /\ socks \in [DOMAIN socks -> Service]
      BY SocksAreServices DEF SocketInv, PoolInv
    <2> QED BY <2>1 DEF SocketInv, PoolInv, Kept, Service
  <1>2. /\ pool' = pool /\ UNCHANGED <<cards, doomed, stored>>
        /\ waiters' \subseteq waiters
    BY DEF WsOpen, WsClose, LateClose, RetryTimer, Reconnect, WsStatus, DropListeners
  <1>3. PICK s \in Service : /\ socks' = [socks EXCEPT ![i] = s]
                             /\ Live(socks[i]) => Live(s)
                             /\ Dead(socks[i]) => Dead(s)
    <2>1. CASE WsOpen(i)
      <3>1. PICK r : socks' = [socks EXCEPT ![i] = Resumed(StopTimer([socks[i] EXCEPT !.ws = "open"]), r)]
        BY <2>1 DEF WsOpen
      <3>2. socks[i].ws = "connecting"
        BY <2>1 DEF WsOpen
      <3> QED BY <1>1, <3>1, <3>2, OpenKeeps
    <2>2. CASE WsClose(i)
      <3>1. socks' = [socks EXCEPT ![i] = StartTimer(Clear(socks[i]))] /\ socks[i].ws # "none"
        BY <2>2 DEF WsClose
      <3>2. ~Dead(socks[i])
        BY <3>1 DEF Dead
      <3> QED BY <1>1, <3>1, <3>2, CloseKeeps
    <2>3. CASE LateClose(i)
      <3>1. socks' = [socks EXCEPT ![i] = StartTimer(Clear([socks[i] EXCEPT !.late = FALSE]))]
        BY <2>3 DEF LateClose
      <3> QED BY <1>1, <3>1, CloseKeeps
    <2>4. CASE RetryTimer(i)
      <3>1. PICK starts \in BOOLEAN :
              socks' = [socks EXCEPT ![i] = Connect(StopTimer(socks[i]), socks[i].cnn, starts)]
        BY <2>4 DEF RetryTimer, Reconnect
      <3>2. ~Dead(socks[i])
        BY <2>4 DEF RetryTimer, Dead
      <3> QED BY <1>1, <3>1, <3>2, ConnectKeeps
    <2>5. CASE \E status \in Status : WsStatus(i, status)
      BY <1>1, <2>5 DEF WsStatus
    <2> QED BY <2>1, <2>2, <2>3, <2>4, <2>5
  <1>4. PoolInv' /\ Len(socks') = Len(socks)
    BY <1>2, <1>3, OneService DEF SocketInv
  <1>5. metrics' \subseteq Connections
    <2>1. CASE WsOpen(i)
      BY <2>1, RegisteredTyped DEF WsOpen, SocketInv
    <2>2. CASE UNCHANGED metrics
      BY <2>2 DEF SocketInv, Rest
    <2> QED BY <2>1, <2>2 DEF WsClose, LateClose, RetryTimer, WsStatus
  <1>6. drops' \in 0..MaxDrops
    BY DropsTyped DEF WsOpen, WsClose, LateClose, RetryTimer, Reconnect, WsStatus, SocketInv, Rest
  <1>7. rows' \in [Connections -> Status \cup {"absent", "unset", "undefined"}]
    <2>1. CASE UNCHANGED rows
      BY <2>1 DEF SocketInv, Rest
    <2>2. CASE \E status \in Status : SetStatus(socks[i].cnn, status)
      BY <1>1, <2>2, RowsTyped DEF SocketInv
    <2>3. "reconnecting" \in Status
      BY DEF Status
    <2> QED BY <2>1, <2>2, <2>3 DEF WsOpen, WsClose, LateClose, RetryTimer, WsStatus
  <1> QED BY <1>2, <1>4, <1>5, <1>6, <1>7 DEF SocketInv, Rest

\* fetch wakes only services of the pool.
LEMMA FetchKeepsInv ==
  ASSUME SocketInv, Fetch
  PROVE  SocketInv'
  <1>1. PICK idle : /\ idle \subseteq {pool[k] : k \in {j \in Keys : pool[j] # None}}
                    /\ socks' = [i \in DOMAIN socks |->
                                   IF i \in idle THEN Connect(socks[i], socks[i].cnn, TRUE)
                                   ELSE socks[i]]
                    /\ waiters' \subseteq waiters
    BY DEF Fetch
  <1> DEFINE f == [i \in DOMAIN socks |->
                     IF i \in idle THEN Connect(socks[i], socks[i].cnn, TRUE) ELSE socks[i]]
  <1>2. ASSUME NEW i \in DOMAIN socks
        PROVE  /\ f[i] \in Service
               /\ IF Pooled(i) THEN Live(socks[i]) => Live(f[i])
                  ELSE Dead(socks[i]) => Dead(f[i])
    <2>1. socks[i] \in Service
      BY SocksAreServices DEF SocketInv, PoolInv
    <2>2. CASE i \in idle
      <3>1. Pooled(i)
        BY <1>1, <2>2 DEF Pooled
      <3> QED BY <2>1, <2>2, <3>1, ConnectKeeps
    <2>3. CASE i \notin idle
      BY <2>1, <2>3
    <2> QED BY <2>2, <2>3
  <1>3. f \in [DOMAIN socks -> Service] /\ socks' = f /\ pool' = pool
    BY <1>1, <1>2 DEF Fetch
  <1>4. PoolInv' /\ Len(socks') = Len(socks)
    <2> HIDE DEF f
    <2> QED BY <1>2, <1>3, InPlace DEF SocketInv
  <1>5. rows' \in [Connections -> Status \cup {"absent", "unset", "undefined"}]
    BY DEF Fetch
  <1> QED BY <1>1, <1>4, <1>5 DEF Fetch, SocketInv, Rest

\* save disconnects the service it replaces.
LEMMA SaveKeepsInv ==
  ASSUME SocketInv, NEW c \in Connections, Save(c)
  PROVE  SocketInv'
  <1> DEFINE old == pool[c]
             s == Connect(Fresh, c, TRUE)
             kept == IF old = None THEN socks ELSE [socks EXCEPT ![old] = Disconnect(socks[old])]
  <1>1. c \in Keys /\ s \in Service /\ Live(s)
    BY KeyFacts, FreshConnects
  <1>2. /\ PoolTyped /\ OneKey /\ Kept /\ socks \in Seq(Service)
        /\ Len(socks) \in Nat /\ DOMAIN socks = 1..Len(socks)
        /\ \A i \in DOMAIN socks : i # None
        /\ old # None => old \in 1..Len(socks) /\ socks[old] \in Service
    BY <1>1, SocksAreServices DEF SocketInv, PoolInv, PoolTyped
  <1>3. /\ kept \in Seq(Service) /\ Len(kept) = Len(socks)
        /\ \A i \in DOMAIN socks : IF i = old THEN Dead(kept[i]) ELSE kept[i] = socks[i]
    <2>1. CASE old = None
      BY <1>2, <2>1
    <2>2. CASE old # None
      BY <1>2, <2>2, DisconnectKills, ExceptSeq
    <2> QED BY <2>1, <2>2
  <1>4. /\ socks' = Append(kept, s) /\ pool' = [pool EXCEPT ![c] = Len(socks) + 1]
        /\ Len(socks) < MaxSockets
    BY DEF Save
  <1> HIDE DEF kept, s
  <1>5. \A i \in DOMAIN socks :
           IF Pooled(i) /\ i # pool[c] THEN Live(kept[i]) ELSE Dead(kept[i])
    <2> SUFFICES ASSUME NEW i \in DOMAIN socks
                 PROVE  IF Pooled(i) /\ i # old THEN Live(kept[i]) ELSE Dead(kept[i])
      OBVIOUS
    <2> QED BY <1>2, <1>3 DEF Kept
  <1>6. PoolInv' /\ Len(socks') = Len(socks) + 1
    BY <1>1, <1>2, <1>3, <1>4, <1>5, NewService
  <1>7. waiters \subseteq [card: Cards, sock: 1..Len(socks')]
    BY <1>2, <1>6, WaitersTyped
  <1>8. rows' \in [Connections -> Status \cup {"absent", "unset", "undefined"}]
    BY DEF Save, SocketInv, Rest
  <1>9. /\ UNCHANGED <<cards, metrics, drops>> /\ doomed' \subseteq doomed
        /\ waiters' \subseteq waiters /\ stored' \subseteq Connections
    BY DEF Save, SocketInv, Rest
  <1> QED BY <1>6, <1>7, <1>8, <1>9 DEF SocketInv, Rest

-----------------------------------------------------------------------------

LEMMA InitKeepsPool == PoolInit => SocketInv
  <1> SUFFICES ASSUME PoolInit PROVE SocketInv
    OBVIOUS
  <1>1. socks = <<>> /\ socks \in Seq(Service) /\ Len(socks) = 0 /\ DOMAIN socks = {}
    BY EmptySeq, LenProperties DEF PoolInit
  <1> QED BY <1>1, BoundAssumption
          DEF PoolInit, SocketInv, PoolInv, PoolTyped, OneKey, Kept, Rest, Status

LEMMA StepKeepsInv == SocketInv /\ [PoolNext]_poolVars => SocketInv'
  <1> SUFFICES ASSUME SocketInv, [PoolNext]_poolVars PROVE SocketInv'
    OBVIOUS
  <1>1. CASE UNCHANGED poolVars
    BY <1>1 DEF poolVars, SocketInv, Rest, PoolInv, PoolTyped, OneKey, Kept, Pooled
  <1>2. CASE CardNext
    BY <1>2, OpenKeepsInv, CloseKeepsInv DEF CardNext
  <1>3. CASE SocketNext
    BY <1>3, EventKeepsInv DEF SocketNext
  <1>4. CASE \E key \in Keys : DestroyTimer(key)
    BY <1>4, DestroyKeepsInv
  <1>5. CASE Fetch
    BY <1>5, FetchKeepsInv
  <1>6. CASE \E c \in Connections : Save(c)
    BY <1>6, SaveKeepsInv
  <1>7. CASE \E w \in waiters : WaitTimeout(w)
    BY <1>7 DEF WaitTimeout, SocketInv, Rest, PoolInv, PoolTyped, OneKey, Kept, Pooled
  <1>8. CASE \E c \in Connections : Delete(c)
    BY <1>8 DEF Delete, SocketInv, Rest, PoolInv, PoolTyped, OneKey, Kept, Pooled
  <1> QED BY <1>1, <1>2, <1>3, <1>4, <1>5, <1>6, <1>7, <1>8 DEF PoolNext

LEMMA AlwaysKept == PoolSpec => []SocketInv
  BY InitKeepsPool, StepKeepsInv, PTL DEF PoolSpec

\* The variables keep their types, for any number of cards, services and failures.
THEOREM SocketTypes == PoolSpec => []PoolTypeOK
  <1>1. SocketInv => PoolTypeOK
    BY DEF SocketInv, PoolInv, PoolTyped, Rest, PoolTypeOK
  <1> QED BY <1>1, AlwaysKept, PTL

\* A service the pool has let go stays dead: SocketPool.destroyForce and save disconnect
\* it, and no late event or timer arms it again.
THEOREM NoZombies == PoolSpec => []NoZombie
  <1>1. SocketInv => NoZombie
    BY DEF SocketInv, PoolInv, Kept, Dead, NoZombie
  <1> QED BY <1>1, AlwaysKept, PTL

\* A service the pool holds, and whose websocket is gone, has armed its next attempt.
THEOREM RetriesArmed == PoolSpec => []RetryArmed
  <1>1. SocketInv => RetryArmed
    BY DEF SocketInv, PoolInv, Kept, Live, RetryArmed
  <1> QED BY <1>1, AlwaysKept, PTL

-----------------------------------------------------------------------------
(* What the cards, the rows and the metrics store tell of the sockets.       *)

\* Nothing listens or streams on a websocket that is not open.
Quiet(s) == s.ws # "open" => s.on = {} /\ s.asked = {}
Meters(s) == "metrics" \in s.on \cup s.asked

\* A pooled service is of its key's connection; the cards that wait for one that
\* is still pooled wait at their own key; and only the service that the metrics
\* cards of a connection share has anything to do with metrics.
KeyInv == \A k \in Keys : pool[k] # None => socks[pool[k]].cnn = CnnOfKey(k)
QuietInv == \A i \in DOMAIN socks : Quiet(socks[i])
WaiterInv == \A w \in waiters : Pooled(w.sock) => pool[KeyOf(w.card)] = w.sock
HomeInv == \A i \in DOMAIN socks : Meters(socks[i]) => \E c \in Connections : pool[c] = i

LinkInv == KeyInv /\ QuietInv /\ WaiterInv /\ HomeInv
AgreeInv == LinkInv /\ StatusHonest /\ ShownHasSocket /\ MetricsKnown

\* A card's key is of the card's connection; connections are their own keys.
LEMMA CardKeys ==
  /\ \A card \in Cards : KeyOf(card) \in Keys /\ CnnOfKey(KeyOf(card)) = CnnOf[card]
                         /\ CnnOf[card] \in Connections
  /\ \A card \in MetricsCards : card \in Cards /\ KeyOf(card) = CnnOf[card]
  /\ \A c \in Connections : c \in Keys /\ CnnOfKey(c) = c
  BY CardsAssumption DEF KeyOf, CnnOfKey, Keys, Cards

\* What the operations of a service do to its websocket, its listeners and what
\* the server streams on it.
LEMMA FreshIsQuiet ==
  ASSUME NEW c \in Connections, NEW starts \in BOOLEAN
  PROVE  /\ Connect(Fresh, c, starts).cnn = c /\ Quiet(Connect(Fresh, c, starts))
         /\ ~Meters(Connect(Fresh, c, starts)) /\ Connect(Fresh, c, starts).ws # "open"
  BY DEF Connect, Fresh, Quiet, Meters

LEMMA ConnectStays ==
  ASSUME NEW s \in Service, NEW starts \in BOOLEAN, Quiet(s),
         NEW t \in {Connect(s, s.cnn, starts), Connect(StopTimer(s), s.cnn, starts)}
  PROVE  /\ t.cnn = s.cnn /\ (s.ws = "open" => t.ws = "open")
         /\ Quiet(t) /\ (Meters(t) => Meters(s))
  BY ZenonT(60) DEF Connect, StopTimer, Quiet, Meters, Service

LEMMA ResumedMeters ==
  ASSUME NEW s \in Service, NEW r
  PROVE  /\ Resumed(s, r).cnn = s.cnn /\ Resumed(s, r).ws = s.ws
         /\ s.ws = "open" => Quiet(Resumed(s, r))
         /\ Meters(Resumed(s, r)) => Meters(s) \/ r \cap MetricsCards # {}
  BY DEF Resumed, Quiet, Meters, Service

LEMMA OpenMeters ==
  ASSUME NEW s \in Service, NEW r, NEW t, s.ws = "connecting",
         t = Resumed(StopTimer([s EXCEPT !.ws = "open"]), r)
  PROVE  /\ t.cnn = s.cnn /\ t.ws = "open" /\ Quiet(t)
         /\ Meters(t) => Meters(s) \/ r \cap MetricsCards # {}
  <1> DEFINE u == StopTimer([s EXCEPT !.ws = "open"])
  <1>1. u \in Service /\ u.cnn = s.cnn /\ u.ws = "open" /\ (Meters(u) => Meters(s))
    BY DEF StopTimer, Service, Meters
  <1> HIDE DEF u
  <1>2. t = Resumed(u, r)
    BY DEF u
  <1> QED
    BY <1>1, <1>2, ResumedMeters

LEMMA ClosedIsQuiet ==
  ASSUME NEW s \in Service, Quiet(s),
         NEW t \in {StartTimer(Clear(s)), StartTimer(Clear([s EXCEPT !.late = FALSE]))}
  PROVE  t.cnn = s.cnn /\ Quiet(t) /\ ~Meters(t)
  <1>1. \A u \in Service : Quiet(u) =>
          LET v == StartTimer(Clear(u)) IN v.cnn = u.cnn /\ Quiet(v) /\ ~Meters(v)
    BY DEF StartTimer, Clear, Quiet, Meters, Service
  <1>2. LET u == [s EXCEPT !.late = FALSE] IN u \in Service /\ u.cnn = s.cnn /\ Quiet(u)
    BY DEF Quiet, Service
  <1> QED
    BY <1>1, <1>2

LEMMA DisconnectIsQuiet ==
  ASSUME NEW s \in Service, Quiet(s)
  PROVE  Quiet(Disconnect(s)) /\ ~Meters(Disconnect(s)) /\ Disconnect(s).ws # "open"
  BY DEF Disconnect, StopTimer, Clear, Quiet, Meters, Service

LEMMA SilenceStays ==
  ASSUME NEW s \in Service, NEW card, Quiet(s)
  PROVE  /\ Silence(s, card).cnn = s.cnn /\ Silence(s, card).ws = s.ws
         /\ Quiet(Silence(s, card)) /\ (Meters(Silence(s, card)) => Meters(s))
  BY DEF Silence, Quiet, Meters, Service

\* What the server streams can be turned off, because it streams on an open
\* websocket only.
LEMMA TurnOffStays ==
  ASSUME NEW s \in Service, Quiet(s)
  PROVE  /\ TurnOff(s).cnn = s.cnn /\ TurnOff(s).ws = s.ws
         /\ Quiet(TurnOff(s)) /\ ~Meters(TurnOff(s))
  BY DEF TurnOff, Quiet, Meters, Service

-----------------------------------------------------------------------------
(* Steps that change services where they stand, and leave the pool alone.    *)

LEMMA InPlaceAgrees ==
  ASSUME SocketInv, AgreeInv, NEW f \in [DOMAIN socks -> Service], pool' = pool, socks' = f,
         \A i \in DOMAIN socks : f[i].cnn = socks[i].cnn /\ Quiet(f[i]),
         \A i \in DOMAIN socks : Meters(f[i]) =>
            \/ Meters(socks[i]) /\ socks[i].cnn \in metrics'
            \/ \E c \in Connections : pool[c] = i /\ c \in metrics',
         \A i \in DOMAIN socks :
            socks[i].cnn \in Connections /\ socks[i].ws = "open" /\ f[i].ws # "open" =>
               rows'[socks[i].cnn] # "connected",
         \A c \in Connections : rows'[c] = "connected" =>
            rows[c] = "connected" \/ \E i \in DOMAIN socks : socks[i].cnn = c /\ f[i].ws = "open",
         \A w \in waiters' : w \in waiters \/ pool[KeyOf(w.card)] = w.sock,
         \A card \in Cards :
            cards'[card] = "shown" => cards[card] = "shown" \/ pool[KeyOf(card)] # None
  PROVE  AgreeInv'
  <1>1. /\ \A k \in Keys : pool[k] # None => pool[k] \in DOMAIN socks
        /\ DOMAIN f = DOMAIN socks /\ \A i \in DOMAIN socks : i # None
    BY SocksAreServices DEF SocketInv, PoolInv
  <1>2. KeyInv'
    BY <1>1 DEF AgreeInv, LinkInv, KeyInv
  <1>3. QuietInv'
    BY <1>1 DEF QuietInv
  <1>4. WaiterInv'
    BY DEF AgreeInv, LinkInv, WaiterInv, Pooled
  <1>5. HomeInv'
    BY <1>1 DEF AgreeInv, LinkInv, HomeInv
  <1>6. StatusHonest'
    <2> SUFFICES ASSUME NEW c \in Connections, rows'[c] = "connected"
                 PROVE  \E i \in DOMAIN socks' : socks'[i].cnn = c /\ socks'[i].ws = "open"
      BY DEF StatusHonest
    <2>1. CASE rows[c] = "connected"
      <3>1. PICK i \in DOMAIN socks : socks[i].cnn = c /\ socks[i].ws = "open"
        BY <2>1 DEF AgreeInv, StatusHonest
      <3> QED
        BY <1>1, <3>1
    <2>2. CASE \E i \in DOMAIN socks : socks[i].cnn = c /\ f[i].ws = "open"
      BY <1>1, <2>2
    <2> QED
      BY <2>1, <2>2
  <1>7. ShownHasSocket'
    BY DEF AgreeInv, ShownHasSocket
  <1>8. MetricsKnown'
    <2> SUFFICES ASSUME NEW i \in DOMAIN socks, Meters(f[i])
                 PROVE  f[i].cnn \in metrics'
      BY <1>1 DEF MetricsKnown, Meters
    <2>1. CASE Meters(socks[i]) /\ socks[i].cnn \in metrics'
      BY <2>1
    <2>2. ASSUME NEW c \in Connections, pool[c] = i, c \in metrics'
          PROVE  f[i].cnn \in metrics'
      <3>1. socks[i].cnn = c
        BY <1>1, <2>2, CardKeys DEF AgreeInv, LinkInv, KeyInv
      <3> QED
        BY <2>2, <3>1
    <2> QED
      BY <2>1, <2>2
  <1> QED
    BY <1>2, <1>3, <1>4, <1>5, <1>6, <1>7, <1>8 DEF AgreeInv, LinkInv

\* The same for one service.
LEMMA OneAgrees ==
  ASSUME SocketInv, AgreeInv, NEW i \in DOMAIN socks, NEW s \in Service,
         pool' = pool, socks' = [socks EXCEPT ![i] = s],
         s.cnn = socks[i].cnn, Quiet(s), metrics \subseteq metrics',
         Meters(s) => Meters(socks[i]) \/ \E c \in Connections : pool[c] = i /\ c \in metrics',
         socks[i].cnn \in Connections /\ socks[i].ws = "open" /\ s.ws # "open" =>
            rows'[socks[i].cnn] # "connected",
         \A c \in Connections : rows'[c] = "connected" =>
            rows[c] = "connected" \/ (socks[i].cnn = c /\ s.ws = "open"),
         \A w \in waiters' : w \in waiters \/ pool[KeyOf(w.card)] = w.sock,
         \A card \in Cards :
            cards'[card] = "shown" => cards[card] = "shown" \/ pool[KeyOf(card)] # None
  PROVE  AgreeInv'
  <1> DEFINE f == [socks EXCEPT ![i] = s]
  <1>1. f \in [DOMAIN socks -> Service] /\ socks' = f
    BY SocksAreServices DEF SocketInv, PoolInv
  <1>2. f[i] = s /\ \A j \in DOMAIN socks : j # i => f[j] = socks[j]
    BY SocksAreServices DEF SocketInv, PoolInv
  <1> HIDE DEF f
  <1>3. \A j \in DOMAIN socks : f[j].cnn = socks[j].cnn /\ Quiet(f[j])
    BY <1>2 DEF AgreeInv, LinkInv, QuietInv
  <1>4. \A j \in DOMAIN socks : Meters(socks[j]) => socks[j].cnn \in metrics'
    BY DEF AgreeInv, MetricsKnown, Meters
  <1>5. \A j \in DOMAIN socks : Meters(f[j]) =>
            \/ Meters(socks[j]) /\ socks[j].cnn \in metrics'
            \/ \E c \in Connections : pool[c] = j /\ c \in metrics'
    BY <1>2, <1>4
  <1>6. \A j \in DOMAIN socks :
          socks[j].cnn \in Connections /\ socks[j].ws = "open" /\ f[j].ws # "open" =>
            rows'[socks[j].cnn] # "connected"
    BY <1>2
  <1>7. \A c \in Connections : rows'[c] = "connected" =>
            rows[c] = "connected" \/ \E j \in DOMAIN socks : socks[j].cnn = c /\ f[j].ws = "open"
    BY <1>2
  <1> QED
    BY <1>1, <1>3, <1>5, <1>6, <1>7, InPlaceAgrees

-----------------------------------------------------------------------------
(* Steps that add a service for a key, and may disconnect the one it had.    *)

LEMMA NewServiceAgrees ==
  ASSUME SocketInv, AgreeInv, NEW key \in Keys, NEW s \in Service,
         s.cnn = CnnOfKey(key), Quiet(s), ~Meters(s),
         NEW kept \in Seq(Service), Len(kept) = Len(socks),
         \A i \in DOMAIN socks :
            IF i = pool[key]
            THEN Quiet(kept[i]) /\ ~Meters(kept[i]) /\ rows'[CnnOfKey(key)] # "connected"
            ELSE kept[i] = socks[i],
         socks' = Append(kept, s), pool' = [pool EXCEPT ![key] = Len(socks) + 1],
         metrics \subseteq metrics',
         \A c \in Connections : rows'[c] = "connected" => rows[c] = "connected",
         \A w \in waiters' : w \in waiters \/ (KeyOf(w.card) = key /\ w.sock = Len(socks) + 1),
         \A card \in Cards :
            cards'[card] = "shown" => cards[card] = "shown" \/ KeyOf(card) = key
  PROVE  AgreeInv'
  <1> DEFINE n == Len(socks)
             all == Append(kept, s)
             new == [pool EXCEPT ![key] = n + 1]
  <1>1. /\ n \in Nat /\ DOMAIN socks = 1..n /\ pool \in [Keys -> 1..n \cup {None}]
        /\ \A k \in Keys : pool[k] # None => pool[k] \in DOMAIN socks
        /\ \A i \in DOMAIN socks : i # None
    BY SocksAreServices DEF SocketInv, PoolInv, PoolTyped
  <1>2. /\ all \in Seq(Service) /\ Len(all) = n + 1 /\ all[n + 1] = s
        /\ \A i \in 1..n : all[i] = kept[i]
    BY AppendProperties
  <1>3. DOMAIN all = 1..(n + 1)
    BY <1>2, LenProperties
  <1>4. new[key] = n + 1 /\ \A k \in Keys : k # key => new[k] = pool[k]
    BY <1>1
  <1>5. n + 1 \notin DOMAIN socks /\ n + 1 # None
    BY <1>1, NoneAssumption
  <1>6. \A k, j \in Keys : pool[k] # None /\ pool[k] = pool[j] => k = j
    BY DEF SocketInv, PoolInv, OneKey
  <1>7. \A i \in DOMAIN socks : i \in DOMAIN all /\ all[i] = kept[i]
    BY <1>1, <1>2, <1>3
  <1>8. \A i \in DOMAIN all : i = n + 1 \/ i \in DOMAIN socks
    BY <1>1, <1>3
  <1>e. socks' = all /\ pool' = new
    OBVIOUS
  <1> HIDE DEF n, all, new
  <1>9. KeyInv'
    <2> SUFFICES ASSUME NEW k \in Keys, new[k] # None
                 PROVE  all[new[k]].cnn = CnnOfKey(k)
      BY <1>e DEF KeyInv
    <2>1. CASE k = key
      BY <1>2, <1>4, <2>1
    <2>2. CASE k # key
      <3>1. new[k] = pool[k] /\ pool[k] \in DOMAIN socks
        BY <1>1, <1>4, <2>2
      <3>2. pool[k] # pool[key]
        BY <1>6, <2>2, <3>1, <1>1
      <3>3. all[pool[k]] = socks[pool[k]]
        BY <1>7, <3>1, <3>2
      <3> QED
        BY <1>1, <3>1, <3>3 DEF AgreeInv, LinkInv, KeyInv
    <2> QED
      BY <2>1, <2>2
  <1>10. QuietInv'
    BY <1>2, <1>7, <1>8, <1>e DEF AgreeInv, LinkInv, QuietInv
  <1>11. WaiterInv'
    <2> SUFFICES ASSUME NEW w \in waiters', NEW k \in Keys, new[k] = w.sock
                 PROVE  new[KeyOf(w.card)] = w.sock
      BY <1>e DEF WaiterInv, Pooled
    <2>1. CASE KeyOf(w.card) = key /\ w.sock = n + 1
      BY <1>4, <2>1
    <2>2. CASE w \in waiters
      <3>1. w.card \in Cards /\ w.sock \in DOMAIN socks
        BY <1>1, <2>2 DEF SocketInv, Rest, n
      <3>2. k # key /\ pool[k] = w.sock
        BY <1>4, <1>5, <3>1
      <3>3. pool[KeyOf(w.card)] = w.sock
        BY <2>2, <3>2 DEF AgreeInv, LinkInv, WaiterInv, Pooled
      <3>4. KeyOf(w.card) = k
        BY <1>1, <1>6, <3>1, <3>2, <3>3, CardKeys
      <3> QED
        BY <1>4, <3>2, <3>4
    <2> QED
      BY <2>1, <2>2 DEF n
  <1>12. ASSUME NEW i \in DOMAIN all, Meters(all[i])
         PROVE  /\ i \in DOMAIN socks /\ all[i] = socks[i] /\ Meters(socks[i])
                /\ \E c \in Connections : new[c] = i
    <2>1. i \in DOMAIN socks
      BY <1>2, <1>8, <1>12
    <2>2. i # pool[key] /\ all[i] = socks[i] /\ Meters(socks[i])
      BY <1>7, <1>12, <2>1
    <2>3. PICK c \in Connections : pool[c] = i
      BY <2>1, <2>2 DEF AgreeInv, LinkInv, HomeInv
    <2>4. c \in Keys /\ c # key
      BY <2>2, <2>3, CardKeys
    <2> QED
      BY <1>4, <2>1, <2>2, <2>3, <2>4
  <1>13. HomeInv'
    BY <1>12, <1>e DEF HomeInv
  <1>14. MetricsKnown'
    <2> SUFFICES ASSUME NEW i \in DOMAIN all, Meters(all[i])
                 PROVE  all[i].cnn \in metrics'
      BY <1>e DEF MetricsKnown, Meters
    <2>1. i \in DOMAIN socks /\ all[i] = socks[i] /\ Meters(socks[i])
      BY <1>12
    <2> QED
      BY <2>1 DEF AgreeInv, MetricsKnown, Meters
  <1>15. StatusHonest'
    <2> SUFFICES ASSUME NEW c \in Connections, rows'[c] = "connected"
                 PROVE  \E i \in DOMAIN all : all[i].cnn = c /\ all[i].ws = "open"
      BY <1>e DEF StatusHonest
    <2>1. PICK i \in DOMAIN socks : socks[i].cnn = c /\ socks[i].ws = "open"
      BY DEF AgreeInv, StatusHonest
    <2>2. i # pool[key]
      BY <1>1, <2>1 DEF AgreeInv, LinkInv, KeyInv
    <2> QED
      BY <1>7, <2>1, <2>2
  <1>16. ShownHasSocket'
    <2> SUFFICES ASSUME NEW card \in Cards, cards'[card] = "shown"
                 PROVE  new[KeyOf(card)] # None
      BY <1>e DEF ShownHasSocket
    <2>1. CASE KeyOf(card) = key
      BY <1>4, <1>5, <2>1
    <2>2. CASE KeyOf(card) # key
      BY <1>4, <2>2, CardKeys DEF AgreeInv, ShownHasSocket
    <2> QED
      BY <2>1, <2>2
  <1> QED
    BY <1>9, <1>10, <1>11, <1>13, <1>14, <1>15, <1>16 DEF AgreeInv, LinkInv

\* The delayed closing of a service that no card of the connection needs.
LEMMA DestroyAgrees ==
  ASSUME SocketInv, AgreeInv, NEW key \in Keys, DestroyTimer(key)
  PROVE  AgreeInv'
  <1>1. CASE UNCHANGED <<pool, socks, waiters, rows>>
    BY <1>1 DEF DestroyTimer, AgreeInv, LinkInv, KeyInv, QuietInv, WaiterInv, HomeInv, Pooled,
       StatusHonest, ShownHasSocket, MetricsKnown
  <1>2. CASE pool[key] # None /\ ~Needed(CnnOfKey(key)) /\ DestroyForce(key)
    <2> DEFINE i == pool[key]
               f == [socks EXCEPT ![i] = Disconnect(socks[i])]
               new == [pool EXCEPT ![key] = None]
    <2>1. /\ DOMAIN socks = 1..Len(socks) /\ i \in DOMAIN socks /\ socks[i] \in Service
          /\ pool \in [Keys -> 1..Len(socks) \cup {None}] /\ \A j \in DOMAIN socks : j # None
          /\ \A k \in Keys : pool[k] # None => pool[k] \in DOMAIN socks
      BY <1>2, SocksAreServices DEF SocketInv, PoolInv, PoolTyped
    <2>2. /\ DOMAIN f = DOMAIN socks /\ Quiet(f[i]) /\ ~Meters(f[i])
          /\ \A j \in DOMAIN socks : j # i => f[j] = socks[j]
      BY <2>1, DisconnectIsQuiet DEF AgreeInv, LinkInv, QuietInv
    <2>3. new[key] = None /\ \A k \in Keys : k # key => new[k] = pool[k]
      BY <2>1
    <2>4. \A k \in Keys : pool[k] = i => k = key
      BY <1>2 DEF SocketInv, PoolInv, OneKey
    <2>5. /\ socks' = f /\ pool' = new /\ UNCHANGED <<cards, metrics>>
          /\ SetStatus(socks[i].cnn, "undefined") /\ waiters' \subseteq waiters
      BY <1>2 DEF DestroyForce, DestroyTimer, DropListeners
    <2>6. socks[i].cnn = CnnOfKey(key)
      BY <1>2 DEF AgreeInv, LinkInv, KeyInv
    <2>7. rows' = [rows EXCEPT ![CnnOfKey(key)] = "undefined"] /\ CnnOfKey(key) \in Connections
      BY <2>5, <2>6, KeyFacts, NoneAssumption DEF SetStatus
    <2> HIDE DEF i, f, new
    <2>8. KeyInv'
      BY <2>1, <2>2, <2>3, <2>4, <2>5 DEF AgreeInv, LinkInv, KeyInv
    <2>9. QuietInv'
      BY <2>2, <2>5 DEF AgreeInv, LinkInv, QuietInv
    <2>10. WaiterInv'
      <3> SUFFICES ASSUME NEW w \in waiters, NEW k \in Keys, new[k] = w.sock
                   PROVE  new[KeyOf(w.card)] = w.sock
        BY <2>5 DEF WaiterInv, Pooled
      <3>1. w.card \in Cards /\ w.sock \in DOMAIN socks
        BY <2>1 DEF SocketInv, Rest
      <3>2. k # key /\ pool[k] = w.sock
        BY <2>1, <2>3, <3>1
      <3>3. pool[KeyOf(w.card)] = w.sock
        BY <3>2 DEF AgreeInv, LinkInv, WaiterInv, Pooled
      <3>4. KeyOf(w.card) = k
        BY <2>1, <3>1, <3>2, <3>3, CardKeys DEF SocketInv, PoolInv, OneKey
      <3> QED
        BY <2>3, <3>2, <3>4
    <2>11. HomeInv'
      <3> SUFFICES ASSUME NEW j \in DOMAIN socks, Meters(f[j])
                   PROVE  \E c \in Connections : new[c] = j
        BY <2>2, <2>5 DEF HomeInv
      <3>1. j # i /\ Meters(socks[j])
        BY <2>2
      <3>2. PICK c \in Connections : pool[c] = j
        BY <3>1 DEF AgreeInv, LinkInv, HomeInv
      <3>3. c \in Keys /\ c # key
        BY <3>1, <3>2, CardKeys DEF i
      <3> QED
        BY <2>3, <3>2, <3>3
    <2>12. MetricsKnown'
      <3> SUFFICES ASSUME NEW j \in DOMAIN socks, Meters(f[j])
                   PROVE  f[j].cnn \in metrics
        BY <2>2, <2>5 DEF MetricsKnown, Meters
      <3>1. f[j] = socks[j]
        BY <2>2
      <3> QED
        BY <3>1 DEF AgreeInv, MetricsKnown, Meters
    <2>13. StatusHonest'
      <3> SUFFICES ASSUME NEW c \in Connections, rows'[c] = "connected"
                   PROVE  \E j \in DOMAIN f : f[j].cnn = c /\ f[j].ws = "open"
        BY <2>5 DEF StatusHonest
      <3>1. c # CnnOfKey(key) /\ rows[c] = "connected"
        BY <2>7 DEF SocketInv, Rest
      <3>2. PICK j \in DOMAIN socks : socks[j].cnn = c /\ socks[j].ws = "open"
        BY <3>1 DEF AgreeInv, StatusHonest
      <3> QED
        BY <2>2, <2>6, <3>1, <3>2
    <2>14. ShownHasSocket'
      <3> SUFFICES ASSUME NEW card \in Cards, cards[card] = "shown"
                   PROVE  new[KeyOf(card)] # None
        BY <2>5 DEF ShownHasSocket
      <3>1. KeyOf(card) # key
        BY <1>2, CardKeys DEF Needed
      <3> QED
        BY <2>3, <3>1, CardKeys DEF AgreeInv, ShownHasSocket
    <2> QED
      BY <2>8, <2>9, <2>10, <2>11, <2>12, <2>13, <2>14 DEF AgreeInv, LinkInv
  <1> QED
    BY <1>1, <1>2 DEF DestroyTimer

-----------------------------------------------------------------------------
(* The actions.                                                              *)

\* A card asks for its service; if it is a metrics card it goes on at once when
\* the service is open, or waits for it.
LEMMA GetOrCreateAgrees ==
  ASSUME SocketInv, AgreeInv, NEW card \in Cards, NEW then \in SUBSET {card},
         GetOrCreate(KeyOf(card), then), rows' = rows,
         \A d \in Cards : cards'[d] = "shown" => cards[d] = "shown" \/ d = card
  PROVE  AgreeInv'
  <1> DEFINE key == KeyOf(card)
  <1>1. key \in Keys /\ CnnOfKey(key) = CnnOf[card] /\ CnnOf[card] \in Connections
    BY CardKeys
  <1>2. metrics \subseteq metrics'
    BY DEF GetOrCreate, Registered
  <1>3. CASE pool[key] # None
    <2> DEFINE i == pool[key]
               s == IF socks[i].ws = "open" THEN Resumed(socks[i], then) ELSE socks[i]
    <2>1. i \in DOMAIN socks /\ socks[i] \in Service /\ socks \in [DOMAIN socks -> Service]
      BY <1>1, <1>3, SocksAreServices DEF SocketInv, PoolInv
    <2>2. Quiet(socks[i])
      BY <2>1 DEF AgreeInv, LinkInv, QuietInv
    <2>3. /\ s \in Service /\ s.cnn = socks[i].cnn /\ s.ws = socks[i].ws /\ Quiet(s)
          /\ Meters(s) => Meters(socks[i]) \/ (socks[i].ws = "open" /\ then \cap MetricsCards # {})
      BY <2>1, <2>2, ResumedKeeps, ResumedMeters
    <2>4. /\ pool' = pool /\ socks' = [socks EXCEPT ![i] = s]
          /\ \A w \in waiters' : w \in waiters \/ (w.card \in then /\ w.sock = i)
          /\ socks[i].ws = "open" =>
               metrics' = metrics \cup {CnnOf[c] : c \in then \cap MetricsCards}
      <3>1. [socks EXCEPT ![i] = socks[i]] = socks
        BY <2>1
      <3>2. pool' = pool
        BY <1>1, <1>3 DEF GetOrCreate, SocketInv, PoolInv, PoolTyped
      <3> QED
        BY <1>3, <3>1, <3>2 DEF GetOrCreate, Registered
    <2>5. Meters(s) => Meters(socks[i]) \/ \E c \in Connections : pool[c] = i /\ c \in metrics'
      <3> SUFFICES ASSUME socks[i].ws = "open", then \cap MetricsCards # {}
                   PROVE  \E c \in Connections : pool[c] = i /\ c \in metrics'
        BY <2>3
      <3>1. card \in then /\ card \in MetricsCards
        OBVIOUS
      <3>2. KeyOf(card) = CnnOf[card] /\ CnnOf[card] \in metrics'
        BY <2>4, <3>1, CardKeys
      <3> QED
        BY <1>1, <3>2
    <2>6. /\ \A w \in waiters' : w \in waiters \/ pool[KeyOf(w.card)] = w.sock
          /\ \A d \in Cards : cards'[d] = "shown" => cards[d] = "shown" \/ pool[KeyOf(d)] # None
      BY <1>3, <2>4
    <2> HIDE DEF i, s, key
    <2> QED
      BY <1>2, <2>1, <2>3, <2>4, <2>5, <2>6, OneAgrees
  <1>4. CASE pool[key] = None
    <2>1. PICK starts \in BOOLEAN :
            LET all == Append(socks, Connect(Fresh, CnnOfKey(key), starts))
                open == all[Len(all)].ws = "open"
            IN  /\ pool' = [pool EXCEPT ![key] = Len(all)]
                /\ socks' = IF open THEN [all EXCEPT ![Len(all)] = Resumed(@, then)] ELSE all
                /\ waiters' = IF open THEN waiters
                              ELSE waiters \cup [card: then, sock: {Len(all)}]
      BY <1>4 DEF GetOrCreate
    <2> DEFINE s == Connect(Fresh, CnnOfKey(key), starts)
    <2>2. /\ s \in Service /\ s.cnn = CnnOfKey(key) /\ Quiet(s) /\ ~Meters(s) /\ s.ws # "open"
      BY <1>1, FreshIsQuiet, FreshConnects
    <2>3. socks \in Seq(Service) /\ Len(socks) \in Nat /\ \A i \in DOMAIN socks : i # None
      BY SocksAreServices DEF SocketInv, PoolInv, PoolTyped
    <2> HIDE DEF s
    <2>4. Len(Append(socks, s)) = Len(socks) + 1 /\ Append(socks, s)[Len(socks) + 1] = s
      BY <2>2, <2>3, AppendProperties
    <2>5. /\ socks' = Append(socks, s) /\ pool' = [pool EXCEPT ![key] = Len(socks) + 1]
          /\ waiters' = waiters \cup [card: then, sock: {Len(socks) + 1}]
      BY <2>1, <2>2, <2>4 DEF s
    <2>6. \A i \in DOMAIN socks : i # pool[key]
      BY <1>4, <2>3
    <2>7. /\ \A w \in waiters' : w \in waiters \/ (KeyOf(w.card) = key /\ w.sock = Len(socks) + 1)
          /\ \A d \in Cards : cards'[d] = "shown" => cards[d] = "shown" \/ KeyOf(d) = key
      BY <2>5
    <2> HIDE DEF key
    <2> QED
      BY <1>1, <1>2, <2>2, <2>3, <2>5, <2>6, <2>7, NewServiceAgrees
  <1> QED
    BY <1>3, <1>4

\* Nothing happens to the services.
LEMMA ServicesStay ==
  ASSUME SocketInv, AgreeInv, UNCHANGED <<pool, socks>>, waiters' \subseteq waiters,
         metrics' = metrics, \A c \in Connections : rows'[c] = "connected" =>
            rows[c] = "connected" \/ \E i \in DOMAIN socks : socks[i].cnn = c /\ socks[i].ws = "open",
         \A d \in Cards : cards'[d] = "shown" => cards[d] = "shown"
  PROVE  AgreeInv'
  <1>1. LinkInv'
    BY DEF AgreeInv, LinkInv, KeyInv, QuietInv, WaiterInv, HomeInv, Pooled
  <1>2. StatusHonest'
    BY DEF AgreeInv, StatusHonest
  <1>3. ShownHasSocket' /\ MetricsKnown'
    BY DEF AgreeInv, ShownHasSocket, MetricsKnown
  <1> QED
    BY <1>1, <1>2, <1>3 DEF AgreeInv

LEMMA OpenAgrees ==
  ASSUME SocketInv, AgreeInv, NEW card \in Cards, OpenCard(card) \/ Show(card)
  PROVE  AgreeInv'
  <1>1. cards \in [Cards -> {"closed", "hidden", "shown"}]
    BY DEF SocketInv, Rest
  <1>2. /\ rows' = rows
        /\ \A d \in Cards : cards'[d] = "shown" => cards[d] = "shown" \/ (d = card /\ Show(card))
    BY <1>1 DEF OpenCard, Show
  <1>3. CASE \E then \in SUBSET {card} : GetOrCreate(KeyOf(card), then)
    BY <1>2, <1>3, GetOrCreateAgrees
  <1>4. CASE OpenCard(card) /\ UNCHANGED <<pool, socks, waiters, metrics>>
    <2>1. \A d \in Cards : cards'[d] = "shown" => cards[d] = "shown"
      BY <1>1, <1>4 DEF OpenCard
    <2> QED
      BY <1>2, <1>4, <2>1, ServicesStay
  <1> QED
    BY <1>3, <1>4 DEF OpenCard, Show

LEMMA HideAgrees ==
  ASSUME SocketInv, AgreeInv, NEW card \in Cards, Hide(card)
  PROVE  AgreeInv'
  <1> DEFINE f == [i \in DOMAIN socks |->
                     IF i = pool[KeyOf(card)] THEN Silence(socks[i], card) ELSE socks[i]]
  <1>1. \A i \in DOMAIN socks : socks[i] \in Service /\ Quiet(socks[i])
    BY SocksAreServices DEF SocketInv, PoolInv, AgreeInv, LinkInv, QuietInv
  <1>2. f \in [DOMAIN socks -> Service]
    BY <1>1, SilenceKeeps
  <1>3. \A i \in DOMAIN socks : /\ f[i].cnn = socks[i].cnn /\ f[i].ws = socks[i].ws
                                /\ Quiet(f[i]) /\ (Meters(f[i]) => Meters(socks[i]))
    BY <1>1, SilenceStays
  <1>4. /\ socks' = f /\ pool' = pool /\ UNCHANGED <<waiters, metrics, rows>>
        /\ \A d \in Cards : cards'[d] = "shown" => cards[d] = "shown"
    BY DEF Hide, SocketInv, Rest
  <1>5. \A i \in DOMAIN socks : Meters(socks[i]) => socks[i].cnn \in metrics'
    BY <1>4 DEF AgreeInv, MetricsKnown, Meters
  <1> HIDE DEF f
  <1> QED
    BY <1>2, <1>3, <1>4, <1>5, InPlaceAgrees

\* The last metrics card of a connection turns metrics off on the one service
\* that has any, before the entry of its connection goes.
LEMMA CloseAgrees ==
  ASSUME SocketInv, AgreeInv, NEW card \in Cards, Close(card)
  PROVE  AgreeInv'
  <1> DEFINE c == CnnOf[card]
             off == /\ card \in MetricsCards /\ ~MetricsWanted(c, cards')
                    /\ pool[c] # None /\ c \in metrics
             g == [i \in DOMAIN socks |-> IF off THEN TurnOff(socks[i]) ELSE socks[i]]
             f == [i \in DOMAIN socks |->
                     IF i = pool[KeyOf(card)] THEN Silence(g[i], card) ELSE socks[i]]
  <1>1. \A i \in DOMAIN socks : socks[i] \in Service /\ Quiet(socks[i])
    BY SocksAreServices DEF SocketInv, PoolInv, AgreeInv, LinkInv, QuietInv
  <1>2. \A i \in DOMAIN socks : /\ g[i] \in Service /\ g[i].cnn = socks[i].cnn
                                /\ g[i].ws = socks[i].ws /\ Quiet(g[i])
                                /\ Meters(g[i]) => Meters(socks[i]) /\ ~off
    BY <1>1, TurnOffKeeps, TurnOffStays
  <1>3. /\ socks' = f /\ pool' = pool /\ UNCHANGED <<waiters, rows>>
        /\ metrics' = IF off THEN metrics \ {c} ELSE metrics
        /\ \A d \in Cards : cards'[d] = "shown" => cards[d] = "shown"
    BY DEF Close, SocketInv, Rest
  <1> HIDE DEF g
  <1>4. f \in [DOMAIN socks -> Service]
    BY <1>1, <1>2, SilenceKeeps
  <1>5. \A i \in DOMAIN socks : /\ f[i].cnn = socks[i].cnn /\ f[i].ws = socks[i].ws
                                /\ Quiet(f[i]) /\ (Meters(f[i]) => Meters(socks[i]))
                                /\ Meters(f[i]) => ~(off /\ i = pool[KeyOf(card)])
    BY <1>1, <1>2, SilenceStays
  <1>6. off => KeyOf(card) = c /\ c \in Connections
    BY CardKeys
  <1> HIDE DEF f, off
  <1>7. \A i \in DOMAIN socks : Meters(f[i]) => Meters(socks[i]) /\ socks[i].cnn \in metrics'
    <2> SUFFICES ASSUME NEW i \in DOMAIN socks, Meters(f[i])
                 PROVE  socks[i].cnn \in metrics'
      BY <1>5
    <2>1. Meters(socks[i]) /\ socks[i].cnn \in metrics
      BY <1>5 DEF AgreeInv, MetricsKnown, Meters
    <2>2. PICK d \in Connections : pool[d] = i
      BY <2>1 DEF AgreeInv, LinkInv, HomeInv
    <2>3. i # None
      BY SocksAreServices DEF SocketInv, PoolInv
    <2>4. socks[i].cnn = d
      BY <2>2, <2>3, CardKeys DEF AgreeInv, LinkInv, KeyInv
    <2>5. off => d # c
      BY <1>5, <1>6, <2>2
    <2> QED
      BY <1>3, <2>1, <2>4, <2>5
  <1> QED
    BY <1>3, <1>4, <1>5, <1>7, InPlaceAgrees

\* A websocket opens, is lost, gets its status or is tried again.
LEMMA EventAgrees ==
  ASSUME SocketInv, AgreeInv, NEW i \in DOMAIN socks,
         \/ WsOpen(i) \/ WsClose(i) \/ LateClose(i) \/ RetryTimer(i)
         \/ \E status \in Status : WsStatus(i, status)
  PROVE  AgreeInv'
  <1>1. /\ socks[i] \in Service /\ Quiet(socks[i]) /\ i # None
        /\ socks[i].cnn \in Connections \cup {None}
        /\ rows \in [Connections -> Status \cup {"absent", "unset", "undefined"}]
        /\ Pooled(i) \/ Dead(socks[i])
    <2>1. socks[i] \in Service /\ i # None
      BY SocksAreServices DEF SocketInv, PoolInv
    <2> QED
      BY <2>1 DEF SocketInv, PoolInv, Kept, Rest, AgreeInv, LinkInv, QuietInv, Service
  <1>2. pool' = pool /\ waiters' \subseteq waiters /\ cards' = cards
    BY DEF WsOpen, WsClose, LateClose, RetryTimer, Reconnect, WsStatus, DropListeners
  <1>3. CASE WsOpen(i)
    <2> DEFINE r == {w.card : w \in {v \in waiters : v.sock = i}}
               s == Resumed(StopTimer([socks[i] EXCEPT !.ws = "open"]), r)
    <2>1. /\ socks[i].ws = "connecting" /\ socks' = [socks EXCEPT ![i] = s]
          /\ Registered(r) /\ SetStatus(socks[i].cnn, "reconnecting")
      BY <1>3 DEF WsOpen
    <2>2. /\ s \in Service /\ s.cnn = socks[i].cnn /\ s.ws = "open" /\ Quiet(s)
          /\ Meters(s) => Meters(socks[i]) \/ r \cap MetricsCards # {}
      BY <1>1, <2>1, OpenKeeps, OpenMeters
    <2>3. metrics \subseteq metrics'
      BY <2>1 DEF Registered
    <2>4. ASSUME r \cap MetricsCards # {}
          PROVE  \E c \in Connections : pool[c] = i /\ c \in metrics'
      <3>1. PICK w \in waiters : w.sock = i /\ w.card \in MetricsCards
        BY <2>4
      <3>2. Pooled(i)
        BY <1>1, <2>1 DEF Dead
      <3>3. pool[KeyOf(w.card)] = i
        BY <3>1, <3>2 DEF AgreeInv, LinkInv, WaiterInv
      <3>4. KeyOf(w.card) = CnnOf[w.card] /\ CnnOf[w.card] \in Connections
        BY <3>1, CardKeys
      <3>5. CnnOf[w.card] \in metrics'
        BY <2>1, <3>1 DEF Registered
      <3> QED
        BY <3>3, <3>4, <3>5
    <2>5. \A c \in Connections : rows'[c] = "connected" => rows[c] = "connected"
      BY <1>1, <2>1 DEF SetStatus
    <2> HIDE DEF s, r
    <2> QED
      BY <1>2, <2>1, <2>2, <2>3, <2>4, <2>5, OneAgrees
  <1>4. CASE WsClose(i) \/ LateClose(i)
    <2>1. PICK s \in {StartTimer(Clear(socks[i])),
                      StartTimer(Clear([socks[i] EXCEPT !.late = FALSE]))} :
            /\ socks' = [socks EXCEPT ![i] = s] /\ metrics' = metrics
            /\ SetStatus(socks[i].cnn, "reconnecting")
      BY <1>4 DEF WsClose, LateClose
    <2>2. s \in Service /\ s.cnn = socks[i].cnn /\ Quiet(s) /\ ~Meters(s)
      BY <1>1, CloseKeeps, ClosedIsQuiet
    <2>3. /\ \A c \in Connections : rows'[c] = "connected" => rows[c] = "connected"
          /\ socks[i].cnn \in Connections => rows'[socks[i].cnn] # "connected"
      BY <1>1, <2>1, NoneAssumption DEF SetStatus
    <2> QED
      BY <1>2, <2>1, <2>2, <2>3, OneAgrees
  <1>5. CASE RetryTimer(i)
    <2>1. PICK starts \in BOOLEAN :
            socks' = [socks EXCEPT ![i] = Connect(StopTimer(socks[i]), socks[i].cnn, starts)]
      BY <1>5 DEF RetryTimer, Reconnect
    <2> DEFINE s == Connect(StopTimer(socks[i]), socks[i].cnn, starts)
    <2>2. /\ s \in Service /\ s.cnn = socks[i].cnn /\ Quiet(s) /\ (Meters(s) => Meters(socks[i]))
          /\ socks[i].ws = "open" => s.ws = "open"
      BY <1>1, ConnectKeeps, ConnectStays
    <2>3. socks' = [socks EXCEPT ![i] = s] /\ metrics' = metrics /\ rows' = rows
      BY <1>5, <2>1 DEF RetryTimer
    <2> HIDE DEF s
    <2> QED
      BY <1>2, <2>2, <2>3, OneAgrees
  <1>6. ASSUME NEW status \in Status, WsStatus(i, status)
        PROVE  AgreeInv'
    <2>1. /\ socks[i].ws = "open" /\ UNCHANGED <<pool, socks, waiters, metrics, cards>>
          /\ SetStatus(socks[i].cnn, status)
      BY <1>6 DEF WsStatus
    <2>2. \A c \in Connections : rows'[c] = "connected" =>
            rows[c] = "connected" \/ \E j \in DOMAIN socks : socks[j].cnn = c /\ socks[j].ws = "open"
      <3> SUFFICES ASSUME NEW c \in Connections, rows'[c] = "connected", rows[c] # "connected"
                   PROVE  socks[i].cnn = c
        BY <2>1
      <3> QED
        BY <1>1, <2>1 DEF SetStatus
    <2> QED
      BY <2>1, <2>2, ServicesStay
  <1> QED
    BY <1>3, <1>4, <1>5, <1>6

\* fetch shows every connection anew and connects services that were not open.
LEMMA FetchAgrees ==
  ASSUME SocketInv, AgreeInv, Fetch
  PROVE  AgreeInv'
  <1>1. PICK idle : socks' = [i \in DOMAIN socks |->
                                IF i \in idle THEN Connect(socks[i], socks[i].cnn, TRUE)
                                ELSE socks[i]]
    BY DEF Fetch
  <1> DEFINE f == [i \in DOMAIN socks |->
                     IF i \in idle THEN Connect(socks[i], socks[i].cnn, TRUE) ELSE socks[i]]
  <1>2. \A i \in DOMAIN socks : socks[i] \in Service /\ Quiet(socks[i])
    BY SocksAreServices DEF SocketInv, PoolInv, AgreeInv, LinkInv, QuietInv
  <1>3. \A i \in DOMAIN socks : /\ f[i] \in Service /\ f[i].cnn = socks[i].cnn /\ Quiet(f[i])
                                /\ Meters(f[i]) => Meters(socks[i])
    BY <1>2, ConnectKeeps, ConnectStays
  <1>4. /\ socks' = f /\ pool' = pool /\ waiters' \subseteq waiters /\ UNCHANGED <<cards, metrics>>
        /\ \A c \in Connections : rows'[c] # "connected"
    BY <1>1 DEF Fetch
  <1>5. \A i \in DOMAIN socks : Meters(socks[i]) => socks[i].cnn \in metrics'
    BY <1>4 DEF AgreeInv, MetricsKnown, Meters
  <1>6. f \in [DOMAIN socks -> Service]
    BY <1>3
  <1> HIDE DEF f
  <1> QED
    BY <1>3, <1>4, <1>5, <1>6, InPlaceAgrees

\* save shows the connection it has replaced the service of as not connected.
LEMMA SaveAgrees ==
  ASSUME SocketInv, AgreeInv, NEW c \in Connections, Save(c)
  PROVE  AgreeInv'
  <1> DEFINE old == pool[c]
             s == Connect(Fresh, c, TRUE)
             kept == IF old = None THEN socks ELSE [socks EXCEPT ![old] = Disconnect(socks[old])]
  <1>1. /\ c \in Keys /\ CnnOfKey(c) = c
        /\ s \in Service /\ s.cnn = CnnOfKey(c) /\ Quiet(s) /\ ~Meters(s)
    BY CardKeys, FreshIsQuiet, FreshConnects
  <1>2. /\ socks \in Seq(Service) /\ Len(socks) \in Nat /\ DOMAIN socks = 1..Len(socks)
        /\ \A i \in DOMAIN socks : i # None /\ socks[i] \in Service /\ Quiet(socks[i])
        /\ old # None => old \in 1..Len(socks)
    BY <1>1, SocksAreServices DEF SocketInv, PoolInv, PoolTyped, AgreeInv, LinkInv, QuietInv
  <1>3. /\ kept \in Seq(Service) /\ Len(kept) = Len(socks)
        /\ \A i \in DOMAIN socks : IF i = old THEN Quiet(kept[i]) /\ ~Meters(kept[i])
                                   ELSE kept[i] = socks[i]
    <2>1. CASE old = None
      BY <1>2, <2>1
    <2>2. CASE old # None
      BY <1>2, <2>2, DisconnectKills, DisconnectIsQuiet, ExceptSeq
    <2> QED
      BY <2>1, <2>2
  <1>4. /\ socks' = Append(kept, s) /\ pool' = [pool EXCEPT ![c] = Len(socks) + 1]
        /\ waiters' \subseteq waiters /\ UNCHANGED <<cards, metrics>>
    BY DEF Save
  <1>5. /\ \A d \in Connections : rows'[d] = "connected" => rows[d] = "connected"
        /\ old # None => rows'[c] # "connected"
    BY DEF Save, SocketInv, Rest
  <1>6. \A i \in DOMAIN socks :
            IF i = pool[c]
            THEN Quiet(kept[i]) /\ ~Meters(kept[i]) /\ rows'[CnnOfKey(c)] # "connected"
            ELSE kept[i] = socks[i]
    BY <1>1, <1>2, <1>3, <1>5
  <1> HIDE DEF kept, s
  <1> QED
    BY <1>1, <1>3, <1>4, <1>5, <1>6, NewServiceAgrees

LEMMA StepAgrees ==
  ASSUME SocketInv, AgreeInv, [PoolNext]_poolVars
  PROVE  AgreeInv'
  <1>1. CASE UNCHANGED poolVars
    BY <1>1, ServicesStay DEF poolVars
  <1>2. CASE CardNext
    BY <1>2, OpenAgrees, HideAgrees, CloseAgrees DEF CardNext
  <1>3. CASE SocketNext
    BY <1>3, EventAgrees DEF SocketNext
  <1>4. CASE \E key \in Keys : DestroyTimer(key)
    BY <1>4, DestroyAgrees
  <1>5. CASE Fetch \/ \E c \in Connections : Save(c)
    BY <1>5, FetchAgrees, SaveAgrees
  <1>6. ASSUME NEW w \in waiters, WaitTimeout(w)
        PROVE  AgreeInv'
    BY <1>6, ServicesStay DEF WaitTimeout
  <1>7. ASSUME NEW c \in Connections, Delete(c)
        PROVE  AgreeInv'
    <2>1. \A d \in Connections : rows'[d] = "connected" => rows[d] = "connected"
      BY <1>7 DEF Delete, SocketInv, Rest
    <2> QED
      BY <1>7, <2>1, ServicesStay DEF Delete
  <1> QED
    BY <1>1, <1>2, <1>3, <1>4, <1>5, <1>6, <1>7 DEF PoolNext

\* The cards, the rows and the metrics store tell of the sockets that are there: a
\* connection is shown as connected only while one of its websockets is open, a card
\* on the screen has its service, and a listener of metrics finds their entry, for any
\* number of connections, cards, services and failures.
THEOREM ShownAsTheyAre == PoolSpec => []SocketsAgree
  <1>1. PoolInit => AgreeInv
    <2> SUFFICES ASSUME PoolInit
                 PROVE  AgreeInv
      OBVIOUS
    <2>1. DOMAIN socks = {}
      BY DEF PoolInit
    <2> QED
      BY <2>1 DEF PoolInit, AgreeInv, LinkInv, KeyInv, QuietInv, WaiterInv, HomeInv, StatusHonest,
         ShownHasSocket, MetricsKnown
  <1>2. SocketInv /\ AgreeInv /\ [PoolNext]_poolVars => AgreeInv'
    BY StepAgrees
  <1>3. SocketInv /\ AgreeInv => SocketsAgree
    BY DEF SocketInv, PoolInv, PoolTyped, Rest, PoolTypeOK, AgreeInv, SocketsAgree
  <1> QED
    BY <1>1, <1>2, <1>3, AlwaysKept, PTL DEF PoolSpec
=============================================================================
