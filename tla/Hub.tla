-------------------------------- MODULE Hub --------------------------------
(***************************************************************************)
(* The control side of the websocket hub: one websocket client per browser *)
(* view, registered with ws.Hub, whose requests one goroutine serves one   *)
(* at a time.  A subscription request replaces the client's NATS           *)
(* subscriptions, a metrics request starts or stops its metrics collector, *)
(* and the end of the websocket's context tears both down.  What flows     *)
(* through the subscriptions is in HubPipeline, which extends this module. *)
(*                                                                         *)
(* A subscription s is <<client, generation, position>>: the subject at    *)
(* that position of the client's generation-th subscription request.       *)
(***************************************************************************)
EXTENDS Naturals, Sequences

CONSTANTS
  Clients,      \* websocket clients; HandleWsSub gives each a fresh uuid
  SubjectLists, \* the subject lists a client may ask for
  MaxRequests,  \* bound: requests read from one websocket
  ReqCap,       \* capacity of reqCh (1 in the code)
  NoOne         \* no client, no subscription, no request

ASSUME CapAssumption == ReqCap \in Nat \ {0} /\ MaxRequests \in Nat

\* Lists of any subjects: the hub passes a subject to NATS without reading it.
ASSUME ListAssumption == \A r \in SubjectLists : DOMAIN r = 1..Len(r) /\ Len(r) \in Nat

ASSUME NoOneAssumption == NoOne \notin Clients /\ NoOne \notin Clients \X Nat \X Nat

VARIABLES
  ctx,      \* the context of a client's websocket
  reader,   \* HandleWsRequest, the goroutine that reads the websocket
  reqCh,    \* requests read and not yet served
  nreq,     \* requests read so far
  wanted,   \* history: the last subject list the client sent
  reg,      \* h.reg: the registered clients
  lock,     \* the holder of h.connectionMutex
  handler,  \* HandleRequests: where a client's request goroutine is
  job,      \* the request it is serving
  gen,      \* subscription requests it has served or is serving
  asked,    \* the subjects of the last of them
  subs,     \* ClientConn.Subs
  todo,     \* subscriptions UnsubscribeAll has still to visit
  closing,  \* the one it has unsubscribed and not yet closed
  active,   \* the subscriptions NATS delivers to
  closed,   \* the subscriptions whose channel is closed
  fanned,   \* <<client, generation>> whose fan-in and parser were started
  mcancel,  \* ClientConn.MetricsCancel: the metrics context it ends, 0 if nil
  started,  \* metrics contexts created for the client so far
  mlive,    \* those of them nobody cancelled
  relay     \* those relayMetricsToClient runs for

socketVars  == <<ctx, reader, reqCh, nreq, wanted>>
connVars    == <<gen, asked, subs>>
unsubVars   == <<todo, closing>>
natsVars    == <<active, closed, fanned>>
metricVars  == <<mcancel, started, mlive, relay>>
vars == <<socketVars, reg, lock, handler, job, connVars, unsubVars, natsVars, metricVars>>

-----------------------------------------------------------------------------
SubIds == Clients \X Nat \X Nat
Owner(s) == s[1]

SubRequest     == [type : {"sub"}, subjects : SubjectLists]
MetricsRequest == [type : {"metrics"}, enabled : BOOLEAN]
\* A type the hub does not know, or a payload mapstructure cannot decode.
BadRequest     == [type : {"bad"}]
Requests       == SubRequest \union MetricsRequest \union BadRequest

\* The value of job[c] while tearDownClient runs.
Teardown == [type |-> "teardown"]

\* The places of HandleRequests at which the client is in the registry.
Serving == {"select", "purge", "unsubscribe", "subscribe", "metrics",
            "disable", "unregister"}

-----------------------------------------------------------------------------
Init ==
  /\ ctx     = [c \in Clients |-> "none"]
  /\ reader  = [c \in Clients |-> "off"]
  /\ reqCh   = [c \in Clients |-> <<>>]
  /\ nreq    = [c \in Clients |-> 0]
  /\ wanted  = [c \in Clients |-> <<>>]
  /\ reg     = {}
  /\ lock    = NoOne
  /\ handler = [c \in Clients |-> "off"]
  /\ job     = [c \in Clients |-> NoOne]
  /\ gen     = [c \in Clients |-> 0]
  /\ asked   = [c \in Clients |-> <<>>]
  /\ subs    = [c \in Clients |-> {}]
  /\ todo    = [c \in Clients |-> {}]
  /\ closing = [c \in Clients |-> NoOne]
  /\ active  = {}
  /\ closed  = {}
  /\ fanned  = {}
  /\ mcancel = [c \in Clients |-> 0]
  /\ started = [c \in Clients |-> 0]
  /\ mlive   = [c \in Clients |-> {}]
  /\ relay   = [c \in Clients |-> {}]

-----------------------------------------------------------------------------
(* The websocket: HandleWsSub, its close handler and HandleWsRequest. *)

\* HandleWsSub registers the client and starts its goroutines.  The id is
\* fresh, so the purgeConnection of Register only takes the lock.
Register(c) ==
  /\ ctx[c] = "none"
  /\ lock = NoOne
  /\ ctx'     = [ctx EXCEPT ![c] = "live"]
  /\ reg'     = reg \union {c}
  /\ handler' = [handler EXCEPT ![c] = "select"]
  /\ reader'  = [reader EXCEPT ![c] = "reading"]
  /\ UNCHANGED <<reqCh, nreq, wanted, lock, job, connVars, unsubVars, natsVars, metricVars>>

\* The pool has no connection for the requested id: nothing is started.
RegisterFails(c) ==
  /\ ctx[c] = "none"
  /\ lock = NoOne
  /\ ctx' = [ctx EXCEPT ![c] = "refused"]
  /\ UNCHANGED <<reader, reqCh, nreq, wanted, reg, lock, handler, job, connVars,
                 unsubVars, natsVars, metricVars>>

\* A close frame, a failed write, or the end of the application's context.
Cancel(c) ==
  /\ ctx[c] = "live"
  /\ ctx' = [ctx EXCEPT ![c] = "done"]
  /\ UNCHANGED <<reader, reqCh, nreq, wanted, reg, lock, handler, job, connVars,
                 unsubVars, natsVars, metricVars>>

HasRoom_OffByOne(c) == Len(reqCh[c]) <= ReqCap
HasRoom(c) == Len(reqCh[c]) < ReqCap

\* One round of HandleWsRequest.  A request that does not fit in reqCh is
\* dropped; once the context is done, select may also take that branch.
ReadRequest(c, r) ==
  /\ reader[c] = "reading"
  /\ nreq[c] < MaxRequests
  /\ nreq' = [nreq EXCEPT ![c] = @ + 1]
  /\ wanted' = IF r.type = "sub" THEN [wanted EXCEPT ![c] = r.subjects] ELSE wanted
  /\ \/ /\ HasRoom(c)
        /\ reqCh' = [reqCh EXCEPT ![c] = Append(@, r)]
        /\ UNCHANGED reader
     \/ /\ ~HasRoom(c) /\ ctx[c] = "live"
        /\ UNCHANGED <<reqCh, reader>>
     \/ /\ ctx[c] = "done"
        /\ reader' = [reader EXCEPT ![c] = "ended"]
        /\ UNCHANGED reqCh
  /\ UNCHANGED <<ctx, reg, lock, handler, job, connVars, unsubVars, natsVars, metricVars>>

\* ReadJSON fails: the socket is gone, or the frame is not JSON.
ReadFails(c) ==
  /\ reader[c] = "reading"
  /\ reader' = [reader EXCEPT ![c] = "ended"]
  /\ ctx'    = [ctx EXCEPT ![c] = "done"]
  /\ UNCHANGED <<reqCh, nreq, wanted, reg, lock, handler, job, connVars, unsubVars,
                 natsVars, metricVars>>

-----------------------------------------------------------------------------
(* HandleRequests: the client's request goroutine. *)

TakeRequest(c) ==
  /\ handler[c] = "select"
  /\ reqCh[c] # <<>>
  /\ LET r == Head(reqCh[c]) IN
       /\ r.type # "bad"
       /\ job' = [job EXCEPT ![c] = r]
       /\ handler' = [handler EXCEPT ![c] = IF r.type = "sub" THEN "purge" ELSE "metrics"]
  /\ reqCh' = [reqCh EXCEPT ![c] = Tail(@)]
  /\ UNCHANGED <<ctx, reader, nreq, wanted, reg, lock, connVars, unsubVars, natsVars,
                 metricVars>>

\* The hub does not know the request's type, or cannot decode its payload.
RejectRequest(c) ==
  /\ handler[c] = "select"
  /\ reqCh[c] # <<>>
  /\ Head(reqCh[c]).type = "bad"
  /\ reqCh' = [reqCh EXCEPT ![c] = Tail(@)]
  /\ UNCHANGED <<ctx, reader, nreq, wanted, reg, lock, handler, job, connVars, unsubVars,
                 natsVars, metricVars>>

\* Mutant: purgeConnection without disableMetrics.
TakeDone_NoDisable(c) ==
  /\ handler[c] = "select" /\ ctx[c] = "done"
  /\ handler' = [handler EXCEPT ![c] = "unregister"]
  /\ UNCHANGED <<socketVars, reg, lock, job, connVars, unsubVars, natsVars, metricVars>>

TakeDone(c) ==
  /\ handler[c] = "select"
  /\ ctx[c] = "done"
  /\ handler' = [handler EXCEPT ![c] = "disable"]
  /\ UNCHANGED <<socketVars, reg, lock, job, connVars, unsubVars, natsVars, metricVars>>

\* Mutant: HandleSubRequest does not unsubscribe what the client had.
PurgeSubscriptions_Skipped(c) ==
  /\ handler[c] = "purge" /\ lock = NoOne /\ lock' = c
  /\ handler' = [handler EXCEPT ![c] = "unsubscribe"]
  /\ UNCHANGED <<socketVars, reg, job, connVars, unsubVars, natsVars, metricVars>>

\* purgeSubscriptions takes connectionMutex and enters UnsubscribeAll.
PurgeSubscriptions(c) ==
  /\ handler[c] = "purge"
  /\ lock = NoOne
  /\ lock'    = c
  /\ todo'    = [todo EXCEPT ![c] = IF c \in reg THEN subs[c] ELSE {}]
  /\ handler' = [handler EXCEPT ![c] = "unsubscribe"]
  /\ UNCHANGED <<socketVars, reg, job, connVars, closing, natsVars, metricVars>>

\* The same in the purgeConnection of tearDownClient.
PurgeConnection(c) ==
  /\ handler[c] = "unregister"
  /\ lock = NoOne
  /\ lock'    = c
  /\ todo'    = [todo EXCEPT ![c] = IF c \in reg THEN subs[c] ELSE {}]
  /\ job'     = [job EXCEPT ![c] = Teardown]
  /\ handler' = [handler EXCEPT ![c] = "unsubscribe"]
  /\ UNCHANGED <<socketVars, reg, connVars, closing, natsVars, metricVars>>

\* Mutant: the channel is closed without Unsubscribe.
Unsubscribe_Forgotten(c) ==
  /\ handler[c] = "unsubscribe" /\ closing[c] = NoOne
  /\ \E s \in todo[c] : closing' = [closing EXCEPT ![c] = s]
  /\ UNCHANGED <<socketVars, reg, lock, handler, job, connVars, todo, natsVars, metricVars>>

\* The two statements of UnsubscribeAll's loop: NATS stops delivering, then
\* the channel is closed.
Unsubscribe(c) ==
  /\ handler[c] = "unsubscribe"
  /\ closing[c] = NoOne
  /\ \E s \in todo[c] :
       /\ active'  = active \ {s}
       /\ closing' = [closing EXCEPT ![c] = s]
  /\ UNCHANGED <<socketVars, reg, lock, handler, job, connVars, todo, closed, fanned,
                 metricVars>>

\* Mutant: the channel stays open.
CloseChannel_Forgotten(c) ==
  /\ handler[c] = "unsubscribe" /\ closing[c] # NoOne
  /\ todo'    = [todo EXCEPT ![c] = @ \ {closing[c]}]
  /\ closing' = [closing EXCEPT ![c] = NoOne]
  /\ UNCHANGED <<socketVars, reg, lock, handler, job, connVars, natsVars, metricVars>>

CloseChannel(c) ==
  /\ handler[c] = "unsubscribe"
  /\ closing[c] # NoOne
  /\ closed'  = closed \union {closing[c]}
  /\ todo'    = [todo EXCEPT ![c] = @ \ {closing[c]}]
  /\ closing' = [closing EXCEPT ![c] = NoOne]
  /\ UNCHANGED <<socketVars, reg, lock, handler, job, connVars, active, fanned, metricVars>>

\* UnsubscribeAll empties Subs and the lock is released: HandleSubRequest goes
\* on to registerSubscriptions.
Purged(c) ==
  /\ handler[c] = "unsubscribe"
  /\ todo[c] = {} /\ closing[c] = NoOne
  /\ job[c] # Teardown
  /\ subs'    = [subs EXCEPT ![c] = {}]
  /\ lock'    = NoOne
  /\ gen'     = [gen EXCEPT ![c] = @ + 1]
  /\ asked'   = [asked EXCEPT ![c] = job[c].subjects]
  /\ handler' = [handler EXCEPT ![c] = "subscribe"]
  /\ UNCHANGED <<socketVars, reg, job, unsubVars, natsVars, metricVars>>

\* Mutants: the registry is replaced, not updated; the lock is not released.
Unregister_Everyone(c) ==
  /\ handler[c] = "unsubscribe" /\ todo[c] = {} /\ closing[c] = NoOne /\ job[c] = Teardown
  /\ subs' = [subs EXCEPT ![c] = {}] /\ lock' = NoOne /\ reg' = {}
  /\ handler' = [handler EXCEPT ![c] = "ended"]
  /\ UNCHANGED <<socketVars, job, gen, asked, unsubVars, natsVars, metricVars>>

Unregister_KeepsLock(c) ==
  /\ handler[c] = "unsubscribe" /\ todo[c] = {} /\ closing[c] = NoOne /\ job[c] = Teardown
  /\ subs' = [subs EXCEPT ![c] = {}] /\ lock' = lock /\ reg' = reg \ {c}
  /\ handler' = [handler EXCEPT ![c] = "ended"]
  /\ UNCHANGED <<socketVars, job, gen, asked, unsubVars, natsVars, metricVars>>

\* In tearDownClient the client leaves the registry and its goroutine returns.
Unregister(c) ==
  /\ handler[c] = "unsubscribe"
  /\ todo[c] = {} /\ closing[c] = NoOne
  /\ job[c] = Teardown
  /\ subs'    = [subs EXCEPT ![c] = {}]
  /\ lock'    = NoOne
  /\ reg'     = reg \ {c}
  /\ handler' = [handler EXCEPT ![c] = "ended"]
  /\ UNCHANGED <<socketVars, job, gen, asked, unsubVars, natsVars, metricVars>>

\* The first subject of the current request that is not subscribed yet.
NextPos(c) ==
  {i \in DOMAIN asked[c] :
     /\ <<c, gen[c], i>> \notin subs[c]
     /\ \A j \in 1..(i - 1) : <<c, gen[c], j>> \in subs[c]}

\* One round of the loop of registerSubscriptions.
Subscribe(c) ==
  /\ handler[c] = "subscribe"
  /\ \E i \in NextPos(c) :
       /\ active' = active \union {<<c, gen[c], i>>}
       /\ subs'   = [subs EXCEPT ![c] = @ \union {<<c, gen[c], i>>}]
  /\ UNCHANGED <<socketVars, reg, lock, handler, job, gen, asked, unsubVars, closed,
                 fanned, metricVars>>

\* pool.Get or ChanSubscribe fails: the subscriptions made so far stay, with
\* no fan-in behind them.
SubscribeFails(c) ==
  /\ handler[c] = "subscribe"
  /\ subs[c] = {} \/ NextPos(c) # {}
  /\ handler' = [handler EXCEPT ![c] = "select"]
  /\ UNCHANGED <<socketVars, reg, lock, job, connVars, unsubVars, natsVars, metricVars>>

\* Every subject is subscribed: FanIn and parseToClientMessage start.
StartFanIn(c) ==
  /\ handler[c] = "subscribe"
  /\ NextPos(c) = {}
  /\ fanned'  = fanned \union {<<c, gen[c]>>}
  /\ handler' = [handler EXCEPT ![c] = "select"]
  /\ UNCHANGED <<socketVars, reg, lock, job, connVars, unsubVars, active, closed,
                 metricVars>>

-----------------------------------------------------------------------------
(* Metrics. *)

\* Mutant: no test whether a collector runs already.
EnableMetrics_Twice(c) ==
  /\ handler[c] = "metrics" /\ job[c].enabled /\ lock = NoOne
  /\ handler' = [handler EXCEPT ![c] = "select"]
  /\ started' = [started EXCEPT ![c] = @ + 1]
  /\ mcancel' = [mcancel EXCEPT ![c] = started[c] + 1]
  /\ mlive'   = [mlive EXCEPT ![c] = @ \union {started[c] + 1}]
  /\ relay'   = [relay EXCEPT ![c] = @ \union {started[c] + 1}]
  /\ UNCHANGED <<socketVars, reg, lock, job, connVars, unsubVars, natsVars>>

\* enableMetricsLocked: MetricsCancel is set before the collector is started,
\* and stays set when ms.Start fails.
EnableMetrics(c) ==
  /\ handler[c] = "metrics"
  /\ job[c].enabled
  /\ lock = NoOne
  /\ handler' = [handler EXCEPT ![c] = "select"]
  /\ \/ /\ mcancel[c] # 0
        /\ UNCHANGED metricVars
     \/ /\ mcancel[c] = 0
        /\ started' = [started EXCEPT ![c] = @ + 1]
        /\ mcancel' = [mcancel EXCEPT ![c] = started[c] + 1]
        /\ mlive'   = [mlive EXCEPT ![c] = @ \union {started[c] + 1}]
        /\ \/ relay' = [relay EXCEPT ![c] = @ \union {started[c] + 1}]
           \/ UNCHANGED relay
  /\ UNCHANGED <<socketVars, reg, lock, job, connVars, unsubVars, natsVars>>

\* disableMetricsLocked, from a metrics request or from tearDownClient.
DisableMetrics(c) ==
  /\ \/ /\ handler[c] = "metrics" /\ ~job[c].enabled
        /\ handler' = [handler EXCEPT ![c] = "select"]
     \/ /\ handler[c] = "disable"
        /\ handler' = [handler EXCEPT ![c] = "unregister"]
  /\ lock = NoOne
  /\ mlive' = IF c \in reg THEN [mlive EXCEPT ![c] = @ \ {mcancel[c]}] ELSE mlive
  /\ mcancel' = IF c \in reg THEN [mcancel EXCEPT ![c] = 0] ELSE mcancel
  /\ UNCHANGED <<socketVars, reg, lock, job, connVars, unsubVars, natsVars, started, relay>>

\* relayMetricsToClient returns: its context, a child of the websocket's, is
\* done, or its source is closed because that context is.
RelayEnds(c) ==
  \E k \in relay[c] :
    /\ k \notin mlive[c] \/ ctx[c] = "done"
    /\ relay' = [relay EXCEPT ![c] = @ \ {k}]
    /\ UNCHANGED <<socketVars, reg, lock, handler, job, connVars, unsubVars, natsVars,
                   mcancel, started, mlive>>

-----------------------------------------------------------------------------
Socket(c) ==
  \/ Register(c) \/ RegisterFails(c) \/ Cancel(c) \/ ReadFails(c)
  \/ \E r \in Requests : ReadRequest(c, r)

Serve(c) ==
  \/ TakeRequest(c) \/ TakeDone(c)
  \/ PurgeSubscriptions(c) \/ PurgeConnection(c)
  \/ Unsubscribe(c) \/ CloseChannel(c) \/ Purged(c) \/ Unregister(c)
  \/ Subscribe(c) \/ StartFanIn(c)
  \/ EnableMetrics(c) \/ DisableMetrics(c)

\* The steps of the request goroutine that send the client an error.
Refuse(c) == RejectRequest(c) \/ SubscribeFails(c)

Next == \E c \in Clients : Socket(c) \/ Serve(c) \/ Refuse(c) \/ RelayEnds(c)

(***************************************************************************)
(* The Go scheduler runs every goroutine that can run, and sync.Mutex      *)
(* hands a contended lock to whoever has waited longest, so a goroutine    *)
(* that waits for connectionMutex gets it: strong fairness for the request *)
(* goroutine, weak fairness for the relays.  The socket owes nothing.      *)
(***************************************************************************)
Fairness == \A c \in Clients : SF_vars(Serve(c) \/ Refuse(c)) /\ WF_vars(RelayEnds(c))

\* What the hub may do, and what it does.
ControlSpec == Init /\ [][Next]_vars

Spec == ControlSpec /\ Fairness

-----------------------------------------------------------------------------
(* Properties. *)

TypeOK ==
  /\ ctx \in [Clients -> {"none", "refused", "live", "done"}]
  /\ reader \in [Clients -> {"off", "reading", "ended"}]
  /\ reqCh \in [Clients -> Seq(Requests)]
  /\ \A c \in Clients : Len(reqCh[c]) <= ReqCap
  /\ nreq \in [Clients -> Nat]
  /\ wanted \in [Clients -> SubjectLists \union {<<>>}]
  /\ reg \subseteq Clients
  /\ lock \in Clients \union {NoOne}
  /\ handler \in [Clients -> Serving \union {"off", "ended"}]
  /\ job \in [Clients -> Requests \union {Teardown, NoOne}]
  /\ gen \in [Clients -> Nat]
  /\ asked \in [Clients -> SubjectLists \union {<<>>}]
  /\ subs \in [Clients -> SUBSET SubIds]
  /\ todo \in [Clients -> SUBSET SubIds]
  /\ closing \in [Clients -> SubIds \union {NoOne}]
  /\ active \subseteq SubIds
  /\ closed \subseteq SubIds
  /\ fanned \subseteq Clients \X Nat
  /\ mcancel \in [Clients -> Nat]
  /\ started \in [Clients -> Nat]
  /\ mlive \in [Clients -> SUBSET (Nat \ {0})]
  /\ relay \in [Clients -> SUBSET (Nat \ {0})]

\* NATS never delivers to a closed channel (a send on a closed channel panics
\* in the NATS client's read loop): UnsubscribeAll, clientconn.go:20-23, and
\* every way into it and out of it keep the two sets apart.
NoSendOnClosed == active \cap closed = {}

\* UnsubscribeAll never closes a channel twice (close of a closed channel
\* panics), although a subscription request, a failed one and the teardown all
\* run it on the same ClientConn: clientconn.go:17-25.
NoDoubleClose == \A c \in Clients : closing[c] \notin closed

\* The channels of the subscriptions are neither sent on nor closed once closed.
ChannelsSound == NoSendOnClosed /\ NoDoubleClose

\* Every subscription NATS delivers to is in the Subs of a registered client,
\* so the next request or the teardown finds it, also when registerSubscriptions
\* gave up half way (hub.go:190-194).
NoOrphanSubscription == \A s \in active : Owner(s) \in reg /\ s \in subs[Owner(s)]

\* A client receives on the subjects of its latest request only: no
\* subscription of an earlier request survives HandleSubRequest's purge.
OnlyLatestGeneration == \A s \in active : s[2] = gen[Owner(s)]

\* What NATS delivers to is recorded by its client, for its latest request.
SubscriptionsSound == NoOrphanSubscription /\ OnlyLatestGeneration

\* While a request goroutine runs its client is in the registry: hub.go:254
\* dereferences the entry before it looks whether there is one.
RegisteredWhileServing == \A c \in Clients : handler[c] \in Serving => c \in reg

\* A metrics context nobody cancelled, of a websocket that is still open, is
\* the one MetricsCancel ends: at most one collector polls for a client, and a
\* request to disable metrics stops it (hub.go:252-273, 298-308).
MetricsStoppable ==
  \A c \in Clients : \A k \in mlive[c] : c \in reg /\ mcancel[c] = k

\* After tearDownClient nothing of the client is left: it is out of the
\* registry, NATS delivers nothing to it, and no metrics context is live.
TeardownComplete ==
  \A c \in Clients : handler[c] = "ended" =>
    /\ c \notin reg /\ subs[c] = {} /\ mlive[c] = {}
    /\ \A s \in active : Owner(s) # c

\* A websocket whose context is done is torn down, whatever the other clients
\* that compete for connectionMutex do.
TeardownHappens == \A c \in Clients : ctx[c] = "done" ~> handler[c] = "ended"

=============================================================================
