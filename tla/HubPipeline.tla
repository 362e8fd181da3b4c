---------------------------- MODULE HubPipeline ----------------------------
(***************************************************************************)
(* What flows through the hub.  A subscription request starts, on top of   *)
(* the control steps of module Hub, a fan-in with one forwarder per        *)
(* subscription and a parser, which carry the messages of NATS to the      *)
(* channel the websocket writer drains:                                    *)
(*                                                                         *)
(*   NATS -> inCh[s] -> forwarder -> out[p] -> parser -> msgCh[c] -> writer *)
(*                                                                         *)
(* msgCh is shared with the parsers of earlier requests, with              *)
(* HandleConnectionEvents, which blocks on it as they do, and with the     *)
(* error and metrics payloads, which are dropped when it is full.          *)
(***************************************************************************)
EXTENDS Hub, SequencesExt

CONSTANTS
  MaxPub,  \* bound: messages NATS delivers to one client
  SubCap,  \* capacity of a subscription's channel (10 in the code)
  OutCap,  \* capacity of the fan-in's output channel (10)
  MsgCap   \* capacity of msgCh (1000)

ASSUME PipeAssumption == {SubCap, OutCap, MsgCap} \subseteq Nat \ {0} /\ MaxPub \in Nat

VARIABLES
  pub,      \* messages NATS delivered, or dropped, for a client so far
  inCh,     \* the channel of each subscription
  holds,    \* what its forwarder has received and not yet passed on
  finished, \* the subscriptions whose forwarder returned
  out,      \* FanIn's output channel, per pipeline
  parsed,   \* what parseToClientMessage has received and not yet passed on
  msgCh,    \* payloads for the writer
  writer,   \* HandleWsMsgs
  written,  \* history: the messages it wrote
  events    \* HandleConnectionEvents

pipeVars == <<pub, inCh, holds, finished, out, parsed>>
sinkVars == <<msgCh, writer, written, events>>
allVars  == <<vars, pipeVars, sinkVars>>

Positions == UNION {DOMAIN r : r \in SubjectLists}
Channels  == Clients \X (1..MaxRequests) \X Positions
Pipes     == Clients \X (1..MaxRequests)

PipeOf(s) == <<s[1], s[2]>>

\* Connection status, error and metrics payloads: no property tells them apart.
Notice == [kind |-> "notice"]
NatsMsg == [kind : {"nats"}, from : Channels, subject : UNION {Range(r) : r \in SubjectLists},
            n : 1..MaxPub]

Forwarding(s) == PipeOf(s) \in fanned /\ s \notin finished

PipeInit ==
  /\ Init
  /\ pub      = [c \in Clients |-> 0]
  /\ inCh     = [s \in Channels |-> <<>>]
  /\ holds    = [s \in Channels |-> <<>>]
  /\ finished = {}
  /\ out      = [p \in Pipes |-> <<>>]
  /\ parsed   = [p \in Pipes |-> <<>>]
  /\ msgCh    = [c \in Clients |-> <<>>]
  /\ writer   = [c \in Clients |-> "off"]
  /\ written  = [c \in Clients |-> {}]
  /\ events   = [c \in Clients |-> "off"]

-----------------------------------------------------------------------------
(* The way of a message. *)

\* NATS has a message for a subscription.  When its channel is full the NATS
\* client drops the message (slow consumer).
Deliver(s) ==
  LET c == Owner(s)
      m == [kind |-> "nats", from |-> s, subject |-> asked[c][s[3]], n |-> pub[c] + 1]
  IN /\ s \in active
     /\ pub[c] < MaxPub
     /\ pub'  = [pub EXCEPT ![c] = @ + 1]
     /\ inCh' = [inCh EXCEPT ![s] = IF Len(@) < SubCap THEN Append(@, m) ELSE @]
     /\ UNCHANGED <<vars, holds, finished, out, parsed, sinkVars>>

\* FanIn's goroutine: for n := range c { out <- n }.
ForwardReceive(s) ==
  /\ Forwarding(s) /\ holds[s] = <<>> /\ inCh[s] # <<>>
  /\ holds' = [holds EXCEPT ![s] = <<Head(inCh[s])>>]
  /\ inCh'  = [inCh EXCEPT ![s] = Tail(@)]
  /\ UNCHANGED <<vars, pub, finished, out, parsed, sinkVars>>

ForwardSend(s) ==
  /\ holds[s] # <<>> /\ Len(out[PipeOf(s)]) < OutCap
  /\ out'   = [out EXCEPT ![PipeOf(s)] = @ \o holds[s]]
  /\ holds' = [holds EXCEPT ![s] = <<>>]
  /\ UNCHANGED <<vars, pub, inCh, finished, parsed, sinkVars>>

ForwardEnd(s) ==
  /\ Forwarding(s) /\ holds[s] = <<>> /\ inCh[s] = <<>> /\ s \in closed
  /\ finished' = finished \union {s}
  /\ UNCHANGED <<vars, pub, inCh, holds, out, parsed, sinkVars>>

\* parseToClientMessage.  Nobody closes out, so it never returns.
ParserReceive(p) ==
  /\ p \in fanned /\ parsed[p] = <<>> /\ out[p] # <<>>
  /\ parsed' = [parsed EXCEPT ![p] = <<Head(out[p])>>]
  /\ out'    = [out EXCEPT ![p] = Tail(@)]
  /\ UNCHANGED <<vars, pub, inCh, holds, finished, sinkVars>>

\* Mutants: a full msgCh sends the message back to the end of the line, or is
\* treated as the other senders treat it.
ParserSend_Requeues(p) ==
  /\ parsed[p] # <<>>
  /\ IF Len(msgCh[p[1]]) < MsgCap
       THEN msgCh' = [msgCh EXCEPT ![p[1]] = @ \o parsed[p]] /\ UNCHANGED out
       ELSE /\ Len(out[p]) < OutCap
            /\ out' = [out EXCEPT ![p] = @ \o parsed[p]]
            /\ UNCHANGED msgCh
  /\ parsed' = [parsed EXCEPT ![p] = <<>>]
  /\ UNCHANGED <<vars, pub, inCh, holds, finished, writer, written, events>>

ParserSend_Drops(p) ==
  /\ parsed[p] # <<>>
  /\ msgCh'  = [msgCh EXCEPT ![p[1]] = IF Len(@) < MsgCap THEN @ \o parsed[p] ELSE @]
  /\ parsed' = [parsed EXCEPT ![p] = <<>>]
  /\ UNCHANGED <<vars, pub, inCh, holds, finished, out, writer, written, events>>

ParserSend(p) ==
  /\ parsed[p] # <<>> /\ Len(msgCh[p[1]]) < MsgCap
  /\ msgCh'  = [msgCh EXCEPT ![p[1]] = @ \o parsed[p]]
  /\ parsed' = [parsed EXCEPT ![p] = <<>>]
  /\ UNCHANGED <<vars, pub, inCh, holds, finished, out, writer, written, events>>

-----------------------------------------------------------------------------
(* The other senders on msgCh. *)

\* select { case messages <- m: default: }: a full channel drops the payload.
TrySend(c) == msgCh' = [msgCh EXCEPT ![c] = IF Len(@) < MsgCap THEN Append(@, Notice) ELSE @]

\* HandleConnectionEvents looks the client up, observes the connection and
\* sends its last event; it gives up if the client or the connection is gone.
EventsStart(c) ==
  /\ events[c] = "start"
  /\ \/ /\ c \in reg
        /\ events' = [events EXCEPT ![c] = "receive"]
        /\ TrySend(c)
     \/ /\ events' = [events EXCEPT ![c] = "ended"]
        /\ UNCHANGED msgCh
  /\ UNCHANGED <<vars, pipeVars, writer, written>>

\* An event of the NATS connection (module NatsConnEvents).
EventsReceive(c) ==
  /\ events[c] = "receive"
  /\ events' = [events EXCEPT ![c] = "send"]
  /\ UNCHANGED <<vars, pipeVars, msgCh, writer, written>>

EventsSend(c) ==
  /\ events[c] = "send" /\ Len(msgCh[c]) < MsgCap
  /\ msgCh'  = [msgCh EXCEPT ![c] = Append(@, Notice)]
  /\ events' = [events EXCEPT ![c] = "receive"]
  /\ UNCHANGED <<vars, pipeVars, writer, written>>

\* Mutant: the observer is removed only while the client is still registered.
EventsEnd_Registered(c) ==
  /\ events[c] = "receive" /\ ctx[c] = "done" /\ c \in reg
  /\ events' = [events EXCEPT ![c] = "ended"]
  /\ UNCHANGED <<vars, pipeVars, msgCh, writer, written>>

\* The observed channel is closed some time after the context is done.
EventsEnd(c) ==
  /\ events[c] = "receive" /\ ctx[c] = "done"
  /\ events' = [events EXCEPT ![c] = "ended"]
  /\ UNCHANGED <<vars, pipeVars, msgCh, writer, written>>

\* The pool closes the connection the client observes: NatsConn.Close forgets
\* the observer without closing its channel, so nothing is received any more.
EventsOrphaned(c) ==
  /\ events[c] = "receive"
  /\ events' = [events EXCEPT ![c] = "orphaned"]
  /\ UNCHANGED <<vars, pipeVars, msgCh, writer, written>>

\* relayMetricsToClient passes a sample on.
RelaySample(c) ==
  /\ relay[c] # {}
  /\ TrySend(c)
  /\ UNCHANGED <<vars, pipeVars, writer, written, events>>

-----------------------------------------------------------------------------
(* HandleWsMsgs. *)

Write(c) ==
  /\ writer[c] = "on" /\ msgCh[c] # <<>>
  /\ msgCh'   = [msgCh EXCEPT ![c] = Tail(@)]
  /\ written' = IF Head(msgCh[c]).kind = "nats"
                  THEN [written EXCEPT ![c] = @ \union {Head(msgCh[c]).n}] ELSE written
  /\ UNCHANGED <<vars, pipeVars, writer, events>>

\* Mutant: the writer takes the client out of the registry itself.
WriteFails_Unregisters(c) ==
  /\ writer[c] = "on" /\ msgCh[c] # <<>>
  /\ msgCh'  = [msgCh EXCEPT ![c] = Tail(@)]
  /\ writer' = [writer EXCEPT ![c] = "ended"]
  /\ ctx'    = [ctx EXCEPT ![c] = "done"]
  /\ reg'    = reg \ {c}
  /\ UNCHANGED <<reader, reqCh, nreq, wanted, lock, handler, job, connVars, unsubVars,
                 natsVars, metricVars, pipeVars, written, events>>

WriteFails(c) ==
  /\ writer[c] = "on" /\ msgCh[c] # <<>>
  /\ msgCh'  = [msgCh EXCEPT ![c] = Tail(@)]
  /\ writer' = [writer EXCEPT ![c] = "ended"]
  /\ ctx'    = [ctx EXCEPT ![c] = "done"]
  /\ UNCHANGED <<reader, reqCh, nreq, wanted, reg, lock, handler, job, connVars, unsubVars,
                 natsVars, metricVars, pipeVars, written, events>>

WriterEnds(c) ==
  /\ writer[c] = "on" /\ ctx[c] = "done"
  /\ writer' = [writer EXCEPT ![c] = "ended"]
  /\ UNCHANGED <<vars, pipeVars, msgCh, written, events>>

-----------------------------------------------------------------------------
(* The steps of Hub, with the payload they send. *)

Connect(c) ==
  /\ Register(c)
  /\ writer' = [writer EXCEPT ![c] = "on"]
  /\ events' = [events EXCEPT ![c] = "start"]
  /\ UNCHANGED <<pipeVars, msgCh, written>>

Control(c) ==
  /\ \/ RegisterFails(c) \/ Cancel(c) \/ ReadFails(c)
     \/ \E r \in Requests : ReadRequest(c, r)
     \/ RelayEnds(c)
  /\ UNCHANGED <<pipeVars, sinkVars>>

ServeQuietly(c) == Serve(c) /\ UNCHANGED <<pipeVars, sinkVars>>

\* sendErr.
Report(c) == Refuse(c) /\ TrySend(c) /\ UNCHANGED <<pipeVars, writer, written, events>>

Carry(c) ==
  \/ \E s \in Channels : Owner(s) = c /\ (ForwardReceive(s) \/ ForwardSend(s) \/ ForwardEnd(s))
  \/ \E p \in Pipes : p[1] = c /\ (ParserReceive(p) \/ ParserSend(p))

Observe(c) ==
  \/ EventsStart(c) \/ EventsReceive(c) \/ EventsSend(c) \/ EventsEnd(c)
  \/ EventsOrphaned(c) \/ RelaySample(c)

PipeNext ==
  \/ \E c \in Clients :
       \/ Connect(c) \/ Control(c) \/ ServeQuietly(c) \/ Report(c)
       \/ Carry(c) \/ Observe(c)
       \/ Write(c) \/ WriteFails(c) \/ WriterEnds(c)
  \/ \E s \in active : Deliver(s)

(***************************************************************************)
(* Fairness.  The goroutines run; a goroutine blocked on a full channel is *)
(* queued behind the senders that came before it, so it gets its turn if   *)
(* room is made again and again (strong fairness of the sends).  The       *)
(* writer is fair as long as the browser reads its socket.                 *)
(***************************************************************************)
PipeFairness ==
  /\ \A c \in Clients :
       /\ SF_allVars(ServeQuietly(c) \/ Report(c))
       /\ WF_allVars(Write(c) \/ WriteFails(c) \/ WriterEnds(c))
       /\ WF_allVars(EventsStart(c)) /\ SF_allVars(EventsSend(c)) /\ SF_allVars(EventsEnd(c))
  /\ \A s \in Channels :
       WF_allVars(ForwardReceive(s)) /\ SF_allVars(ForwardSend(s)) /\ WF_allVars(ForwardEnd(s))
  /\ \A p \in Pipes : WF_allVars(ParserReceive(p)) /\ SF_allVars(ParserSend(p))

PipeSpec == PipeInit /\ [][PipeNext]_allVars /\ PipeFairness

-----------------------------------------------------------------------------
(* Properties. *)

PipeTypeOK ==
  /\ pub \in [Clients -> 0..MaxPub]
  /\ inCh \in [Channels -> Seq(NatsMsg)] /\ \A s \in Channels : Len(inCh[s]) <= SubCap
  /\ holds \in [Channels -> Seq(NatsMsg)] /\ \A s \in Channels : Len(holds[s]) <= 1
  /\ finished \subseteq closed
  /\ out \in [Pipes -> Seq(NatsMsg)] /\ \A p \in Pipes : Len(out[p]) <= OutCap
  /\ parsed \in [Pipes -> Seq(NatsMsg)] /\ \A p \in Pipes : Len(parsed[p]) <= 1
  /\ msgCh \in [Clients -> Seq(NatsMsg \union {Notice})]
  /\ \A c \in Clients : Len(msgCh[c]) <= MsgCap
  /\ writer \in [Clients -> {"off", "on", "ended"}]
  /\ written \in [Clients -> SUBSET (1..MaxPub)]
  /\ events \in [Clients -> {"off", "start", "receive", "send", "ended", "orphaned"}]

\* The pipeline only adds to the hub: seen through the hub's own variables each
\* of its steps, a failed write to the websocket included, is a step of Hub or
\* none, so what module Hub establishes holds for it (hub.go, messages_ws.go).
FollowsHub == ControlSpec

\* What is on its way to the writer through the channels that the messages of
\* subscription s go through, the oldest first, and which of it is from s.
Ahead(s) == msgCh[Owner(s)] \o parsed[PipeOf(s)] \o out[PipeOf(s)] \o holds[s] \o inCh[s]
Of(m, s) == m.kind = "nats" /\ m.from = s
InFlight(s) == {i \in DOMAIN Ahead(s) : Of(Ahead(s)[i], s)}

\* The messages of one subscription are passed on in the order NATS delivered
\* them and none is passed on twice, through five hand-overs between goroutines
\* (fanin.go:3-13, hub.go:310-325).
InOrder ==
  \A s \in Channels : \A i, j \in InFlight(s) : i < j => Ahead(s)[i].n < Ahead(s)[j].n

\* No message is left behind: whatever the forwarders, parsers and the other
\* senders on msgCh do, a message accepted into the channel of a subscription
\* that got its fan-in is written to the websocket, unless that is closed.
Delivered ==
  \A s \in Channels : \A n \in 1..MaxPub :
    (PipeOf(s) \in fanned /\ \E i \in InFlight(s) : Ahead(s)[i].n = n)
      ~> (n \in written[Owner(s)] \/ ctx[Owner(s)] = "done")

\* A new request leaves no forwarder of an earlier one behind: once
\* UnsubscribeAll has its subscription it returns, as long as the websocket is
\* open (clientconn.go:20-23, fanin.go:7).
ForwardersReturn ==
  \A s \in Channels :
    (PipeOf(s) \in fanned /\ s \in todo[Owner(s)]) ~> (s \in finished \/ ctx[Owner(s)] = "done")

\* HandleConnectionEvents returns after the websocket is closed, unless its
\* connection was closed under it (nconn.go:98-101), or it is the sender that
\* finds msgCh full for good (hub.go:231 does not look at the context).
EventsReturn ==
  \A c \in Clients :
    ctx[c] = "done" ~> (events[c] \in {"off", "ended", "orphaned"}
                         \/ (events[c] = "send" /\ Len(msgCh[c]) = MsgCap))

\* The bounded channels keep to their capacities and their order.
PipeSound == PipeTypeOK /\ InOrder
=============================================================================
