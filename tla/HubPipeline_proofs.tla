------------------------ MODULE HubPipeline_proofs ------------------------
(***************************************************************************)
(* The invariants of the hub, and that the hub with its pipeline           *)
(* implements the hub without it, so that they hold for it too; and what   *)
(* flows through it stays in order: whatever the capacities of the         *)
(* channels and the number of clients, subscriptions, requests, messages.  *)
(***************************************************************************)
EXTENDS HubPipeline, TLAPS

\* What a step of the request goroutine leaves alone is spelled out by these.
USE DEF socketVars, connVars, unsubVars, natsVars, metricVars

-----------------------------------------------------------------------------
(* Type correctness. *)

\* The job a goroutine is busy with is of the kind its place in the code says.
JobOK ==
  \A c \in Clients :
    /\ handler[c] = "purge" => job[c] \in SubRequest
    /\ handler[c] = "unsubscribe" => job[c] \in SubRequest \union {Teardown}
    /\ handler[c] = "metrics" => job[c] \in MetricsRequest

TypeInv == TypeOK /\ JobOK

\* The requests in front of the request goroutine.
LEMMA HeadIsRequest ==
  ASSUME TypeOK, NEW c \in Clients, reqCh[c] # <<>>
  PROVE  /\ Head(reqCh[c]) \in Requests
         /\ Tail(reqCh[c]) \in Seq(Requests)
         /\ Len(Tail(reqCh[c])) <= ReqCap
  <1>1. reqCh[c] \in Seq(Requests) /\ Len(reqCh[c]) <= ReqCap
    BY DEF TypeOK
  <1>2. Len(Tail(reqCh[c])) = Len(reqCh[c]) - 1 /\ Len(reqCh[c]) \in Nat
    BY <1>1
  <1> QED
    BY <1>1, <1>2, CapAssumption

\* The subscription made next has a position in the client's subject list.
LEMMA NextPosType ==
  ASSUME TypeOK, NEW c \in Clients, NEW i \in NextPos(c)
  PROVE  i \in Nat /\ <<c, gen[c], i>> \in SubIds
  <1>1. asked[c] \in SubjectLists \union {<<>>} /\ gen[c] \in Nat
    BY DEF TypeOK
  <1>2. DOMAIN asked[c] \subseteq Nat
    BY <1>1, ListAssumption
  <1> QED
    BY <1>1, <1>2 DEF NextPos, SubIds

\* Types after a step of the websocket.
LEMMA SocketKeepsType ==
  ASSUME TypeInv, NEW c \in Clients, Socket(c)
  PROVE  TypeInv'
  <1> USE DEF TypeInv, TypeOK, JobOK, Serving
  <1>1. CASE Register(c)
    BY <1>1 DEF Register
  <1>2. CASE RegisterFails(c)
    BY <1>2 DEF RegisterFails
  <1>3. CASE Cancel(c)
    BY <1>3 DEF Cancel
  <1>4. CASE ReadFails(c)
    BY <1>4 DEF ReadFails
  <1>5. ASSUME NEW r \in Requests, ReadRequest(c, r)
        PROVE  TypeInv'
    <2>1. wanted' \in [Clients -> SubjectLists \union {<<>>}]
      BY <1>5 DEF ReadRequest, Requests, SubRequest, MetricsRequest, BadRequest
    <2>2. /\ reqCh' \in [Clients -> Seq(Requests)]
          /\ \A d \in Clients : Len(reqCh'[d]) <= ReqCap
      <3>1. CASE HasRoom(c) /\ reqCh' = [reqCh EXCEPT ![c] = Append(@, r)]
        <4>1. /\ Append(reqCh[c], r) \in Seq(Requests)
              /\ Len(Append(reqCh[c], r)) <= ReqCap
          BY <3>1, CapAssumption DEF HasRoom
        <4> QED
          BY <3>1, <4>1
      <3>2. CASE reqCh' = reqCh
        BY <3>2
      <3> QED
        BY <1>5, <3>1, <3>2 DEF ReadRequest
    <2>3. reader' \in [Clients -> {"off", "reading", "ended"}]
      <3>1. reader' = reader \/ reader' = [reader EXCEPT ![c] = "ended"]
        BY <1>5 DEF ReadRequest
      <3> QED
        BY <3>1
    <2>4. /\ nreq' \in [Clients -> Nat]
          /\ UNCHANGED <<ctx, reg, lock, handler, job, connVars, unsubVars, natsVars,
                         metricVars>>
      BY <1>5 DEF ReadRequest
    <2> QED
      BY <2>1, <2>2, <2>3, <2>4
  <1> QED
    BY <1>1, <1>2, <1>3, <1>4, <1>5 DEF Socket

\* Types after a step of the request goroutine or of a relay.
LEMMA ServeKeepsType ==
  ASSUME TypeInv, NEW c \in Clients, Serve(c) \/ Refuse(c) \/ RelayEnds(c)
  PROVE  TypeInv'
  <1> USE DEF TypeInv, TypeOK, JobOK, Serving
  <1>1. CASE TakeRequest(c)
    <2>1. /\ Head(reqCh[c]) \in Requests
          /\ Tail(reqCh[c]) \in Seq(Requests)
          /\ Len(Tail(reqCh[c])) <= ReqCap
      BY <1>1, HeadIsRequest DEF TakeRequest
    <2>2. /\ Head(reqCh[c]).type = "sub" => Head(reqCh[c]) \in SubRequest
          /\ \/ Head(reqCh[c]).type \in {"sub", "bad"}
             \/ Head(reqCh[c]) \in MetricsRequest
      BY <2>1 DEF Requests, SubRequest, MetricsRequest, BadRequest
    <2> QED
      BY <1>1, <2>1, <2>2 DEF TakeRequest
  <1>2. CASE RejectRequest(c)
    <2>1. Tail(reqCh[c]) \in Seq(Requests) /\ Len(Tail(reqCh[c])) <= ReqCap
      BY <1>2, HeadIsRequest DEF RejectRequest
    <2> QED
      BY <1>2, <2>1 DEF RejectRequest
  <1>3. CASE TakeDone(c)
    BY <1>3 DEF TakeDone
  <1>4. CASE PurgeSubscriptions(c)
    BY <1>4 DEF PurgeSubscriptions
  <1>5. CASE PurgeConnection(c)
    BY <1>5 DEF PurgeConnection
  <1>6. CASE Unsubscribe(c)
    BY <1>6 DEF Unsubscribe
  <1>7. CASE CloseChannel(c)
    BY <1>7 DEF CloseChannel
  <1>8. CASE Purged(c)
    <2>1. job[c].subjects \in SubjectLists
      BY <1>8 DEF Purged, SubRequest
    <2> QED
      BY <1>8, <2>1 DEF Purged
  <1>9. CASE Unregister(c)
    BY <1>9 DEF Unregister
  <1>10. CASE Subscribe(c)
    BY <1>10, NextPosType DEF Subscribe
  <1>11. CASE StartFanIn(c)
    BY <1>11 DEF StartFanIn
  <1>12. CASE EnableMetrics(c)
    <2>1. CASE UNCHANGED metricVars
      BY <1>12, <2>1 DEF EnableMetrics
    <2>2. CASE /\ started' = [started EXCEPT ![c] = @ + 1]
               /\ mcancel' = [mcancel EXCEPT ![c] = started[c] + 1]
               /\ mlive'   = [mlive EXCEPT ![c] = @ \union {started[c] + 1}]
      <3>1. started[c] + 1 \in Nat \ {0}
        OBVIOUS
      <3>2. relay' = relay \/ relay' = [relay EXCEPT ![c] = @ \union {started[c] + 1}]
        BY <1>12 DEF EnableMetrics
      <3>3. relay' \in [Clients -> SUBSET (Nat \ {0})]
        <4>1. CASE relay' = [relay EXCEPT ![c] = @ \union {started[c] + 1}]
          BY <3>1, <4>1
        <4> QED
          BY <3>2, <4>1
      <3>4. started' \in [Clients -> Nat] /\ mcancel' \in [Clients -> Nat]
        BY <2>2, <3>1
      <3>5. mlive' \in [Clients -> SUBSET (Nat \ {0})]
        BY <2>2, <3>1
      <3>6. /\ handler' = [handler EXCEPT ![c] = "select"]
            /\ UNCHANGED <<socketVars, reg, lock, job, connVars, unsubVars, natsVars>>
        BY <1>12 DEF EnableMetrics
      <3> QED
        BY <3>3, <3>4, <3>5, <3>6
    <2> QED
      BY <1>12, <2>1, <2>2 DEF EnableMetrics
  <1>13. CASE DisableMetrics(c)
    BY <1>13 DEF DisableMetrics
  <1>14. CASE SubscribeFails(c)
    BY <1>14 DEF SubscribeFails
  <1>15. CASE RelayEnds(c)
    <2>1. PICK k \in relay[c] : relay' = [relay EXCEPT ![c] = @ \ {k}]
      BY <1>15 DEF RelayEnds
    <2>2. relay' \in [Clients -> SUBSET (Nat \ {0})]
      BY <2>1
    <2>3. UNCHANGED <<socketVars, reg, lock, handler, job, connVars, unsubVars, natsVars,
                      mcancel, started, mlive>>
      BY <1>15 DEF RelayEnds
    <2> QED
      BY <2>2, <2>3
  <1> QED
    BY <1>1, <1>2, <1>3, <1>4, <1>5, <1>6, <1>7, <1>8, <1>9, <1>10, <1>11, <1>12, <1>13,
       <1>14, <1>15 DEF Serve, Refuse

\* TypeInv holds in every reachable state.
LEMMA TypeInvariant == ControlSpec => []TypeInv
  <1>1. Init => TypeInv
    BY NoOneAssumption, CapAssumption DEF Init, TypeInv, TypeOK, JobOK, Serving
  <1>2. TypeInv /\ [Next]_vars => TypeInv'
    <2> SUFFICES ASSUME TypeInv, [Next]_vars
                 PROVE  TypeInv'
      OBVIOUS
    <2>1. CASE Next
      BY <2>1, SocketKeepsType, ServeKeepsType DEF Next
    <2>2. CASE UNCHANGED vars
      BY <2>2 DEF vars, TypeInv, TypeOK, JobOK
    <2> QED
      BY <2>1, <2>2
  <1> QED
    BY <1>1, <1>2, PTL DEF ControlSpec

\* The variables keep their types, and no more than ReqCap requests wait.
THEOREM TypeCorrect == Spec => []TypeOK
  <1>1. TypeInv => TypeOK
    BY DEF TypeInv
  <1> QED
    BY <1>1, TypeInvariant, PTL DEF Spec

-----------------------------------------------------------------------------
(***************************************************************************)
(* Safety.  None of the properties is inductive: that a channel is not     *)
(* closed twice depends on where the goroutine is in UnsubscribeAll and on *)
(* the generations of what was closed before.  HubInv says both.           *)
(***************************************************************************)

\* Where a goroutine is decides whether its client is registered and who holds
\* connectionMutex.
ControlInv ==
  \A c \in Clients :
    /\ c \in reg <=> handler[c] \in Serving
    /\ lock = c <=> handler[c] = "unsubscribe"
    /\ ctx[c] = "none" => handler[c] = "off"

\* Subs holds the latest request's subscriptions, all that UnsubscribeAll has
\* to visit is in it, and nothing NATS delivers to is forgotten.
SubsInv ==
  \A c \in Clients :
    /\ subs[c] # {} => handler[c] \in Serving
    /\ \A s \in subs[c] : s[1] = c /\ s[2] = gen[c]
    /\ todo[c] \subseteq subs[c]
    /\ todo[c] # {} => handler[c] = "unsubscribe"
    /\ closing[c] # NoOne => closing[c] \in todo[c] \ active

ActiveInv ==
  \A s \in active :
    /\ s \in subs[s[1]]
    /\ handler[s[1]] = "unsubscribe" => s \in todo[s[1]]

\* A closed channel belongs to an earlier request, or to one UnsubscribeAll is
\* done with; a new request starts with a generation nothing was closed in.
ClosedInv ==
  \A s \in closed :
    /\ s[2] <= gen[s[1]]
    /\ handler[s[1]] = "subscribe" => s[2] < gen[s[1]]
    /\ s \in subs[s[1]] => handler[s[1]] = "unsubscribe" /\ s \notin todo[s[1]]

\* tearDownClient has ended the metrics before it unregisters the client.
MetricsInv ==
  /\ MetricsStoppable
  /\ \A c \in Clients :
       handler[c] = "unregister" \/ (handler[c] = "unsubscribe" /\ job[c] = Teardown)
         => mcancel[c] = 0

HubInv == TypeInv /\ ControlInv /\ SubsInv /\ ActiveInv /\ ClosedInv /\ MetricsInv

\* Any step of the hub, for a client.
Step(c) == Socket(c) \/ Serve(c) \/ Refuse(c) \/ RelayEnds(c)

\* A subscription NATS or a closed channel knows has a client and a generation.
LEMMA SubIdParts ==
  ASSUME TypeOK, NEW s \in active \union closed
  PROVE  s[1] \in Clients /\ s[2] \in Nat
  BY DEF TypeOK, SubIds

\* A client's generation and the state of its channels, connected by HubInv,
\* survive every step that only moves a goroutine from place to place.
LEMMA SubscriptionsUntouched ==
  ASSUME TypeOK, SubsInv, ActiveInv, ClosedInv,
         UNCHANGED <<gen, subs, todo, closing, active, closed>>,
         \A d \in Clients :
           \/ handler'[d] = handler[d]
           \/ /\ handler[d] # "unsubscribe"
              /\ handler'[d] \in Serving \ {"unsubscribe", "subscribe"}
  PROVE  SubsInv' /\ ActiveInv' /\ ClosedInv'
  <1>1. SubsInv'
    BY DEF SubsInv
  <1>2. ActiveInv'
    BY SubIdParts DEF ActiveInv
  <1>3. ClosedInv'
    BY SubIdParts DEF ClosedInv
  <1> QED
    BY <1>1, <1>2, <1>3


\* Who is registered and who holds connectionMutex, after every step.
LEMMA ControlStep ==
  ASSUME HubInv, NEW c \in Clients, Step(c)
  PROVE  ControlInv'
  <1> USE DEF HubInv, TypeInv, TypeOK, ControlInv, Serving
  <1>1. CASE Register(c)
    BY <1>1, NoOneAssumption DEF Register
  <1>2. CASE RegisterFails(c)
    BY <1>2, NoOneAssumption DEF RegisterFails
  <1>3. CASE Cancel(c)
    BY <1>3, NoOneAssumption DEF Cancel
  <1>4. CASE ReadFails(c)
    BY <1>4, NoOneAssumption DEF ReadFails
  <1>5. ASSUME NEW r \in Requests, ReadRequest(c, r)
        PROVE  ControlInv'
    BY <1>5, NoOneAssumption DEF ReadRequest
  <1>6. CASE TakeRequest(c)
    BY <1>6, NoOneAssumption DEF TakeRequest
  <1>7. CASE RejectRequest(c)
    BY <1>7, NoOneAssumption DEF RejectRequest
  <1>8. CASE TakeDone(c)
    BY <1>8, NoOneAssumption DEF TakeDone
  <1>9. CASE PurgeSubscriptions(c)
    BY <1>9, NoOneAssumption DEF PurgeSubscriptions
  <1>10. CASE PurgeConnection(c)
    BY <1>10, NoOneAssumption DEF PurgeConnection
  <1>11. CASE Unsubscribe(c)
    BY <1>11, NoOneAssumption DEF Unsubscribe
  <1>12. CASE CloseChannel(c)
    BY <1>12, NoOneAssumption DEF CloseChannel
  <1>13. CASE Purged(c)
    BY <1>13, NoOneAssumption DEF Purged
  <1>14. CASE Unregister(c)
    BY <1>14, NoOneAssumption DEF Unregister
  <1>15. CASE Subscribe(c)
    BY <1>15, NoOneAssumption DEF Subscribe
  <1>16. CASE StartFanIn(c)
    BY <1>16, NoOneAssumption DEF StartFanIn
  <1>17. CASE EnableMetrics(c)
    BY <1>17, NoOneAssumption DEF EnableMetrics
  <1>18. CASE DisableMetrics(c)
    BY <1>18, NoOneAssumption DEF DisableMetrics
  <1>19. CASE SubscribeFails(c)
    BY <1>19, NoOneAssumption DEF SubscribeFails
  <1>20. CASE RelayEnds(c)
    BY <1>20, NoOneAssumption DEF RelayEnds
  <1> QED
    BY <1>1, <1>2, <1>3, <1>4, <1>5, <1>6, <1>7, <1>8, <1>9, <1>10,
       <1>11, <1>12, <1>13, <1>14, <1>15, <1>16, <1>17, <1>18, <1>19, <1>20
    DEF Step, Socket, Serve, Refuse

\* What UnsubscribeAll and registerSubscriptions leave behind, after every step.
LEMMA SubscriptionsStep ==
  ASSUME HubInv, NEW c \in Clients, Step(c)
  PROVE  SubsInv' /\ ActiveInv' /\ ClosedInv'
  <1>1. TypeOK /\ ControlInv /\ SubsInv /\ ActiveInv /\ ClosedInv
    BY DEF HubInv, TypeInv
  <1>2. /\ handler \in [Clients -> Serving \union {"off", "ended"}]
        /\ gen \in [Clients -> Nat]
        /\ subs \in [Clients -> SUBSET SubIds]
        /\ todo \in [Clients -> SUBSET SubIds]
        /\ closing \in [Clients -> SubIds \union {NoOne}]
    BY <1>1 DEF TypeOK
  <1>3. \A s \in active \union closed : s[1] \in Clients /\ s[2] \in Nat
    BY <1>1, SubIdParts
  <1> USE DEF ControlInv, SubsInv, Serving
  <1>4. CASE Register(c)
    BY <1>1, <1>2, <1>4, SubscriptionsUntouched DEF Register
  <1>5. CASE RegisterFails(c)
    BY <1>1, <1>2, <1>5, SubscriptionsUntouched DEF RegisterFails
  <1>6. CASE Cancel(c)
    BY <1>1, <1>2, <1>6, SubscriptionsUntouched DEF Cancel
  <1>7. CASE ReadFails(c)
    BY <1>1, <1>2, <1>7, SubscriptionsUntouched DEF ReadFails
  <1>8. ASSUME NEW r \in Requests, ReadRequest(c, r)
        PROVE  SubsInv' /\ ActiveInv' /\ ClosedInv'
    BY <1>1, <1>2, <1>8, SubscriptionsUntouched DEF ReadRequest
  <1>9. CASE TakeRequest(c)
    BY <1>1, <1>2, <1>9, SubscriptionsUntouched DEF TakeRequest
  <1>10. CASE RejectRequest(c)
    BY <1>1, <1>2, <1>10, SubscriptionsUntouched DEF RejectRequest
  <1>11. CASE TakeDone(c)
    BY <1>1, <1>2, <1>11, SubscriptionsUntouched DEF TakeDone
  <1>12. CASE PurgeSubscriptions(c)
    <2>1. SubsInv'
      BY <1>1, <1>2, <1>3, <1>12, NoOneAssumption DEF PurgeSubscriptions
    <2>2. ActiveInv'
      BY <1>1, <1>2, <1>3, <1>12, NoOneAssumption DEF PurgeSubscriptions, ActiveInv
    <2>3. ClosedInv'
      BY <1>1, <1>2, <1>3, <1>12, NoOneAssumption DEF PurgeSubscriptions, ClosedInv
    <2> QED
      BY <2>1, <2>2, <2>3
  <1>13. CASE PurgeConnection(c)
    <2>1. SubsInv'
      BY <1>1, <1>2, <1>3, <1>13, NoOneAssumption DEF PurgeConnection
    <2>2. ActiveInv'
      BY <1>1, <1>2, <1>3, <1>13, NoOneAssumption DEF PurgeConnection, ActiveInv
    <2>3. ClosedInv'
      BY <1>1, <1>2, <1>3, <1>13, NoOneAssumption DEF PurgeConnection, ClosedInv
    <2> QED
      BY <2>1, <2>2, <2>3
  <1>14. CASE Unsubscribe(c)
    <2>1. SubsInv'
      BY <1>1, <1>2, <1>3, <1>14, NoOneAssumption DEF Unsubscribe
    <2>2. ActiveInv'
      BY <1>1, <1>2, <1>3, <1>14, NoOneAssumption DEF Unsubscribe, ActiveInv
    <2>3. ClosedInv'
      BY <1>1, <1>2, <1>3, <1>14, NoOneAssumption DEF Unsubscribe, ClosedInv
    <2> QED
      BY <2>1, <2>2, <2>3
  <1>15. CASE CloseChannel(c)
    <2>1. SubsInv'
      BY <1>1, <1>2, <1>3, <1>15, NoOneAssumption DEF CloseChannel
    <2>2. ActiveInv'
      BY <1>1, <1>2, <1>3, <1>15, NoOneAssumption DEF CloseChannel, ActiveInv
    <2>3. ClosedInv'
      BY <1>1, <1>2, <1>3, <1>15, NoOneAssumption DEF CloseChannel, ClosedInv
    <2> QED
      BY <2>1, <2>2, <2>3
  <1>16. CASE Purged(c)
    <2>1. SubsInv'
      BY <1>1, <1>2, <1>3, <1>16, NoOneAssumption DEF Purged
    <2>2. ActiveInv'
      BY <1>1, <1>2, <1>3, <1>16, NoOneAssumption DEF Purged, ActiveInv
    <2>3. ClosedInv'
      BY <1>1, <1>2, <1>3, <1>16, NoOneAssumption DEF Purged, ClosedInv
    <2> QED
      BY <2>1, <2>2, <2>3
  <1>17. CASE Unregister(c)
    <2>1. SubsInv'
      BY <1>1, <1>2, <1>3, <1>17, NoOneAssumption DEF Unregister
    <2>2. ActiveInv'
      BY <1>1, <1>2, <1>3, <1>17, NoOneAssumption DEF Unregister, ActiveInv
    <2>3. ClosedInv'
      BY <1>1, <1>2, <1>3, <1>17, NoOneAssumption DEF Unregister, ClosedInv
    <2> QED
      BY <2>1, <2>2, <2>3
  <1>18. CASE Subscribe(c)
    <2>1. SubsInv'
      BY <1>1, <1>2, <1>3, <1>18, NoOneAssumption DEF Subscribe
    <2>2. ActiveInv'
      BY <1>1, <1>2, <1>3, <1>18, NoOneAssumption DEF Subscribe, ActiveInv
    <2>3. ClosedInv'
      BY <1>1, <1>2, <1>3, <1>18, NoOneAssumption DEF Subscribe, ClosedInv
    <2> QED
      BY <2>1, <2>2, <2>3
  <1>19. CASE StartFanIn(c)
    BY <1>1, <1>2, <1>19, SubscriptionsUntouched DEF StartFanIn
  <1>20. CASE EnableMetrics(c)
    BY <1>1, <1>2, <1>20, SubscriptionsUntouched DEF EnableMetrics
  <1>21. CASE DisableMetrics(c)
    BY <1>1, <1>2, <1>21, SubscriptionsUntouched DEF DisableMetrics
  <1>22. CASE SubscribeFails(c)
    BY <1>1, <1>2, <1>22, SubscriptionsUntouched DEF SubscribeFails
  <1>23. CASE RelayEnds(c)
    BY <1>1, <1>2, <1>23, SubscriptionsUntouched DEF RelayEnds
  <1> QED
    BY <1>4, <1>5, <1>6, <1>7, <1>8, <1>9, <1>10, <1>11, <1>12, <1>13,
       <1>14, <1>15, <1>16, <1>17, <1>18, <1>19, <1>20, <1>21, <1>22, <1>23
    DEF Step, Socket, Serve, Refuse

\* The metrics contexts, after every step.
LEMMA MetricsStep ==
  ASSUME HubInv, NEW c \in Clients, Step(c)
  PROVE  MetricsInv'
  <1>1. /\ handler \in [Clients -> Serving \union {"off", "ended"}]
        /\ job \in [Clients -> Requests \union {Teardown, NoOne}]
        /\ mcancel \in [Clients -> Nat]
        /\ started \in [Clients -> Nat]
        /\ mlive \in [Clients -> SUBSET (Nat \ {0})]
    BY DEF HubInv, TypeInv, TypeOK
  <1>2. ControlInv /\ MetricsInv /\ JobOK
    BY DEF HubInv, TypeInv
  <1> USE DEF ControlInv, MetricsInv, MetricsStoppable, Serving
  <1>3. CASE Register(c)
    BY <1>1, <1>2, <1>3 DEF Register
  <1>4. CASE RegisterFails(c)
    BY <1>1, <1>2, <1>4 DEF RegisterFails
  <1>5. CASE Cancel(c)
    BY <1>1, <1>2, <1>5 DEF Cancel
  <1>6. CASE ReadFails(c)
    BY <1>1, <1>2, <1>6 DEF ReadFails
  <1>7. ASSUME NEW r \in Requests, ReadRequest(c, r)
        PROVE  MetricsInv'
    BY <1>1, <1>2, <1>7 DEF ReadRequest
  <1>8. CASE TakeRequest(c)
    BY <1>1, <1>2, <1>8 DEF TakeRequest
  <1>9. CASE RejectRequest(c)
    BY <1>1, <1>2, <1>9 DEF RejectRequest
  <1>10. CASE TakeDone(c)
    BY <1>1, <1>2, <1>10 DEF TakeDone
  <1>11. CASE PurgeSubscriptions(c)
    BY <1>1, <1>2, <1>11 DEF PurgeSubscriptions, JobOK, SubRequest, Teardown
  <1>12. CASE PurgeConnection(c)
    BY <1>1, <1>2, <1>12 DEF PurgeConnection, JobOK, SubRequest, Teardown
  <1>13. CASE Unsubscribe(c)
    BY <1>1, <1>2, <1>13 DEF Unsubscribe
  <1>14. CASE CloseChannel(c)
    BY <1>1, <1>2, <1>14 DEF CloseChannel
  <1>15. CASE Purged(c)
    BY <1>1, <1>2, <1>15 DEF Purged, JobOK, SubRequest, Teardown
  <1>16. CASE Unregister(c)
    BY <1>1, <1>2, <1>16 DEF Unregister, JobOK, SubRequest, Teardown
  <1>17. CASE Subscribe(c)
    BY <1>1, <1>2, <1>17 DEF Subscribe
  <1>18. CASE StartFanIn(c)
    BY <1>1, <1>2, <1>18 DEF StartFanIn
  <1>19. CASE EnableMetrics(c)
    <2>1. /\ c \in reg /\ UNCHANGED <<reg, job>>
          /\ handler' = [handler EXCEPT ![c] = "select"]
      BY <1>1, <1>2, <1>19 DEF EnableMetrics
    <2>2. CASE UNCHANGED metricVars
      BY <1>1, <1>2, <2>1, <2>2
    <2>3. CASE /\ mcancel[c] = 0
               /\ mcancel' = [mcancel EXCEPT ![c] = started[c] + 1]
               /\ mlive'   = [mlive EXCEPT ![c] = @ \union {started[c] + 1}]
      <3>1. mlive[c] = {}
        BY <1>1, <1>2, <2>3
      <3> QED
        BY <1>1, <1>2, <2>1, <2>3, <3>1
    <2> QED
      BY <1>19, <2>2, <2>3 DEF EnableMetrics
  <1>20. CASE DisableMetrics(c)
    BY <1>1, <1>2, <1>20 DEF DisableMetrics
  <1>21. CASE SubscribeFails(c)
    BY <1>1, <1>2, <1>21 DEF SubscribeFails
  <1>22. CASE RelayEnds(c)
    BY <1>1, <1>2, <1>22 DEF RelayEnds
  <1> QED
    BY <1>3, <1>4, <1>5, <1>6, <1>7, <1>8, <1>9, <1>10, <1>11, <1>12,
       <1>13, <1>14, <1>15, <1>16, <1>17, <1>18, <1>19, <1>20, <1>21, <1>22
    DEF Step, Socket, Serve, Refuse

\* HubInv holds in every reachable state.
LEMMA HubInvariant == ControlSpec => []HubInv
  <1>1. Init => TypeInv
    BY NoOneAssumption, CapAssumption DEF Init, TypeInv, TypeOK, JobOK, Serving
  <1>2. Init => ControlInv /\ SubsInv
    BY NoOneAssumption DEF Init, ControlInv, SubsInv, Serving
  <1>3. Init => ActiveInv /\ ClosedInv /\ MetricsInv
    BY DEF Init, ActiveInv, ClosedInv, MetricsInv, MetricsStoppable
  <1>4. HubInv /\ [Next]_vars => HubInv'
    <2> SUFFICES ASSUME HubInv, [Next]_vars
                 PROVE  HubInv'
      OBVIOUS
    <2>1. CASE Next
      <3>1. PICK c \in Clients : Step(c)
        BY <2>1 DEF Next, Step
      <3>2. TypeInv'
        BY <3>1, SocketKeepsType, ServeKeepsType DEF HubInv, Step
      <3> QED
        BY <3>1, <3>2, ControlStep, SubscriptionsStep, MetricsStep DEF HubInv
    <2>2. CASE UNCHANGED vars
      <3>1. TypeInv' /\ ControlInv'
        BY <2>2 DEF vars, HubInv, TypeInv, TypeOK, JobOK, ControlInv
      <3>2. SubsInv' /\ ActiveInv' /\ ClosedInv'
        BY <2>2 DEF vars, HubInv, SubsInv, ActiveInv, ClosedInv
      <3>3. MetricsInv'
        BY <2>2 DEF vars, HubInv, MetricsInv, MetricsStoppable
      <3> QED
        BY <3>1, <3>2, <3>3 DEF HubInv
    <2> QED
      BY <2>1, <2>2
  <1> QED
    BY <1>1, <1>2, <1>3, <1>4, PTL DEF ControlSpec, HubInv

\* NATS never delivers to a closed channel (clientconn.go:17-25).
THEOREM SendsAreSafe == Spec => []NoSendOnClosed
  <1>1. HubInv => NoSendOnClosed
    <2> SUFFICES ASSUME HubInv, NEW s \in active \cap closed
                 PROVE  FALSE
      BY DEF NoSendOnClosed
    <2>1. s[1] \in Clients /\ s \in subs[s[1]]
      BY SubIdParts DEF HubInv, TypeInv, ActiveInv
    <2>2. handler[s[1]] = "unsubscribe" /\ s \notin todo[s[1]]
      BY <2>1 DEF HubInv, ClosedInv
    <2> QED
      BY <2>2 DEF HubInv, ActiveInv
  <1> QED
    BY <1>1, HubInvariant, PTL DEF Spec

\* UnsubscribeAll closes each channel at most once (clientconn.go:20-23).
THEOREM ClosesOnce == Spec => []NoDoubleClose
  <1>1. HubInv => NoDoubleClose
    <2> SUFFICES ASSUME HubInv, NEW c \in Clients, closing[c] \in closed
                 PROVE  FALSE
      BY DEF NoDoubleClose
    <2>1. closing[c] # NoOne
      BY NoOneAssumption DEF HubInv, TypeInv, TypeOK, SubIds
    <2>2. closing[c] \in todo[c] /\ closing[c] \in subs[c] /\ closing[c][1] = c
      BY <2>1 DEF HubInv, SubsInv
    <2> QED
      BY <2>2 DEF HubInv, ClosedInv
  <1> QED
    BY <1>1, HubInvariant, PTL DEF Spec

\* No channel is sent on or closed once it is closed.
THEOREM ChannelsStaySound == Spec => []ChannelsSound
  <1>1. NoSendOnClosed /\ NoDoubleClose <=> ChannelsSound
    BY DEF ChannelsSound
  <1> QED
    BY <1>1, SendsAreSafe, ClosesOnce, PTL

\* No subscription is orphaned: a registered client's Subs holds it
\* (registerSubscriptions, hub.go:179-201).
THEOREM SubscriptionsOwned == Spec => []NoOrphanSubscription
  <1>1. HubInv => NoOrphanSubscription
    <2> SUFFICES ASSUME HubInv, NEW s \in active
                 PROVE  s[1] \in reg /\ s \in subs[s[1]]
      BY DEF NoOrphanSubscription, Owner
    <2>1. s[1] \in Clients /\ s \in subs[s[1]]
      BY SubIdParts DEF HubInv, TypeInv, ActiveInv
    <2> QED
      BY <2>1 DEF HubInv, SubsInv, ControlInv
  <1> QED
    BY <1>1, HubInvariant, PTL DEF Spec

\* No subscription outlives the request it was made for (HandleSubRequest,
\* hub.go:128-135).
THEOREM LatestRequest == Spec => []OnlyLatestGeneration
  <1>1. HubInv => OnlyLatestGeneration
    <2> SUFFICES ASSUME HubInv, NEW s \in active
                 PROVE  s[2] = gen[s[1]]
      BY DEF OnlyLatestGeneration, Owner
    <2>1. s[1] \in Clients /\ s \in subs[s[1]]
      BY SubIdParts DEF HubInv, TypeInv, ActiveInv
    <2> QED
      BY <2>1 DEF HubInv, SubsInv
  <1> QED
    BY <1>1, HubInvariant, PTL DEF Spec

\* What NATS delivers to is recorded by its client, for its latest request.
THEOREM SubscriptionsStaySound == Spec => []SubscriptionsSound
  <1>1. NoOrphanSubscription /\ OnlyLatestGeneration <=> SubscriptionsSound
    BY DEF SubscriptionsSound
  <1> QED
    BY <1>1, SubscriptionsOwned, LatestRequest, PTL

\* A client is in the registry for as long as its requests are served.
THEOREM Registered == Spec => []RegisteredWhileServing
  <1>1. HubInv => RegisteredWhileServing
    BY DEF HubInv, ControlInv, RegisteredWhileServing
  <1> QED
    BY <1>1, HubInvariant, PTL DEF Spec

\* A client has at most one live metrics context, and its MetricsCancel ends it.
THEOREM MetricsStop == Spec => []MetricsStoppable
  <1>1. HubInv => MetricsStoppable
    BY DEF HubInv, MetricsInv
  <1> QED
    BY <1>1, HubInvariant, PTL DEF Spec

\* Nothing of a client is left when its request goroutine has returned.
THEOREM TearsDown == Spec => []TeardownComplete
  <1>1. HubInv => TeardownComplete
    <2> SUFFICES ASSUME HubInv, NEW c \in Clients, handler[c] = "ended"
                 PROVE  /\ c \notin reg /\ subs[c] = {} /\ mlive[c] = {}
                        /\ \A s \in active : s[1] # c
      BY DEF TeardownComplete, Owner
    <2>1. c \notin reg /\ subs[c] = {}
      BY DEF HubInv, ControlInv, SubsInv, Serving
    <2>2. mlive[c] = {}
      BY <2>1 DEF HubInv, MetricsInv, MetricsStoppable
    <2>3. ASSUME NEW s \in active, s[1] = c
          PROVE  FALSE
      BY <2>1, <2>3 DEF HubInv, ActiveInv
    <2> QED
      BY <2>1, <2>2, <2>3
  <1> QED
    BY <1>1, HubInvariant, PTL DEF Spec

-----------------------------------------------------------------------------
(* The pipeline. *)

\* A websocket's writer runs only after it was registered.
WriterInv ==
  /\ ctx \in [Clients -> {"none", "refused", "live", "done"}]
  /\ writer \in [Clients -> {"off", "on", "ended"}]
  /\ \A c \in Clients : writer[c] = "on" => ctx[c] \in {"live", "done"}

\* The steps that change none of the hub's own variables.
LEMMA PayloadSteps ==
  ASSUME NEW c \in Clients, Carry(c) \/ Observe(c) \/ Write(c) \/ WriterEnds(c)
  PROVE  UNCHANGED vars
  <1>1. CASE Carry(c)
    BY <1>1 DEF Carry, ForwardReceive, ForwardSend, ForwardEnd, ParserReceive, ParserSend
  <1>2. CASE Observe(c)
    BY <1>2 DEF Observe, EventsStart, EventsReceive, EventsSend, EventsEnd, EventsOrphaned,
        RelaySample
  <1>3. CASE Write(c) \/ WriterEnds(c)
    BY <1>3 DEF Write, WriterEnds
  <1> QED
    BY <1>1, <1>2, <1>3

\* A failed write ends the websocket's context, as a close frame does, unless
\* it has ended already.
LEMMA FailedWrite ==
  ASSUME WriterInv, NEW c \in Clients, WriteFails(c)
  PROVE  Cancel(c) \/ UNCHANGED vars
  <1>1. ctx[c] \in {"live", "done"}
    BY DEF WriterInv, WriteFails
  <1>2. CASE ctx[c] = "live"
    BY <1>2 DEF WriteFails, Cancel
  <1>3. CASE ctx[c] = "done"
    <2>1. ctx' = ctx
      BY <1>3 DEF WriteFails, WriterInv
    <2> QED
      BY <2>1 DEF WriteFails, vars, socketVars
  <1> QED
    BY <1>1, <1>2, <1>3

\* Every step of the pipeline is a step of the hub or leaves it alone.
LEMMA StepFollowsHub ==
  ASSUME WriterInv, [PipeNext]_allVars
  PROVE  [Next]_vars
  <1>1. CASE UNCHANGED allVars
    BY <1>1 DEF allVars
  <1>2. ASSUME NEW s \in active, Deliver(s)
        PROVE  UNCHANGED vars
    BY <1>2 DEF Deliver
  <1>3. ASSUME NEW c \in Clients, WriteFails(c)
        PROVE  [Next]_vars
    BY <1>3, FailedWrite DEF Next, Socket
  <1>4. ASSUME NEW c \in Clients, Connect(c) \/ Control(c)
        PROVE  Next
    BY <1>4 DEF Connect, Control, Next, Socket
  <1>5. ASSUME NEW c \in Clients, ServeQuietly(c) \/ Report(c)
        PROVE  Next
    BY <1>5 DEF ServeQuietly, Report, Next
  <1> QED
    BY <1>1, <1>2, <1>3, <1>4, <1>5, PayloadSteps DEF PipeNext

LEMMA WriterInvariant == PipeSpec => []WriterInv
  <1>1. PipeInit => WriterInv
    BY DEF PipeInit, Init, WriterInv
  <1>2. WriterInv /\ [PipeNext]_allVars => WriterInv'
    <2> SUFFICES ASSUME WriterInv, [PipeNext]_allVars
                 PROVE  WriterInv'
      OBVIOUS
    <2> USE DEF WriterInv
    <2>1. CASE UNCHANGED allVars
      BY <2>1 DEF allVars, vars, socketVars, sinkVars
    <2>2. ASSUME NEW s \in active, Deliver(s)
          PROVE  WriterInv'
      BY <2>2 DEF Deliver, vars, socketVars, sinkVars
    <2>3. ASSUME NEW c \in Clients, Connect(c)
          PROVE  WriterInv'
      BY <2>3 DEF Connect, Register
    <2>4. ASSUME NEW c \in Clients, Control(c)
          PROVE  WriterInv'
      <3>1. writer' = writer
        BY <2>4 DEF Control, sinkVars
      <3>2. \/ ctx' = ctx
            \/ ctx' = [ctx EXCEPT ![c] = "done"]
            \/ ctx[c] = "none" /\ ctx' = [ctx EXCEPT ![c] = "refused"]
        BY <2>4 DEF Control, RegisterFails, Cancel, ReadFails, ReadRequest, RelayEnds, socketVars
      <3> QED
        BY <3>1, <3>2
    <2>5. ASSUME NEW c \in Clients, ServeQuietly(c) \/ Report(c)
          PROVE  WriterInv'
      <3>1. writer' = writer
        BY <2>5 DEF ServeQuietly, Report, sinkVars
      <3>2. ctx' = ctx
        BY <2>5 DEF ServeQuietly, Report, Serve, Refuse, TakeRequest, TakeDone,
           PurgeSubscriptions, PurgeConnection, Unsubscribe, CloseChannel, Purged, Unregister,
           Subscribe, StartFanIn, EnableMetrics, DisableMetrics, RejectRequest, SubscribeFails,
           socketVars
      <3> QED
        BY <3>1, <3>2
    <2>6. ASSUME NEW c \in Clients, Carry(c) \/ Observe(c) \/ Write(c) \/ WriterEnds(c)
          PROVE  WriterInv'
      <3>1. ctx' = ctx
        BY <2>6, PayloadSteps DEF vars, socketVars
      <3>2. writer' = writer \/ writer' = [writer EXCEPT ![c] = "ended"]
        BY <2>6 DEF Carry, ForwardReceive, ForwardSend, ForwardEnd, ParserReceive, ParserSend,
           Observe, EventsStart, EventsReceive, EventsSend, EventsEnd, EventsOrphaned,
        RelaySample, Write,
           WriterEnds, sinkVars
      <3> QED
        BY <3>1, <3>2
    <2>7. ASSUME NEW c \in Clients, WriteFails(c)
          PROVE  WriterInv'
      BY <2>7 DEF WriteFails
    <2> QED
      BY <2>1, <2>2, <2>3, <2>4, <2>5, <2>6, <2>7 DEF PipeNext
  <1> QED
    BY <1>1, <1>2, PTL DEF PipeSpec

\* Seen through the hub's variables, the hub with its pipeline is the hub.
THEOREM PipelineFollowsHub == PipeSpec => FollowsHub
  <1>1. PipeInit => Init
    BY DEF PipeInit
  <1>2. WriterInv /\ [PipeNext]_allVars => [Next]_vars
    BY StepFollowsHub
  <1> QED
    BY <1>1, <1>2, WriterInvariant, PTL DEF PipeSpec, ControlSpec, FollowsHub

\* So no forwarder, parser or sender of the pipeline ever meets a channel the
\* hub closed too early: the hub's invariants hold with messages flowing.
THEOREM PipelineKeepsHubInv == PipeSpec => []HubInv
  BY PipelineFollowsHub, HubInvariant DEF FollowsHub

-----------------------------------------------------------------------------
(* What the hub guarantees of the subscriptions NATS delivers to.  The      *)
(* generation of a client never exceeds the requests it sent, so that each  *)
(* subscription is one of Channels, and its position is one of the subject  *)
(* list that the client has asked for last.                                 *)

\* A subscription request that is being served and has not got its generation.
Unnumbered(c) ==
  handler[c] = "purge" \/ (handler[c] = "unsubscribe" /\ job[c] # Teardown)

GenInv ==
  \A c \in Clients :
    /\ nreq[c] <= MaxRequests
    /\ gen[c] + Len(reqCh[c]) <= nreq[c]
    /\ Unnumbered(c) => gen[c] + Len(reqCh[c]) + 1 <= nreq[c]
    /\ handler[c] = "subscribe" => gen[c] > 0

ChannelInv ==
  \A s \in active : s \in Channels /\ s[3] \in DOMAIN asked[Owner(s)]

\* What the request channel loses and gains.
LEMMA QueueLength ==
  ASSUME TypeOK, NEW c \in Clients
  PROVE  /\ Len(reqCh[c]) \in Nat /\ gen[c] \in Nat /\ nreq[c] \in Nat
         /\ reqCh[c] # <<>> => Len(Tail(reqCh[c])) = Len(reqCh[c]) - 1
         /\ \A r \in Requests : Len(Append(reqCh[c], r)) = Len(reqCh[c]) + 1
  <1>1. reqCh[c] \in Seq(Requests)
    BY DEF TypeOK
  <1> QED
    BY <1>1 DEF TypeOK

LEMMA GenStep ==
  ASSUME HubInv, GenInv, [Next]_vars
  PROVE  GenInv'
  <1> SUFFICES ASSUME NEW d \in Clients
               PROVE  /\ nreq'[d] <= MaxRequests
                      /\ gen'[d] + Len(reqCh'[d]) <= nreq'[d]
                      /\ Unnumbered(d)' => gen'[d] + Len(reqCh'[d]) + 1 <= nreq'[d]
                      /\ handler'[d] = "subscribe" => gen'[d] > 0
    BY DEF GenInv
  <1> USE DEF GenInv, Unnumbered, Teardown, socketVars, connVars, unsubVars, natsVars, metricVars
  <1>a. TypeOK /\ JobOK
    BY DEF HubInv, TypeInv
  <1>b. /\ handler \in [Clients -> Serving \union {"off", "ended"}] /\ gen \in [Clients -> Nat]
        /\ nreq \in [Clients -> Nat] /\ reqCh \in [Clients -> Seq(Requests)]
        /\ job \in [Clients -> Requests \union {Teardown, NoOne}]
    BY <1>a DEF TypeOK
  <1>1. CASE UNCHANGED vars
    BY <1>1 DEF vars
  <1>2. ASSUME NEW c \in Clients, Socket(c) \/ RelayEnds(c)
        PROVE  /\ nreq'[d] <= MaxRequests
               /\ gen'[d] + Len(reqCh'[d]) <= nreq'[d]
               /\ Unnumbered(d)' => gen'[d] + Len(reqCh'[d]) + 1 <= nreq'[d]
               /\ handler'[d] = "subscribe" => gen'[d] > 0
    <2>1. CASE Register(c) \/ RegisterFails(c) \/ Cancel(c) \/ ReadFails(c) \/ RelayEnds(c)
      BY <1>b, <2>1 DEF Register, RegisterFails, Cancel, ReadFails, RelayEnds
    <2>2. ASSUME NEW r \in Requests, ReadRequest(c, r)
          PROVE  /\ nreq'[d] <= MaxRequests
                 /\ gen'[d] + Len(reqCh'[d]) <= nreq'[d]
                 /\ Unnumbered(d)' => gen'[d] + Len(reqCh'[d]) + 1 <= nreq'[d]
                 /\ handler'[d] = "subscribe" => gen'[d] > 0
      <3>1. CASE d = c
        BY <1>a, <1>b, <2>2, <3>1, QueueLength, CapAssumption DEF ReadRequest
      <3>2. CASE d # c
        BY <1>b, <2>2, <3>2 DEF ReadRequest
      <3> QED
        BY <3>1, <3>2
    <2> QED
      BY <1>2, <2>1, <2>2 DEF Socket
  <1>3. ASSUME NEW c \in Clients, Serve(c) \/ Refuse(c)
        PROVE  /\ nreq'[d] <= MaxRequests
               /\ gen'[d] + Len(reqCh'[d]) <= nreq'[d]
               /\ Unnumbered(d)' => gen'[d] + Len(reqCh'[d]) + 1 <= nreq'[d]
               /\ handler'[d] = "subscribe" => gen'[d] > 0
    <2>1. CASE TakeRequest(c) \/ RejectRequest(c)
      <3>1. CASE d = c
        BY <1>a, <1>b, <2>1, <3>1, QueueLength DEF TakeRequest, RejectRequest
      <3>2. CASE d # c
        BY <1>b, <2>1, <3>2 DEF TakeRequest, RejectRequest
      <3> QED
        BY <3>1, <3>2
    <2>2. CASE TakeDone(c) \/ PurgeSubscriptions(c)
      BY <1>a, <1>b, <2>2, QueueLength DEF TakeDone, PurgeSubscriptions
    <2>3. CASE PurgeConnection(c)
      BY <1>a, <1>b, <2>3, QueueLength DEF PurgeConnection
    <2>4. CASE Unsubscribe(c) \/ CloseChannel(c) \/ Unregister(c)
      BY <1>a, <1>b, <2>4, QueueLength DEF Unsubscribe, CloseChannel, Unregister
    <2>5. CASE Purged(c)
      BY <1>a, <1>b, <2>5, QueueLength DEF Purged
    <2>6. CASE Subscribe(c) \/ StartFanIn(c) \/ EnableMetrics(c) \/ DisableMetrics(c)
               \/ SubscribeFails(c)
      BY <1>a, <1>b, <2>6, QueueLength
      DEF Subscribe, StartFanIn, EnableMetrics, DisableMetrics, SubscribeFails
    <2> QED
      BY <1>3, <2>1, <2>2, <2>3, <2>4, <2>5, <2>6 DEF Serve, Refuse
  <1> QED
    BY <1>1, <1>2, <1>3 DEF Next

LEMMA ChannelStep ==
  ASSUME HubInv, GenInv, ChannelInv, [Next]_vars
  PROVE  ChannelInv'
  <1> USE DEF socketVars, connVars, unsubVars, natsVars, metricVars
  <1>a. TypeOK /\ ActiveInv /\ SubsInv
    BY DEF HubInv, TypeInv
  <1>b. /\ asked \in [Clients -> SubjectLists \union {<<>>}] /\ gen \in [Clients -> Nat]
        /\ reqCh \in [Clients -> Seq(Requests)] /\ nreq \in [Clients -> Nat]
        /\ \A s \in active : s[1] \in Clients
    BY <1>a, SubIdParts DEF TypeOK
  <1>1. CASE active' \subseteq active /\ asked' = asked
    BY <1>1 DEF ChannelInv, Owner
  <1>2. ASSUME NEW c \in Clients, Subscribe(c)
        PROVE  ChannelInv'
    <2>1. PICK i \in NextPos(c) : active' = active \union {<<c, gen[c], i>>}
      BY <1>2 DEF Subscribe
    <2>2. i \in DOMAIN asked[c]
      BY DEF NextPos
    <2>3. asked[c] \in SubjectLists
      BY <1>b, <2>2
    <2>4. i \in Positions
      BY <2>2, <2>3 DEF Positions
    <2>5. gen[c] \in 1..MaxRequests
      BY <1>2, <1>a, QueueLength, CapAssumption DEF GenInv, Subscribe
    <2> QED
      BY <1>2, <2>1, <2>2, <2>4, <2>5 DEF ChannelInv, Channels, Owner, Subscribe
  <1>3. ASSUME NEW c \in Clients, Purged(c)
        PROVE  ChannelInv'
    <2>1. \A s \in active : s[1] # c
      BY <1>3, <1>a DEF ActiveInv, Purged
    <2> QED
      BY <1>3, <1>b, <2>1 DEF ChannelInv, Owner, Purged
  <1> QED
    BY <1>1, <1>2, <1>3
    DEF vars, Next, Socket, Serve, Refuse, Register, RegisterFails, Cancel, ReadRequest, ReadFails,
        TakeRequest, RejectRequest, TakeDone, PurgeSubscriptions, PurgeConnection, Unsubscribe,
        CloseChannel, Unregister, StartFanIn, EnableMetrics, DisableMetrics, SubscribeFails,
        RelayEnds

LEMMA ChannelInvariant == ControlSpec => [](GenInv /\ ChannelInv)
  <1>1. Init => GenInv /\ ChannelInv
    BY CapAssumption DEF Init, GenInv, Unnumbered, ChannelInv
  <1>2. HubInv /\ GenInv /\ ChannelInv /\ [Next]_vars => (GenInv /\ ChannelInv)'
    BY GenStep, ChannelStep
  <1> QED
    BY <1>1, <1>2, HubInvariant, PTL DEF ControlSpec


-----------------------------------------------------------------------------
(* The order of what is on its way to the writer.  A message changes places *)
(* at the ends of the five channels that Ahead strings together: to the     *)
(* messages of its own subscription a hand-over changes nothing, to those   *)
(* of another it puts something between them or takes something away.       *)

Payloads == NatsMsg \union {Notice}

\* In a sequence the messages of s rise; all of one come before those of
\* another; none is later than the n-th; none is from s at all.
Rises(q, s) ==
  \A i, j \in DOMAIN q : i < j /\ Of(q[i], s) /\ Of(q[j], s) => q[i].n < q[j].n
Precedes(q, r, s) ==
  \A i \in DOMAIN q, j \in DOMAIN r : Of(q[i], s) /\ Of(r[j], s) => q[i].n < r[j].n
UpTo(q, s, n) == \A i \in DOMAIN q : Of(q[i], s) => q[i].n <= n
Foreign(q, s) == \A i \in DOMAIN q : ~Of(q[i], s)

Sorted(q, s, n) == Rises(q, s) /\ UpTo(q, s, n)

\* What is in a concatenation.
LEMMA Concat ==
  ASSUME NEW S, NEW q \in Seq(S), NEW r \in Seq(S)
  PROVE  /\ q \o r \in Seq(S) /\ DOMAIN (q \o r) = 1..(Len(q) + Len(r))
         /\ DOMAIN q = 1..Len(q) /\ DOMAIN r = 1..Len(r) /\ Len(q) \in Nat /\ Len(r) \in Nat
         /\ Len(q \o r) = Len(q) + Len(r)
         /\ \A i \in DOMAIN q : i \in DOMAIN (q \o r) /\ (q \o r)[i] = q[i]
         /\ \A j \in DOMAIN r : Len(q) + j \in DOMAIN (q \o r) /\ (q \o r)[Len(q) + j] = r[j]
         /\ \A k \in DOMAIN (q \o r) :
              \/ k \in DOMAIN q /\ (q \o r)[k] = q[k]
              \/ \E j \in DOMAIN r : k = Len(q) + j /\ (q \o r)[k] = r[j]
  <1>1. /\ q \o r \in Seq(S) /\ DOMAIN (q \o r) = 1..(Len(q) + Len(r))
        /\ DOMAIN q = 1..Len(q) /\ DOMAIN r = 1..Len(r) /\ Len(q) \in Nat /\ Len(r) \in Nat
        /\ Len(q \o r) = Len(q) + Len(r)
    OBVIOUS
  <1>2. \A i \in 1..(Len(q) + Len(r)) :
          (q \o r)[i] = IF i <= Len(q) THEN q[i] ELSE r[i - Len(q)]
    OBVIOUS
  <1>3. \A i \in DOMAIN q : i \in DOMAIN (q \o r) /\ (q \o r)[i] = q[i]
    BY <1>1, <1>2
  <1>4. \A j \in DOMAIN r : Len(q) + j \in DOMAIN (q \o r) /\ (q \o r)[Len(q) + j] = r[j]
    BY <1>1, <1>2
  <1>5. ASSUME NEW k \in DOMAIN (q \o r)
        PROVE  \/ k \in DOMAIN q /\ (q \o r)[k] = q[k]
               \/ \E j \in DOMAIN r : k = Len(q) + j /\ (q \o r)[k] = r[j]
    <2>1. CASE k <= Len(q)
      BY <1>1, <1>2, <2>1
    <2>2. CASE ~(k <= Len(q))
      <3>1. k - Len(q) \in DOMAIN r /\ k = Len(q) + (k - Len(q))
        BY <1>1, <2>2
      <3> QED
        BY <1>1, <1>2, <2>2, <3>1
    <2> QED
      BY <2>1, <2>2
  <1> QED
    BY <1>1, <1>3, <1>4, <1>5

LEMMA RisesConcat ==
  ASSUME NEW S, NEW q \in Seq(S), NEW r \in Seq(S), NEW s
  PROVE  Rises(q \o r, s) <=> Rises(q, s) /\ Rises(r, s) /\ Precedes(q, r, s)
  <1>1. ASSUME Rises(q \o r, s)
        PROVE  Rises(q, s) /\ Rises(r, s) /\ Precedes(q, r, s)
    <2>1. Rises(q, s)
      <3> SUFFICES ASSUME NEW i \in DOMAIN q, NEW j \in DOMAIN q, i < j, Of(q[i], s), Of(q[j], s)
                   PROVE  q[i].n < q[j].n
        BY DEF Rises
      <3>1. /\ i \in DOMAIN (q \o r) /\ (q \o r)[i] = q[i]
            /\ j \in DOMAIN (q \o r) /\ (q \o r)[j] = q[j]
        BY Concat
      <3> QED
        BY <1>1, <3>1 DEF Rises
    <2>2. Rises(r, s)
      <3> SUFFICES ASSUME NEW i \in DOMAIN r, NEW j \in DOMAIN r, i < j, Of(r[i], s), Of(r[j], s)
                   PROVE  r[i].n < r[j].n
        BY DEF Rises
      <3>1. /\ Len(q) + i \in DOMAIN (q \o r) /\ (q \o r)[Len(q) + i] = r[i]
            /\ Len(q) + j \in DOMAIN (q \o r) /\ (q \o r)[Len(q) + j] = r[j]
        BY Concat
      <3>2. Len(q) + i < Len(q) + j
        BY Concat
      <3> QED
        BY <1>1, <3>1, <3>2 DEF Rises
    <2>3. Precedes(q, r, s)
      <3> SUFFICES ASSUME NEW i \in DOMAIN q, NEW j \in DOMAIN r, Of(q[i], s), Of(r[j], s)
                   PROVE  q[i].n < r[j].n
        BY DEF Precedes
      <3>1. /\ i \in DOMAIN (q \o r) /\ (q \o r)[i] = q[i]
            /\ Len(q) + j \in DOMAIN (q \o r) /\ (q \o r)[Len(q) + j] = r[j]
        BY Concat
      <3>2. i < Len(q) + j
        BY Concat
      <3> QED
        BY <1>1, <3>1, <3>2 DEF Rises
    <2> QED
      BY <2>1, <2>2, <2>3
  <1>2. ASSUME Rises(q, s), Rises(r, s), Precedes(q, r, s)
        PROVE  Rises(q \o r, s)
    <2> SUFFICES ASSUME NEW i \in DOMAIN (q \o r), NEW j \in DOMAIN (q \o r), i < j,
                        Of((q \o r)[i], s), Of((q \o r)[j], s)
                 PROVE  (q \o r)[i].n < (q \o r)[j].n
      BY DEF Rises
    <2>1. CASE j \in DOMAIN q /\ (q \o r)[j] = q[j]
      <3>1. i \in DOMAIN q /\ (q \o r)[i] = q[i]
        BY <2>1, Concat
      <3> QED
        BY <1>2, <2>1, <3>1 DEF Rises
    <2>2. ASSUME NEW l \in DOMAIN r, j = Len(q) + l, (q \o r)[j] = r[l]
          PROVE  (q \o r)[i].n < (q \o r)[j].n
      <3>1. CASE i \in DOMAIN q /\ (q \o r)[i] = q[i]
        BY <1>2, <2>2, <3>1 DEF Precedes
      <3>2. ASSUME NEW k \in DOMAIN r, i = Len(q) + k, (q \o r)[i] = r[k]
            PROVE  (q \o r)[i].n < (q \o r)[j].n
        <4>1. k < l
          BY <2>2, <3>2, Concat
        <4> QED
          BY <1>2, <2>2, <3>2, <4>1 DEF Rises
      <3> QED
        BY <3>1, <3>2, Concat
    <2> QED
      BY <2>1, <2>2, Concat
  <1> QED
    BY <1>1, <1>2

\* What holds of the parts of a concatenation holds of it, and the converse.
LEMMA PartsConcat ==
  ASSUME NEW S, NEW q \in Seq(S), NEW r \in Seq(S), NEW s
  PROVE  /\ \A n : UpTo(q \o r, s, n) <=> UpTo(q, s, n) /\ UpTo(r, s, n)
         /\ \A t : Precedes(q, t, s) /\ Precedes(r, t, s) => Precedes(q \o r, t, s)
  <1>1. ASSUME NEW n, UpTo(q \o r, s, n)
        PROVE  UpTo(q, s, n) /\ UpTo(r, s, n)
    <2>1. ASSUME NEW i \in DOMAIN q, Of(q[i], s)
          PROVE  q[i].n <= n
      <3>1. i \in DOMAIN (q \o r) /\ (q \o r)[i] = q[i]
        BY Concat
      <3> QED
        BY <1>1, <2>1, <3>1 DEF UpTo
    <2>2. ASSUME NEW i \in DOMAIN r, Of(r[i], s)
          PROVE  r[i].n <= n
      <3>1. Len(q) + i \in DOMAIN (q \o r) /\ (q \o r)[Len(q) + i] = r[i]
        BY Concat
      <3> QED
        BY <1>1, <2>2, <3>1 DEF UpTo
    <2> QED
      BY <2>1, <2>2 DEF UpTo
  <1>2. ASSUME NEW n, UpTo(q, s, n), UpTo(r, s, n)
        PROVE  UpTo(q \o r, s, n)
    <2> SUFFICES ASSUME NEW k \in DOMAIN (q \o r), Of((q \o r)[k], s)
                 PROVE  (q \o r)[k].n <= n
      BY DEF UpTo
    <2>1. CASE k \in DOMAIN q /\ (q \o r)[k] = q[k]
      BY <1>2, <2>1 DEF UpTo
    <2>2. ASSUME NEW l \in DOMAIN r, (q \o r)[k] = r[l]
          PROVE  (q \o r)[k].n <= n
      BY <1>2, <2>2 DEF UpTo
    <2> QED
      BY <2>1, <2>2, Concat
  <1>3. ASSUME NEW t, Precedes(q, t, s), Precedes(r, t, s)
        PROVE  Precedes(q \o r, t, s)
    <2> SUFFICES ASSUME NEW k \in DOMAIN (q \o r), NEW j \in DOMAIN t,
                        Of((q \o r)[k], s), Of(t[j], s)
                 PROVE  (q \o r)[k].n < t[j].n
      BY DEF Precedes
    <2>1. CASE k \in DOMAIN q /\ (q \o r)[k] = q[k]
      BY <1>3, <2>1 DEF Precedes
    <2>2. ASSUME NEW l \in DOMAIN r, (q \o r)[k] = r[l]
          PROVE  (q \o r)[k].n < t[j].n
      BY <1>3, <2>2 DEF Precedes
    <2> QED
      BY <2>1, <2>2, Concat
  <1> QED
    BY <1>1, <1>2, <1>3

\* What is not from s is in no order with what is.
LEMMA ForeignOrder ==
  ASSUME NEW q, NEW s, Foreign(q, s)
  PROVE  /\ Rises(q, s) /\ \A n : UpTo(q, s, n)
         /\ \A r : Precedes(q, r, s) /\ Precedes(r, q, s)
  BY DEF Foreign, Rises, UpTo, Precedes

\* Something of another subscription is put in between.
LEMMA Insert ==
  ASSUME NEW S, NEW q \in Seq(S), NEW r \in Seq(S), NEW f \in Seq(S), NEW s, NEW n,
         Sorted(q \o r, s, n), Foreign(f, s)
  PROVE  Sorted((q \o f) \o r, s, n)
  <1>1. Rises(q, s) /\ Rises(r, s) /\ Precedes(q, r, s) /\ UpTo(q, s, n) /\ UpTo(r, s, n)
    BY RisesConcat, PartsConcat DEF Sorted
  <1>2. Rises(f, s) /\ UpTo(f, s, n) /\ Precedes(f, r, s) /\ Precedes(q, f, s)
    BY ForeignOrder
  <1>3. q \o f \in Seq(S) /\ Rises(q \o f, s) /\ UpTo(q \o f, s, n)
    BY <1>1, <1>2, RisesConcat, PartsConcat, Concat
  <1>4. Precedes(q \o f, r, s)
    BY <1>1, <1>2, PartsConcat
  <1> QED
    BY <1>1, <1>3, <1>4, RisesConcat, PartsConcat DEF Sorted

\* A channel that is not empty: its first payload and the rest.
LEMMA HeadFirst ==
  ASSUME NEW S, NEW q \in Seq(S), q # <<>>
  PROVE  /\ q = <<Head(q)>> \o Tail(q) /\ Head(q) \in S /\ Tail(q) \in Seq(S)
         /\ <<Head(q)>> \in Seq(S) /\ Len(q) \in Nat /\ Len(Tail(q)) = Len(q) - 1
         /\ \A i \in DOMAIN Tail(q) : \E j \in DOMAIN q : Tail(q)[i] = q[j]
         /\ \E j \in DOMAIN q : Head(q) = q[j]
  <1>1. /\ Head(q) \in S /\ Tail(q) \in Seq(S) /\ Len(q) \in Nat \ {0}
        /\ Len(Tail(q)) = Len(q) - 1 /\ DOMAIN q = 1..Len(q) /\ Head(q) = q[1]
        /\ <<Head(q)>> \in Seq(S)
    OBVIOUS
  <1>2. \A i \in DOMAIN Tail(q) : i + 1 \in DOMAIN q /\ Tail(q)[i] = q[i + 1]
    BY <1>1
  <1>3. q = <<Head(q)>> \o Tail(q)
    OBVIOUS
  <1> QED
    BY <1>1, <1>2, <1>3

\* Concatenation is associative.
LEMMA Regroup ==
  ASSUME NEW S, NEW q \in Seq(S), NEW r \in Seq(S), NEW t \in Seq(S)
  PROVE  (q \o r) \o t = q \o (r \o t) /\ q \o <<>> = q /\ <<>> \o q = q
  OBVIOUS

\* The writer takes the oldest payload; NATS delivers a message that is later
\* than all before.
LEMMA Ends ==
  ASSUME NEW S, NEW q \in Seq(S), NEW s, NEW n \in Nat, Sorted(q, s, n),
         \A x \in S, t \in Channels : Of(x, t) => x.n \in Nat, s \in Channels
  PROVE  /\ \A x \in S, r \in Seq(S) : q = <<x>> \o r => Sorted(r, s, n)
         /\ \A m \in S : m.n = n + 1 => Sorted(q \o <<m>>, s, n + 1)
         /\ Sorted(q, s, n + 1)
  <1>1. ASSUME NEW x \in S, NEW r \in Seq(S), q = <<x>> \o r
        PROVE  Sorted(r, s, n)
    <2>1. <<x>> \in Seq(S)
      OBVIOUS
    <2> QED
      BY <1>1, <2>1, RisesConcat, PartsConcat DEF Sorted
  <1>2. DOMAIN q \subseteq Nat /\ \A i \in DOMAIN q : q[i] \in S
    OBVIOUS
  <1>3. Sorted(q, s, n + 1)
    BY <1>2 DEF Sorted, UpTo
  <1>4. ASSUME NEW m \in S, m.n = n + 1
        PROVE  Sorted(q \o <<m>>, s, n + 1)
    <2>1. <<m>> \in Seq(S) /\ DOMAIN <<m>> = {1} /\ <<m>>[1] = m
      OBVIOUS
    <2>2. Rises(<<m>>, s) /\ UpTo(<<m>>, s, n + 1)
      BY <1>4, <2>1 DEF Rises, UpTo
    <2>3. Precedes(q, <<m>>, s)
      <3> SUFFICES ASSUME NEW i \in DOMAIN q, Of(q[i], s)
                   PROVE  q[i].n < m.n
        BY <2>1 DEF Precedes
      <3>1. q[i].n <= n /\ q[i].n \in Nat
        BY <1>2 DEF Sorted, UpTo
      <3> QED
        BY <1>4, <3>1
    <2> QED
      BY <1>3, <2>1, <2>2, <2>3, RisesConcat, PartsConcat DEF Sorted
  <1> QED
    BY <1>1, <1>3, <1>4

-----------------------------------------------------------------------------
(* The order, for every step of the pipeline.                               *)

\* A channel holds messages of the subscriptions it belongs to only.
FromInv ==
  /\ \A s \in Channels : /\ \A i \in DOMAIN inCh[s] : inCh[s][i].from = s
                         /\ \A i \in DOMAIN holds[s] : holds[s][i].from = s
  /\ \A p \in Pipes : /\ \A i \in DOMAIN out[p] : PipeOf(out[p][i].from) = p
                      /\ \A i \in DOMAIN parsed[p] : PipeOf(parsed[p][i].from) = p

OrderInv == \A s \in Channels : Sorted(Ahead(s), s, pub[Owner(s)])

FlowInv == PipeTypeOK /\ FromInv /\ OrderInv

\* The channels between NATS and the writer, strung together.
Way(a, b, c, d, e) == a \o b \o c \o d \o e

\* The five channels of a subscription.
LEMMA Stages ==
  ASSUME PipeTypeOK, NEW s \in Channels
  PROVE  /\ Owner(s) \in Clients /\ PipeOf(s) \in Pipes /\ PipeOf(s)[1] = Owner(s)
         /\ msgCh[Owner(s)] \in Seq(Payloads) /\ parsed[PipeOf(s)] \in Seq(Payloads)
         /\ out[PipeOf(s)] \in Seq(Payloads) /\ holds[s] \in Seq(Payloads)
         /\ inCh[s] \in Seq(Payloads) /\ pub[Owner(s)] \in Nat
         /\ Ahead(s) = Way(msgCh[Owner(s)], parsed[PipeOf(s)], out[PipeOf(s)], holds[s], inCh[s])
         /\ Ahead(s) \in Seq(Payloads)
  <1>1. Owner(s) \in Clients /\ PipeOf(s) \in Pipes /\ PipeOf(s)[1] = Owner(s)
    BY DEF Channels, Pipes, PipeOf, Owner
  <1>2. \A q : q \in Seq(NatsMsg) => q \in Seq(Payloads)
    BY DEF Payloads
  <1>3. /\ parsed[PipeOf(s)] \in Seq(NatsMsg) /\ out[PipeOf(s)] \in Seq(NatsMsg)
        /\ holds[s] \in Seq(NatsMsg) /\ inCh[s] \in Seq(NatsMsg)
        /\ msgCh[Owner(s)] \in Seq(Payloads) /\ pub[Owner(s)] \in Nat
    BY <1>1, PipeAssumption DEF PipeTypeOK, Payloads
  <1>4. Ahead(s) = Way(msgCh[Owner(s)], parsed[PipeOf(s)], out[PipeOf(s)], holds[s], inCh[s])
    BY DEF Ahead, Way
  <1>5. Ahead(s) \in Seq(Payloads)
    BY <1>2, <1>3, <1>4, Concat DEF Way
  <1> QED
    BY <1>1, <1>2, <1>3, <1>4, <1>5

\* What is of a subscription has a number.
LEMMA PayloadNumbers == \A x \in Payloads, t \in Channels : Of(x, t) => x.n \in Nat
  BY PipeAssumption DEF Payloads, NatsMsg, Notice, Of

\* The writer takes from one end of the way, NATS adds to the other, and others
\* put payloads in behind the first channel or the third; a hand-over on the way
\* changes nothing of it.
WaySplits(a, b, c, d, e) ==
  /\ Way(a, b, c, d, e) \in Seq(Payloads) /\ b \o c \o d \o e \in Seq(Payloads)
  /\ a \o b \o c \in Seq(Payloads) /\ d \o e \in Seq(Payloads)
  /\ Way(a, b, c, d, e) = a \o (b \o c \o d \o e)
  /\ Way(a, b, c, d, e) = (a \o b \o c) \o (d \o e)

WayEnds(a, b, c, d, e) ==
  /\ \A m \in Payloads : Way(a, b, c, d, Append(e, m)) = Way(a, b, c, d, e) \o <<m>>
  /\ a # <<>> => Way(a, b, c, d, e) = <<Head(a)>> \o Way(Tail(a), b, c, d, e)

WayHandsOver(a, b, c, d, e) ==
  /\ d = <<>> /\ e # <<>> => Way(a, b, c, <<Head(e)>>, Tail(e)) = Way(a, b, c, d, e)
  /\ Way(a, b, c \o d, <<>>, e) = Way(a, b, c, d, e)
  /\ b = <<>> /\ c # <<>> => Way(a, <<Head(c)>>, Tail(c), d, e) = Way(a, b, c, d, e)
  /\ Way(a \o b, <<>>, c, d, e) = Way(a, b, c, d, e)

LEMMA Splits ==
  ASSUME NEW a \in Seq(Payloads), NEW b \in Seq(Payloads), NEW c \in Seq(Payloads),
         NEW d \in Seq(Payloads), NEW e \in Seq(Payloads)
  PROVE  WaySplits(a, b, c, d, e)
  <1> USE DEF Way
  <1>5. ASSUME NEW x \in Seq(Payloads), NEW y \in Seq(Payloads), NEW z \in Seq(Payloads)
        PROVE  (x \o y) \o z = x \o (y \o z)
    OBVIOUS
  <1>6. \A x, y \in Seq(Payloads) : x \o y \in Seq(Payloads)
    BY Concat
  <1>8. ASSUME NEW x \in Seq(Payloads)
        PROVE  Way(x, b, c, d, e) = x \o (b \o c \o d \o e)
    <2> DEFINE y == b \o c \o d
    <2>1. b \o c \in Seq(Payloads) /\ y \in Seq(Payloads)
      BY <1>6
    <2>2. x \o b \o c = x \o (b \o c)
      BY <1>5
    <2>3. (x \o (b \o c)) \o d = x \o y
      BY <1>5, <2>1, ZenonT(60)
    <2> HIDE DEF y
    <2>4. (x \o y) \o e = x \o (y \o e)
      BY <1>5, <2>1, ZenonT(60)
    <2> QED
      BY <2>2, <2>3, <2>4 DEF y
  <1>10. Way(a, b, c, d, e) = (a \o b \o c) \o (d \o e)
    <2> DEFINE x == a \o b \o c
    <2>1. x \in Seq(Payloads)
      BY <1>6
    <2> HIDE DEF x
    <2>2. (x \o d) \o e = x \o (d \o e)
      BY <1>5, <2>1
    <2> QED
      BY <2>2 DEF x
  <1>11. /\ Way(a, b, c, d, e) \in Seq(Payloads) /\ b \o c \o d \o e \in Seq(Payloads)
         /\ a \o b \o c \in Seq(Payloads) /\ d \o e \in Seq(Payloads)
    BY <1>6
  <1> HIDE DEF Way
  <1> QED
    BY <1>8, <1>10, <1>11 DEF WaySplits

LEMMA EndsOfWay ==
  ASSUME NEW a \in Seq(Payloads), NEW b \in Seq(Payloads), NEW c \in Seq(Payloads),
         NEW d \in Seq(Payloads), NEW e \in Seq(Payloads)
  PROVE  WayEnds(a, b, c, d, e)
  <1>5. ASSUME NEW x \in Seq(Payloads), NEW y \in Seq(Payloads), NEW z \in Seq(Payloads)
        PROVE  (x \o y) \o z = x \o (y \o z)
    OBVIOUS
  <1>6. \A x, y \in Seq(Payloads) : x \o y \in Seq(Payloads)
    BY Concat
  <1>7. ASSUME NEW m \in Payloads
        PROVE  Way(a, b, c, d, Append(e, m)) = Way(a, b, c, d, e) \o <<m>>
    <2> USE DEF Way
    <2> DEFINE x == a \o b \o c \o d
    <2>1. x \in Seq(Payloads)
      BY <1>6
    <2>2. <<m>> \in Seq(Payloads) /\ Append(e, m) = e \o <<m>>
      OBVIOUS
    <2> HIDE DEF x
    <2>3. (x \o e) \o <<m>> = x \o (e \o <<m>>)
      BY <1>5, <2>1, <2>2
    <2> QED
      BY <2>2, <2>3 DEF x
  <1>9. a # <<>> => Way(a, b, c, d, e) = <<Head(a)>> \o Way(Tail(a), b, c, d, e)
    <2> SUFFICES ASSUME a # <<>>
                 PROVE  Way(a, b, c, d, e) = <<Head(a)>> \o Way(Tail(a), b, c, d, e)
      OBVIOUS
    <2>1. a = <<Head(a)>> \o Tail(a) /\ <<Head(a)>> \in Seq(Payloads) /\ Tail(a) \in Seq(Payloads)
      BY HeadFirst
    <2>2. WaySplits(a, b, c, d, e) /\ WaySplits(Tail(a), b, c, d, e)
      BY Splits, <2>1
    <2>3. /\ Way(a, b, c, d, e) = (<<Head(a)>> \o Tail(a)) \o (b \o c \o d \o e)
          /\ Way(Tail(a), b, c, d, e) = Tail(a) \o (b \o c \o d \o e)
      BY <2>1, <2>2 DEF WaySplits
    <2> DEFINE y == b \o c \o d \o e
    <2>4. y \in Seq(Payloads)
      BY <1>6
    <2> HIDE DEF y
    <2>5. (<<Head(a)>> \o Tail(a)) \o y = <<Head(a)>> \o (Tail(a) \o y)
      BY <1>5, <2>1, <2>4
    <2> QED
      BY <2>3, <2>5 DEF y
  <1> QED
    BY <1>7, <1>9 DEF WayEnds

LEMMA HandsOver ==
  ASSUME NEW a \in Seq(Payloads), NEW b \in Seq(Payloads), NEW c \in Seq(Payloads),
         NEW d \in Seq(Payloads), NEW e \in Seq(Payloads)
  PROVE  WayHandsOver(a, b, c, d, e)
  <1> USE DEF Way
  <1>1. d = <<>> /\ e # <<>> => Way(a, b, c, <<Head(e)>>, Tail(e)) = Way(a, b, c, d, e)
    <2> SUFFICES ASSUME d = <<>>, e # <<>>
                 PROVE  Way(a, b, c, <<Head(e)>>, Tail(e)) = Way(a, b, c, d, e)
      OBVIOUS
    <2>1. e = <<Head(e)>> \o Tail(e) /\ <<Head(e)>> \in Seq(Payloads) /\ Tail(e) \in Seq(Payloads)
      BY HeadFirst
    <2>2. a \o b \o c \in Seq(Payloads)
      BY Concat
    <2> QED
      BY <2>1, <2>2, Regroup, SMTT(30)
  <1>2. Way(a, b, c \o d, <<>>, e) = Way(a, b, c, d, e)
    <2>1. a \o b \in Seq(Payloads) /\ c \o d \in Seq(Payloads)
      BY Concat
    <2>2. (a \o b) \o (c \o d) \in Seq(Payloads)
      BY <2>1, Concat
    <2> QED
      BY <2>1, <2>2, Regroup, SMTT(30)
  <1>3. b = <<>> /\ c # <<>> => Way(a, <<Head(c)>>, Tail(c), d, e) = Way(a, b, c, d, e)
    <2> SUFFICES ASSUME b = <<>>, c # <<>>
                 PROVE  (a \o <<Head(c)>>) \o Tail(c) = (a \o b) \o c
      OBVIOUS
    <2>1. c = <<Head(c)>> \o Tail(c) /\ <<Head(c)>> \in Seq(Payloads) /\ Tail(c) \in Seq(Payloads)
      BY HeadFirst
    <2> QED
      BY <2>1, Regroup
  <1>4. Way(a \o b, <<>>, c, d, e) = Way(a, b, c, d, e)
    <2>1. a \o b \in Seq(Payloads)
      BY Concat
    <2> QED
      BY <2>1, Regroup
  <1> HIDE DEF Way
  <1> QED
    BY <1>1, <1>2, <1>3, <1>4 DEF WayHandsOver

\* The hub never opens a channel again that it has closed.
LEMMA ClosedGrows ==
  ASSUME [Next]_vars
  PROVE  closed \subseteq closed'
  BY DEF vars, socketVars, connVars, unsubVars, natsVars, metricVars, Next, Socket, Serve, Refuse,
     Register, RegisterFails, Cancel, ReadRequest, ReadFails, TakeRequest, RejectRequest, TakeDone,
     PurgeSubscriptions, PurgeConnection, Unsubscribe, CloseChannel, Purged, Unregister, Subscribe,
     StartFanIn, EnableMetrics, DisableMetrics, SubscribeFails, RelayEnds

\* The goroutines around the pipeline, in a step that hands nothing over.
AroundOK ==
  /\ writer \in [Clients -> {"off", "on", "ended"}]
  /\ events \in [Clients -> {"off", "start", "receive", "send", "ended", "orphaned"}]
  /\ finished \subseteq closed
  /\ written \in [Clients -> SUBSET (1..MaxPub)]

LEMMA NothingMoves ==
  ASSUME FlowInv, AroundOK', UNCHANGED <<pub, inCh, holds, out, parsed, msgCh>>
  PROVE  FlowInv'
  <1>1. PipeTypeOK'
    BY DEF FlowInv, PipeTypeOK, AroundOK
  <1>2. FromInv'
    BY DEF FlowInv, FromInv
  <1>3. \A s \in Channels : Ahead(s)' = Ahead(s) /\ pub'[Owner(s)] = pub[Owner(s)]
    BY DEF Ahead
  <1> QED
    BY <1>1, <1>2, <1>3 DEF FlowInv, OrderInv

\* Lengths at the two ends of a channel.
LEMMA EndLengths ==
  ASSUME NEW S, NEW q \in Seq(S)
  PROVE  /\ Len(q) \in Nat
         /\ \A m \in S : Append(q, m) = q \o <<m>> /\ Append(q, m) \in Seq(S)
                         /\ Len(Append(q, m)) = Len(q) + 1 /\ <<m>> \in Seq(S)
         /\ q # <<>> => Tail(q) \in Seq(S) /\ Len(Tail(q)) = Len(q) - 1 /\ Head(q) \in S
  OBVIOUS

\* A status, error or metrics payload is queued behind the messages, and is in
\* no order with them.
LEMMA NoticeQueued ==
  ASSUME FlowInv, NEW c \in Clients, AroundOK', UNCHANGED <<pub, inCh, holds, out, parsed>>,
         \/ msgCh' = msgCh
         \/ Len(msgCh[c]) < MsgCap /\ msgCh' = [msgCh EXCEPT ![c] = Append(@, Notice)]
  PROVE  FlowInv'
  <1>1. CASE msgCh' = msgCh
    BY <1>1, NothingMoves
  <1>2. CASE Len(msgCh[c]) < MsgCap /\ msgCh' = [msgCh EXCEPT ![c] = Append(@, Notice)]
    <2>1. /\ msgCh \in [Clients -> Seq(Payloads)]
          /\ Notice \in Payloads /\ <<Notice>> \in Seq(Payloads)
      BY DEF FlowInv, PipeTypeOK, Payloads
    <2>2. /\ Append(msgCh[c], Notice) = msgCh[c] \o <<Notice>>
          /\ Append(msgCh[c], Notice) \in Seq(Payloads)
          /\ Len(msgCh[c]) \in Nat /\ Len(Append(msgCh[c], Notice)) = Len(msgCh[c]) + 1
      BY <2>1, EndLengths
    <2>3. /\ msgCh' \in [Clients -> Seq(Payloads)]
          /\ \A d \in Clients : Len(msgCh'[d]) <= MsgCap
      <3>1. Len(msgCh[c]) + 1 <= MsgCap
        BY <1>2, <2>2, PipeAssumption
      <3> QED
        BY <1>2, <2>1, <2>2, <3>1 DEF FlowInv, PipeTypeOK
    <2>4. PipeTypeOK'
      BY <2>3 DEF FlowInv, PipeTypeOK, AroundOK, Payloads
    <2>5. FromInv'
      BY DEF FlowInv, FromInv
    <2>6. ASSUME NEW s \in Channels
          PROVE  Sorted(Ahead(s)', s, pub'[Owner(s)])
      <3>1. CASE Owner(s) # c
        <4>1. msgCh'[Owner(s)] = msgCh[Owner(s)]
          BY <1>2, <2>1, <3>1, Stages DEF FlowInv
        <4>2. Ahead(s)' = Ahead(s)
          BY <4>1 DEF Ahead
        <4> QED
          BY <4>2 DEF FlowInv, OrderInv
      <3>2. CASE Owner(s) = c
        <4> DEFINE b == parsed[PipeOf(s)]
                   p == out[PipeOf(s)]
                   d == holds[s]
                   e == inCh[s]
                   q == msgCh[c]
                   r == b \o p \o d \o e
        <4>1. /\ b \in Seq(Payloads) /\ p \in Seq(Payloads) /\ d \in Seq(Payloads)
              /\ e \in Seq(Payloads) /\ q \in Seq(Payloads)
              /\ Ahead(s) = Way(q, b, p, d, e)
          BY <3>2, Stages DEF FlowInv
        <4>2. Ahead(s)' = Way(q \o <<Notice>>, b, p, d, e)
          BY <1>2, <2>1, <2>2, <3>2 DEF Ahead, Way
        <4>3. Foreign(<<Notice>>, s)
          BY DEF Foreign, Of, Notice
        <4>4. Sorted(Ahead(s), s, pub[Owner(s)])
          BY DEF FlowInv, OrderInv
        <4> HIDE DEF b, p, d, e, q
        <4>5. q \o <<Notice>> \in Seq(Payloads)
          BY <2>2 DEF q
        <4>6. WaySplits(q, b, p, d, e) /\ WaySplits(q \o <<Notice>>, b, p, d, e)
          BY <4>1, <4>5, Splits
        <4>7. /\ r \in Seq(Payloads) /\ Way(q, b, p, d, e) = q \o r
              /\ Way(q \o <<Notice>>, b, p, d, e) = (q \o <<Notice>>) \o r
          BY <4>6 DEF WaySplits
        <4> HIDE DEF r
        <4>8. Sorted((q \o <<Notice>>) \o r, s, pub[Owner(s)])
          BY <2>1, <4>1, <4>3, <4>4, <4>7, Insert
        <4> QED
          BY <4>2, <4>7, <4>8
      <3> QED
        BY <3>1, <3>2
    <2> QED
      BY <2>4, <2>5, <2>6 DEF FlowInv, OrderInv
  <1> QED
    BY <1>1, <1>2

\* The writer takes the oldest payload.
LEMMA PayloadTaken ==
  ASSUME FlowInv, NEW c \in Clients, AroundOK', UNCHANGED <<pub, inCh, holds, out, parsed>>,
         msgCh[c] # <<>>, msgCh' = [msgCh EXCEPT ![c] = Tail(@)]
  PROVE  FlowInv'
  <1>1. msgCh \in [Clients -> Seq(Payloads)]
    BY DEF FlowInv, PipeTypeOK, Payloads
  <1>2. /\ Tail(msgCh[c]) \in Seq(Payloads) /\ Head(msgCh[c]) \in Payloads
        /\ Len(msgCh[c]) \in Nat /\ Len(Tail(msgCh[c])) = Len(msgCh[c]) - 1
    BY <1>1, EndLengths
  <1>3. msgCh' \in [Clients -> Seq(Payloads)] /\ \A d \in Clients : Len(msgCh'[d]) <= MsgCap
    <2>1. Len(Tail(msgCh[c])) <= MsgCap
      BY <1>2, PipeAssumption DEF FlowInv, PipeTypeOK
    <2> QED
      BY <1>1, <1>2, <2>1 DEF FlowInv, PipeTypeOK
  <1>4. PipeTypeOK'
    BY <1>3 DEF FlowInv, PipeTypeOK, AroundOK, Payloads
  <1>5. FromInv'
    BY DEF FlowInv, FromInv
  <1>6. ASSUME NEW s \in Channels
        PROVE  Sorted(Ahead(s)', s, pub'[Owner(s)])
    <2>1. CASE Owner(s) # c
      <3>1. msgCh'[Owner(s)] = msgCh[Owner(s)]
        BY <1>1, <2>1, Stages DEF FlowInv
      <3>2. Ahead(s)' = Ahead(s)
        BY <3>1 DEF Ahead
      <3> QED
        BY <3>2 DEF FlowInv, OrderInv
    <2>2. CASE Owner(s) = c
      <3> DEFINE b == parsed[PipeOf(s)]
                 p == out[PipeOf(s)]
                 d == holds[s]
                 e == inCh[s]
                 q == msgCh[c]
      <3>1. /\ b \in Seq(Payloads) /\ p \in Seq(Payloads) /\ d \in Seq(Payloads)
            /\ e \in Seq(Payloads) /\ q \in Seq(Payloads) /\ q # <<>>
            /\ Ahead(s) = Way(q, b, p, d, e) /\ Ahead(s) \in Seq(Payloads)
            /\ pub[Owner(s)] \in Nat
        BY <2>2, Stages DEF FlowInv
      <3>2. Ahead(s)' = Way(Tail(q), b, p, d, e)
        BY <1>1, <2>2 DEF Ahead, Way
      <3>3. Sorted(Ahead(s), s, pub[Owner(s)])
        BY DEF FlowInv, OrderInv
      <3>4. Tail(q) \in Seq(Payloads) /\ Head(q) \in Payloads
        BY <1>2
      <3> HIDE DEF b, p, d, e, q
      <3>5. WayEnds(q, b, p, d, e) /\ WaySplits(Tail(q), b, p, d, e)
        BY <3>1, <3>4, EndsOfWay, Splits
      <3>6. Ahead(s) = <<Head(q)>> \o Ahead(s)' /\ Ahead(s)' \in Seq(Payloads)
        BY <3>1, <3>2, <3>5 DEF WayEnds, WaySplits
      <3>7. Sorted(Ahead(s)', s, pub[Owner(s)])
        BY <3>1, <3>3, <3>4, <3>6, Ends, PayloadNumbers
      <3> QED
        BY <3>7
    <2> QED
      BY <2>1, <2>2
  <1> QED
    BY <1>4, <1>5, <1>6 DEF FlowInv, OrderInv

\* A forwarder receives from the channel of its subscription.
LEMMA ForwardReceiveFlows ==
  ASSUME FlowInv, AroundOK', NEW t \in Channels, ForwardReceive(t)
  PROVE  FlowInv'
  <1> DEFINE e0 == inCh[t]
  <1>1. /\ holds[t] = <<>> /\ e0 # <<>> /\ UNCHANGED <<pub, out, parsed, msgCh>>
        /\ holds' = [holds EXCEPT ![t] = <<Head(e0)>>] /\ inCh' = [inCh EXCEPT ![t] = Tail(e0)]
    BY DEF ForwardReceive, sinkVars
  <1>2. /\ inCh \in [Channels -> Seq(NatsMsg)] /\ holds \in [Channels -> Seq(NatsMsg)]
        /\ e0 \in Seq(NatsMsg)
    BY DEF FlowInv, PipeTypeOK
  <1> HIDE DEF e0
  <1>3. /\ Tail(e0) \in Seq(NatsMsg) /\ Head(e0) \in NatsMsg /\ <<Head(e0)>> \in Seq(NatsMsg)
        /\ Len(e0) \in Nat /\ Len(Tail(e0)) = Len(e0) - 1 /\ Len(<<Head(e0)>>) = 1
        /\ DOMAIN <<Head(e0)>> = {1} /\ <<Head(e0)>>[1] = Head(e0)
        /\ \A i \in DOMAIN Tail(e0) : \E j \in DOMAIN e0 : Tail(e0)[i] = e0[j]
        /\ \E j \in DOMAIN e0 : Head(e0) = e0[j]
    BY <1>1, <1>2, HeadFirst
  <1>4. PipeTypeOK'
    <2>1. /\ inCh' \in [Channels -> Seq(NatsMsg)] /\ holds' \in [Channels -> Seq(NatsMsg)]
      BY <1>1, <1>2, <1>3
    <2>2. \A s \in Channels : Len(inCh'[s]) <= SubCap
      <3>1. Len(e0) <= SubCap
        BY DEF FlowInv, PipeTypeOK, e0
      <3>2. Len(Tail(e0)) <= SubCap
        BY <1>3, <3>1, PipeAssumption
      <3> QED
        BY <1>1, <1>2, <3>2 DEF FlowInv, PipeTypeOK
    <2>3. \A s \in Channels : Len(holds'[s]) <= 1
      BY <1>1, <1>2, <1>3 DEF FlowInv, PipeTypeOK
    <2> QED
      BY <1>1, <2>1, <2>2, <2>3 DEF FlowInv, PipeTypeOK, AroundOK
  <1>5. FromInv'
    <2>1. \A i \in DOMAIN e0 : e0[i].from = t
      BY DEF FlowInv, FromInv, e0
    <2>2. ASSUME NEW s \in Channels
          PROVE  /\ \A i \in DOMAIN inCh'[s] : inCh'[s][i].from = s
                 /\ \A i \in DOMAIN holds'[s] : holds'[s][i].from = s
      <3>1. CASE s = t
        BY <1>1, <1>2, <1>3, <2>1, <3>1
      <3>2. CASE s # t
        BY <1>1, <1>2, <3>2 DEF FlowInv, FromInv
      <3> QED
        BY <3>1, <3>2
    <2> QED
      BY <1>1, <2>2 DEF FlowInv, FromInv
  <1>6. ASSUME NEW s \in Channels
        PROVE  Ahead(s)' = Ahead(s)
    <2>1. CASE s # t
      BY <1>1, <1>2, <2>1 DEF Ahead
    <2>2. CASE s = t
      <3>1. Ahead(s) = Way(msgCh[Owner(s)], parsed[PipeOf(s)], out[PipeOf(s)], <<>>, e0)
        BY <1>1, <2>2 DEF Ahead, Way, e0
      <3>2. Ahead(s)' = Way(msgCh[Owner(s)], parsed[PipeOf(s)], out[PipeOf(s)], <<Head(e0)>>,
                            Tail(e0))
        BY <1>1, <1>2, <2>2 DEF Ahead, Way
      <3>3. WayHandsOver(msgCh[Owner(s)], parsed[PipeOf(s)], out[PipeOf(s)], <<>>, e0)
        BY <1>1, <2>2, Stages, HandsOver DEF FlowInv, e0
      <3> QED
        BY <1>1, <3>1, <3>2, <3>3 DEF WayHandsOver
    <2> QED
      BY <2>1, <2>2
  <1> QED
    BY <1>1, <1>4, <1>5, <1>6 DEF FlowInv, OrderInv

\* It sends into the fan-in's channel, between other subscriptions' messages.
LEMMA ForwardSendFlows ==
  ASSUME FlowInv, AroundOK', NEW t \in Channels, ForwardSend(t)
  PROVE  FlowInv'
  <1> DEFINE p == PipeOf(t)
             h == holds[t]
             q == out[p]
  <1>1. /\ h # <<>> /\ Len(q) < OutCap /\ UNCHANGED <<pub, inCh, parsed, msgCh>>
        /\ out' = [out EXCEPT ![p] = q \o h] /\ holds' = [holds EXCEPT ![t] = <<>>]
    BY DEF ForwardSend, sinkVars
  <1>2. /\ out \in [Pipes -> Seq(NatsMsg)] /\ holds \in [Channels -> Seq(NatsMsg)]
        /\ q \in Seq(NatsMsg) /\ h \in Seq(NatsMsg) /\ p \in Pipes
        /\ q \in Seq(Payloads) /\ h \in Seq(Payloads) /\ Len(h) <= 1
    BY Stages DEF FlowInv, PipeTypeOK
  <1>3. /\ q \o h \in Seq(NatsMsg) /\ Len(q \o h) = Len(q) + Len(h) /\ Len(q) \in Nat
        /\ Len(h) \in Nat
    BY <1>2, Concat
  <1>4. \A i \in DOMAIN h : h[i].from = t
    BY DEF FlowInv, FromInv
  <1>5. PipeTypeOK'
    <2>1. /\ out' \in [Pipes -> Seq(NatsMsg)] /\ holds' \in [Channels -> Seq(NatsMsg)]
      BY <1>1, <1>2, <1>3
    <2>2. \A r \in Pipes : Len(out'[r]) <= OutCap
      <3>1. Len(q \o h) <= OutCap
        BY <1>1, <1>2, <1>3, PipeAssumption
      <3> QED
        BY <1>1, <1>2, <3>1 DEF FlowInv, PipeTypeOK
    <2>3. \A s \in Channels : Len(holds'[s]) <= 1
      BY <1>1, <1>2 DEF FlowInv, PipeTypeOK
    <2> QED
      BY <1>1, <2>1, <2>2, <2>3 DEF FlowInv, PipeTypeOK, AroundOK
  <1>6. FromInv'
    <2>1. \A i \in DOMAIN (q \o h) : PipeOf((q \o h)[i].from) = p
      <3> SUFFICES ASSUME NEW i \in DOMAIN (q \o h)
                   PROVE  PipeOf((q \o h)[i].from) = p
        OBVIOUS
      <3>1. CASE i \in DOMAIN q /\ (q \o h)[i] = q[i]
        BY <1>2, <3>1 DEF FlowInv, FromInv
      <3>2. ASSUME NEW j \in DOMAIN h, (q \o h)[i] = h[j]
            PROVE  PipeOf((q \o h)[i].from) = p
        BY <1>4, <3>2
      <3> HIDE DEF q, h, p
      <3> QED
        BY <1>2, <3>1, <3>2, Concat
    <2>2. \A r \in Pipes : \A i \in DOMAIN out'[r] : PipeOf(out'[r][i].from) = r
      BY <1>1, <1>2, <2>1 DEF FlowInv, FromInv
    <2>3. \A s \in Channels : \A i \in DOMAIN holds'[s] : holds'[s][i].from = s
      BY <1>1, <1>2 DEF FlowInv, FromInv
    <2> QED
      BY <1>1, <2>2, <2>3 DEF FlowInv, FromInv
  <1>7. ASSUME NEW s \in Channels
        PROVE  Sorted(Ahead(s)', s, pub'[Owner(s)])
    <2> DEFINE a == msgCh[Owner(s)]
               b == parsed[PipeOf(s)]
               d == holds[s]
               e == inCh[s]
    <2>1. /\ a \in Seq(Payloads) /\ b \in Seq(Payloads) /\ d \in Seq(Payloads)
          /\ e \in Seq(Payloads) /\ Ahead(s) = Way(a, b, out[PipeOf(s)], d, e)
      BY Stages DEF FlowInv
    <2>2. Sorted(Ahead(s), s, pub[Owner(s)]) /\ pub' = pub
      BY <1>1 DEF FlowInv, OrderInv
    <2>3. CASE PipeOf(s) # p
      <3>1. s # t
        BY <2>3
      <3>2. PipeOf(s) \in Pipes
        BY Stages DEF FlowInv
      <3>3. Ahead(s)' = Ahead(s)
        BY <1>1, <1>2, <2>3, <3>1, <3>2 DEF Ahead
      <3> QED
        BY <2>2, <3>3
    <2>4. CASE s = t
      <3>1. Ahead(s)' = Way(a, b, q \o h, <<>>, e) /\ d = h /\ out[PipeOf(s)] = q
        BY <1>1, <1>2, <2>4 DEF Ahead, Way
      <3> HIDE DEF a, b, q, h, d, e, p
      <3>2. WayHandsOver(a, b, q, h, e)
        BY <1>2, <2>1, HandsOver
      <3>3. Ahead(s)' = Ahead(s)
        BY <2>1, <3>1, <3>2 DEF WayHandsOver
      <3> QED
        BY <2>2, <3>3
    <2>5. CASE PipeOf(s) = p /\ s # t
      <3>1. Ahead(s)' = Way(a, b, q \o h, d, e) /\ out[PipeOf(s)] = q
        BY <1>1, <1>2, <2>5 DEF Ahead, Way
      <3>2. Foreign(h, s)
        BY <1>4, <2>5 DEF Foreign, Of
      <3> HIDE DEF a, b, q, h, d, e, p
      <3>3. q \o h \in Seq(Payloads)
        BY <1>2, Concat
      <3>4. WaySplits(a, b, q, d, e) /\ WaySplits(a, b, q \o h, d, e)
        BY <1>2, <2>1, <3>3, Splits
      <3> DEFINE x == a \o b \o q
                 y == d \o e
      <3>5. x \in Seq(Payloads) /\ y \in Seq(Payloads) /\ Ahead(s) = x \o y
        BY <2>1, <3>1, <3>4 DEF WaySplits
      <3>6. Ahead(s)' = (a \o b \o (q \o h)) \o y
        BY <3>1, <3>4 DEF WaySplits
      <3>7. a \o b \in Seq(Payloads)
        BY <2>1, Concat
      <3>8. a \o b \o (q \o h) = x \o h
        <4> DEFINE z == a \o b
        <4>1. z \in Seq(Payloads) /\ q \in Seq(Payloads) /\ h \in Seq(Payloads)
          BY <1>2, <3>7
        <4> HIDE DEF z
        <4>2. z \o (q \o h) = (z \o q) \o h
          BY <4>1
        <4> QED
          BY <4>2 DEF z
      <3> HIDE DEF x, y
      <3>9. Sorted((x \o h) \o y, s, pub[Owner(s)])
        BY <1>2, <2>2, <3>2, <3>5, Insert
      <3> QED
        BY <2>2, <3>6, <3>8, <3>9
    <2> QED
      BY <2>3, <2>4, <2>5
  <1> QED
    BY <1>5, <1>6, <1>7 DEF FlowInv, OrderInv

\* The parser receives what is first in the fan-in's channel.
LEMMA ParserReceiveFlows ==
  ASSUME FlowInv, AroundOK', NEW p \in Pipes, ParserReceive(p)
  PROVE  FlowInv'
  <1> DEFINE q == out[p]
  <1>1. /\ parsed[p] = <<>> /\ q # <<>> /\ UNCHANGED <<pub, inCh, holds, msgCh>>
        /\ parsed' = [parsed EXCEPT ![p] = <<Head(q)>>] /\ out' = [out EXCEPT ![p] = Tail(q)]
    BY DEF ParserReceive, sinkVars
  <1>2. /\ out \in [Pipes -> Seq(NatsMsg)] /\ parsed \in [Pipes -> Seq(NatsMsg)]
        /\ q \in Seq(NatsMsg)
    BY DEF FlowInv, PipeTypeOK
  <1> HIDE DEF q
  <1>3. /\ Tail(q) \in Seq(NatsMsg) /\ Head(q) \in NatsMsg /\ <<Head(q)>> \in Seq(NatsMsg)
        /\ Len(q) \in Nat /\ Len(Tail(q)) = Len(q) - 1 /\ Len(<<Head(q)>>) = 1
        /\ DOMAIN <<Head(q)>> = {1} /\ <<Head(q)>>[1] = Head(q)
        /\ \A i \in DOMAIN Tail(q) : \E j \in DOMAIN q : Tail(q)[i] = q[j]
        /\ \E j \in DOMAIN q : Head(q) = q[j]
    BY <1>1, <1>2, HeadFirst
  <1>4. PipeTypeOK'
    <2>1. /\ out' \in [Pipes -> Seq(NatsMsg)] /\ parsed' \in [Pipes -> Seq(NatsMsg)]
      BY <1>1, <1>2, <1>3
    <2>2. \A r \in Pipes : Len(out'[r]) <= OutCap
      <3>1. Len(q) <= OutCap
        BY DEF FlowInv, PipeTypeOK, q
      <3>2. Len(Tail(q)) <= OutCap
        BY <1>3, <3>1, PipeAssumption
      <3> QED
        BY <1>1, <1>2, <3>2 DEF FlowInv, PipeTypeOK
    <2>3. \A r \in Pipes : Len(parsed'[r]) <= 1
      BY <1>1, <1>2, <1>3 DEF FlowInv, PipeTypeOK
    <2> QED
      BY <1>1, <2>1, <2>2, <2>3 DEF FlowInv, PipeTypeOK, AroundOK
  <1>5. FromInv'
    <2>1. \A i \in DOMAIN q : PipeOf(q[i].from) = p
      BY DEF FlowInv, FromInv, q
    <2>2. ASSUME NEW r \in Pipes
          PROVE  /\ \A i \in DOMAIN out'[r] : PipeOf(out'[r][i].from) = r
                 /\ \A i \in DOMAIN parsed'[r] : PipeOf(parsed'[r][i].from) = r
      <3>1. CASE r = p
        BY <1>1, <1>2, <1>3, <2>1, <3>1
      <3>2. CASE r # p
        BY <1>1, <1>2, <3>2 DEF FlowInv, FromInv
      <3> QED
        BY <3>1, <3>2
    <2> QED
      BY <1>1, <2>2 DEF FlowInv, FromInv
  <1>6. ASSUME NEW s \in Channels
        PROVE  Ahead(s)' = Ahead(s)
    <2>1. PipeOf(s) \in Pipes
      BY Stages DEF FlowInv
    <2>2. CASE PipeOf(s) # p
      BY <1>1, <1>2, <2>1, <2>2 DEF Ahead
    <2>3. CASE PipeOf(s) = p
      <3>1. Ahead(s) = Way(msgCh[Owner(s)], <<>>, q, holds[s], inCh[s])
        BY <1>1, <2>3 DEF Ahead, Way, q
      <3>2. Ahead(s)' = Way(msgCh[Owner(s)], <<Head(q)>>, Tail(q), holds[s], inCh[s])
        BY <1>1, <1>2, <2>1, <2>3 DEF Ahead, Way
      <3>3. WayHandsOver(msgCh[Owner(s)], <<>>, q, holds[s], inCh[s])
        BY <1>1, <2>3, Stages, HandsOver DEF FlowInv, q
      <3> QED
        BY <1>1, <3>1, <3>2, <3>3 DEF WayHandsOver
    <2> QED
      BY <2>2, <2>3
  <1> QED
    BY <1>1, <1>4, <1>5, <1>6 DEF FlowInv, OrderInv

\* It sends into the channel of the writer, which the parsers of the client's
\* other requests share.
LEMMA ParserSendFlows ==
  ASSUME FlowInv, AroundOK', NEW p \in Pipes, ParserSend(p)
  PROVE  FlowInv'
  <1> DEFINE c == p[1]
             h == parsed[p]
             q == msgCh[c]
  <1>1. /\ h # <<>> /\ Len(q) < MsgCap /\ UNCHANGED <<pub, inCh, holds, out>>
        /\ msgCh' = [msgCh EXCEPT ![c] = q \o h] /\ parsed' = [parsed EXCEPT ![p] = <<>>]
    BY DEF ParserSend
  <1>2. /\ msgCh \in [Clients -> Seq(Payloads)] /\ parsed \in [Pipes -> Seq(NatsMsg)]
        /\ c \in Clients /\ h \in Seq(NatsMsg) /\ Len(h) <= 1
    BY DEF FlowInv, PipeTypeOK, Pipes, Payloads
  <1>3. q \in Seq(Payloads) /\ h \in Seq(Payloads)
    BY <1>2 DEF Payloads
  <1>4. /\ q \o h \in Seq(Payloads) /\ Len(q \o h) = Len(q) + Len(h) /\ Len(q) \in Nat
        /\ Len(h) \in Nat
    BY <1>3, Concat
  <1>5. \A i \in DOMAIN h : PipeOf(h[i].from) = p
    BY DEF FlowInv, FromInv
  <1>6. PipeTypeOK'
    <2>1. /\ msgCh' \in [Clients -> Seq(Payloads)] /\ parsed' \in [Pipes -> Seq(NatsMsg)]
      BY <1>1, <1>2, <1>4
    <2>2. \A d \in Clients : Len(msgCh'[d]) <= MsgCap
      <3>1. Len(q \o h) <= MsgCap
        BY <1>1, <1>2, <1>4, PipeAssumption
      <3> QED
        BY <1>1, <1>2, <3>1 DEF FlowInv, PipeTypeOK
    <2>3. \A r \in Pipes : Len(parsed'[r]) <= 1
      BY <1>1, <1>2 DEF FlowInv, PipeTypeOK
    <2> QED
      BY <1>1, <2>1, <2>2, <2>3 DEF FlowInv, PipeTypeOK, AroundOK, Payloads
  <1>7. FromInv'
    <2>1. \A r \in Pipes : \A i \in DOMAIN parsed'[r] : PipeOf(parsed'[r][i].from) = r
      BY <1>1, <1>2 DEF FlowInv, FromInv
    <2> QED
      BY <1>1, <2>1 DEF FlowInv, FromInv
  <1>8. ASSUME NEW s \in Channels
        PROVE  Sorted(Ahead(s)', s, pub'[Owner(s)])
    <2> DEFINE b == parsed[PipeOf(s)]
               o == out[PipeOf(s)]
               d == holds[s]
               e == inCh[s]
    <2>1. /\ b \in Seq(Payloads) /\ o \in Seq(Payloads) /\ d \in Seq(Payloads)
          /\ e \in Seq(Payloads) /\ Ahead(s) = Way(msgCh[Owner(s)], b, o, d, e)
          /\ Owner(s) \in Clients /\ PipeOf(s) \in Pipes /\ PipeOf(s)[1] = Owner(s)
      BY Stages DEF FlowInv
    <2>2. Sorted(Ahead(s), s, pub[Owner(s)]) /\ pub' = pub
      BY <1>1 DEF FlowInv, OrderInv
    <2>3. CASE Owner(s) # c
      <3>1. PipeOf(s) # p
        BY <2>1, <2>3
      <3>2. Ahead(s)' = Ahead(s)
        BY <1>1, <1>2, <2>1, <2>3, <3>1 DEF Ahead
      <3> QED
        BY <2>2, <3>2
    <2>4. CASE PipeOf(s) = p
      <3>1. Ahead(s)' = Way(q \o h, <<>>, o, d, e) /\ msgCh[Owner(s)] = q /\ b = h
        BY <1>1, <1>2, <2>1, <2>4 DEF Ahead, Way
      <3> HIDE DEF b, o, q, h, d, e, c
      <3>2. WayHandsOver(q, h, o, d, e)
        BY <1>3, <2>1, HandsOver
      <3>3. Ahead(s)' = Ahead(s)
        BY <2>1, <3>1, <3>2 DEF WayHandsOver
      <3> QED
        BY <2>2, <3>3
    <2>5. CASE Owner(s) = c /\ PipeOf(s) # p
      <3>1. Ahead(s)' = Way(q \o h, b, o, d, e) /\ msgCh[Owner(s)] = q
        BY <1>1, <1>2, <2>1, <2>5 DEF Ahead, Way
      <3>2. Foreign(h, s)
        BY <1>5, <2>5 DEF Foreign, Of
      <3> HIDE DEF b, o, q, h, d, e, c
      <3>3. WaySplits(q, b, o, d, e) /\ WaySplits(q \o h, b, o, d, e)
        BY <1>3, <1>4, <2>1, Splits
      <3> DEFINE y == b \o o \o d \o e
      <3>4. y \in Seq(Payloads) /\ Ahead(s) = q \o y /\ Ahead(s)' = (q \o h) \o y
        BY <2>1, <3>1, <3>3 DEF WaySplits
      <3> HIDE DEF y
      <3>5. Sorted((q \o h) \o y, s, pub[Owner(s)])
        BY <1>3, <2>2, <3>2, <3>4, Insert
      <3> QED
        BY <2>2, <3>4, <3>5
    <2> QED
      BY <2>3, <2>4, <2>5
  <1> QED
    BY <1>6, <1>7, <1>8 DEF FlowInv, OrderInv

\* NATS delivers a message that is later than all the client has got, or drops
\* it because the channel is full.
LEMMA DeliverFlows ==
  ASSUME FlowInv, AroundOK', TypeOK, ChannelInv, NEW t \in active, Deliver(t)
  PROVE  FlowInv'
  <1> DEFINE c == Owner(t)
             e0 == inCh[t]
             n == pub[c]
             m == [kind |-> "nats", from |-> t, subject |-> asked[c][t[3]], n |-> n + 1]
  <1>1. /\ n < MaxPub /\ pub' = [pub EXCEPT ![c] = n + 1]
        /\ inCh' = [inCh EXCEPT ![t] = IF Len(e0) < SubCap THEN Append(e0, m) ELSE e0]
        /\ UNCHANGED <<holds, out, parsed, msgCh>>
    BY DEF Deliver, sinkVars
  <1>2. /\ t \in Channels /\ c \in Clients /\ inCh \in [Channels -> Seq(NatsMsg)]
        /\ pub \in [Clients -> 0..MaxPub] /\ e0 \in Seq(NatsMsg) /\ n \in 0..MaxPub
    BY Stages DEF FlowInv, PipeTypeOK, ChannelInv
  <1>3. n \in Nat /\ n + 1 \in 1..MaxPub
    BY <1>1, <1>2, PipeAssumption
  <1>4. asked[c][t[3]] \in UNION {Range(r) : r \in SubjectLists}
    <2>1. t[3] \in DOMAIN asked[c] /\ asked[c] \in SubjectLists \union {<<>>}
      BY <1>2 DEF ChannelInv, TypeOK
    <2>2. asked[c] \in SubjectLists
      BY <2>1
    <2>3. asked[c][t[3]] \in Range(asked[c])
      BY <2>1 DEF Range
    <2> QED
      BY <2>2, <2>3
  <1>5. m \in NatsMsg /\ m \in Payloads /\ m.n = n + 1 /\ m.from = t
    BY <1>2, <1>3, <1>4 DEF NatsMsg, Payloads
  <1> HIDE DEF m
  <1>6. PipeTypeOK'
    <2>1. pub' \in [Clients -> 0..MaxPub]
      BY <1>1, <1>2, <1>3
    <2>2. /\ Append(e0, m) \in Seq(NatsMsg) /\ Len(Append(e0, m)) = Len(e0) + 1 /\ Len(e0) \in Nat
      BY <1>2, <1>5, EndLengths
    <2>3. inCh' \in [Channels -> Seq(NatsMsg)]
      BY <1>1, <1>2, <2>2
    <2>4. \A s \in Channels : Len(inCh'[s]) <= SubCap
      <3>1. Len(e0) < SubCap => Len(Append(e0, m)) <= SubCap
        BY <2>2, PipeAssumption
      <3> QED
        BY <1>1, <1>2, <3>1 DEF FlowInv, PipeTypeOK
    <2> QED
      BY <1>1, <2>1, <2>3, <2>4 DEF FlowInv, PipeTypeOK, AroundOK
  <1>7. FromInv'
    <2>1. \A i \in DOMAIN Append(e0, m) : Append(e0, m)[i].from = t
      <3>1. \A i \in DOMAIN e0 : e0[i].from = t
        BY <1>2 DEF FlowInv, FromInv
      <3>2. /\ Len(e0) \in Nat /\ DOMAIN e0 = 1..Len(e0)
            /\ DOMAIN Append(e0, m) = 1..(Len(e0) + 1) /\ Append(e0, m)[Len(e0) + 1] = m
            /\ \A i \in 1..Len(e0) : Append(e0, m)[i] = e0[i]
        BY <1>2, <1>5
      <3> QED
        BY <1>5, <3>1, <3>2
    <2>2. \A s \in Channels : \A i \in DOMAIN inCh'[s] : inCh'[s][i].from = s
      BY <1>1, <1>2, <2>1 DEF FlowInv, FromInv
    <2> QED
      BY <1>1, <2>2 DEF FlowInv, FromInv
  <1>8. ASSUME NEW s \in Channels
        PROVE  Sorted(Ahead(s)', s, pub'[Owner(s)])
    <2> DEFINE k == pub[Owner(s)]
    <2>1. /\ Sorted(Ahead(s), s, k) /\ k \in Nat /\ Ahead(s) \in Seq(Payloads)
          /\ Owner(s) \in Clients
      BY Stages DEF FlowInv, OrderInv
    <2>2. Sorted(Ahead(s), s, k + 1)
      BY <2>1, Ends, PayloadNumbers
    <2>3. pub'[Owner(s)] \in {k, k + 1} /\ (s = t => pub'[Owner(s)] = k + 1 /\ k = n)
      BY <1>1, <1>2, <2>1
    <2>4. CASE s # t \/ ~(Len(e0) < SubCap)
      <3>1. inCh'[s] = inCh[s]
        BY <1>1, <1>2, <2>4
      <3>2. Ahead(s)' = Ahead(s)
        BY <1>1, <3>1 DEF Ahead
      <3> QED
        BY <2>1, <2>2, <2>3, <3>2
    <2>5. CASE s = t /\ Len(e0) < SubCap
      <3> DEFINE a == msgCh[Owner(s)]
                 b == parsed[PipeOf(s)]
                 o == out[PipeOf(s)]
                 d == holds[s]
      <3>1. /\ a \in Seq(Payloads) /\ b \in Seq(Payloads) /\ o \in Seq(Payloads)
            /\ d \in Seq(Payloads) /\ e0 \in Seq(Payloads) /\ Ahead(s) = Way(a, b, o, d, e0)
        BY <2>5, Stages DEF FlowInv
      <3>2. Ahead(s)' = Way(a, b, o, d, Append(e0, m))
        BY <1>1, <1>2, <2>5 DEF Ahead, Way
      <3> HIDE DEF a, b, o, d
      <3>3. WayEnds(a, b, o, d, e0)
        BY <3>1, EndsOfWay
      <3>4. Ahead(s)' = Ahead(s) \o <<m>>
        BY <1>5, <3>1, <3>2, <3>3 DEF WayEnds
      <3>5. m.n = k + 1
        BY <1>5, <2>3, <2>5
      <3> HIDE DEF k
      <3>6. Sorted(Ahead(s) \o <<m>>, s, k + 1)
        BY <1>5, <2>1, <3>5, Ends, PayloadNumbers
      <3> QED
        BY <2>3, <2>5, <3>4, <3>6
    <2> QED
      BY <2>4, <2>5
  <1> QED
    BY <1>6, <1>7, <1>8 DEF FlowInv, OrderInv

LEMMA FlowStep ==
  ASSUME HubInv, ChannelInv, WriterInv, FlowInv, [PipeNext]_allVars
  PROVE  FlowInv'
  <1>1. closed \subseteq closed'
    BY StepFollowsHub, ClosedGrows
  <1>2. /\ writer \in [Clients -> {"off", "on", "ended"}]
        /\ events \in [Clients -> {"off", "start", "receive", "send", "ended", "orphaned"}]
        /\ finished \subseteq closed /\ written \in [Clients -> SUBSET (1..MaxPub)]
    BY DEF FlowInv, PipeTypeOK
  <1>3. TypeOK
    BY DEF HubInv, TypeInv
  <1>4. CASE UNCHANGED allVars
    BY <1>1, <1>2, <1>4, NothingMoves DEF allVars, pipeVars, sinkVars, AroundOK
  <1>5. ASSUME NEW c \in Clients, Connect(c) \/ Control(c) \/ ServeQuietly(c)
        PROVE  FlowInv'
    <2>1. /\ UNCHANGED <<pipeVars, msgCh, written>>
          /\ writer' = writer \/ writer' = [writer EXCEPT ![c] = "on"]
          /\ events' = events \/ events' = [events EXCEPT ![c] = "start"]
      BY <1>5 DEF Connect, Control, ServeQuietly, sinkVars
    <2>2. AroundOK'
      BY <1>1, <1>2, <2>1 DEF AroundOK, pipeVars
    <2> QED
      BY <2>1, <2>2, NothingMoves DEF pipeVars
  <1>6. ASSUME NEW c \in Clients, Report(c) \/ Observe(c)
        PROVE  FlowInv'
    <2>1. /\ UNCHANGED <<pipeVars, writer, written>>
          /\ \/ events' = events
             \/ \E x \in {"receive", "send", "ended", "orphaned"} :
                  events' = [events EXCEPT ![c] = x]
          /\ \/ msgCh' = msgCh
             \/ TrySend(c)
             \/ Len(msgCh[c]) < MsgCap /\ msgCh' = [msgCh EXCEPT ![c] = Append(@, Notice)]
      BY <1>6 DEF Report, Observe, EventsStart, EventsReceive, EventsSend, EventsEnd,
         EventsOrphaned, RelaySample
    <2>2. AroundOK'
      BY <1>1, <1>2, <2>1 DEF AroundOK, pipeVars
    <2>3. \/ msgCh' = msgCh
          \/ Len(msgCh[c]) < MsgCap /\ msgCh' = [msgCh EXCEPT ![c] = Append(@, Notice)]
      <3>1. msgCh \in [Clients -> Seq(NatsMsg \union {Notice})]
        BY DEF FlowInv, PipeTypeOK
      <3> QED
        BY <2>1, <3>1 DEF TrySend
    <2> QED
      BY <2>1, <2>2, <2>3, NoticeQueued DEF pipeVars
  <1>7. ASSUME NEW c \in Clients, Carry(c)
        PROVE  FlowInv'
    <2>1. ASSUME NEW s \in Channels, ForwardEnd(s)
          PROVE  FlowInv'
      <3>1. AroundOK'
        BY <1>1, <1>2, <2>1 DEF ForwardEnd, sinkVars, vars, natsVars, AroundOK
      <3> QED
        BY <2>1, <3>1, NothingMoves DEF ForwardEnd, sinkVars
    <2>2. ASSUME NEW s \in Channels, ForwardReceive(s) \/ ForwardSend(s)
          PROVE  FlowInv'
      <3>1. AroundOK'
        BY <1>1, <1>2, <2>2 DEF ForwardReceive, ForwardSend, sinkVars, AroundOK
      <3> QED
        BY <2>2, <3>1, ForwardReceiveFlows, ForwardSendFlows
    <2>3. ASSUME NEW p \in Pipes, ParserReceive(p) \/ ParserSend(p)
          PROVE  FlowInv'
      <3>1. AroundOK'
        BY <1>1, <1>2, <2>3 DEF ParserReceive, ParserSend, sinkVars, AroundOK
      <3> QED
        BY <2>3, <3>1, ParserReceiveFlows, ParserSendFlows
    <2> QED
      BY <1>7, <2>1, <2>2, <2>3 DEF Carry
  <1>8. ASSUME NEW c \in Clients, Write(c) \/ WriteFails(c)
        PROVE  FlowInv'
    <2>1. /\ msgCh[c] # <<>> /\ msgCh' = [msgCh EXCEPT ![c] = Tail(@)]
          /\ UNCHANGED <<pipeVars, events>>
          /\ writer' = writer \/ writer' = [writer EXCEPT ![c] = "ended"]
          /\ \/ written' = written
             \/ /\ Head(msgCh[c]).kind = "nats"
                /\ written' = [written EXCEPT ![c] = @ \union {Head(msgCh[c]).n}]
      BY <1>8 DEF Write, WriteFails
    <2>2. Head(msgCh[c]).kind = "nats" => Head(msgCh[c]).n \in 1..MaxPub
      <3>1. msgCh[c] \in Seq(NatsMsg \union {Notice})
        BY DEF FlowInv, PipeTypeOK
      <3>2. Head(msgCh[c]) \in NatsMsg \union {Notice}
        BY <2>1, <3>1, EndLengths
      <3> QED
        BY <3>2 DEF NatsMsg, Notice
    <2>3. written' \in [Clients -> SUBSET (1..MaxPub)]
      BY <1>2, <2>1, <2>2
    <2>4. AroundOK'
      BY <1>1, <1>2, <2>1, <2>3 DEF AroundOK, pipeVars
    <2> QED
      BY <2>1, <2>4, PayloadTaken DEF pipeVars
  <1>9. ASSUME NEW c \in Clients, WriterEnds(c)
        PROVE  FlowInv'
    <2>1. AroundOK'
      BY <1>1, <1>2, <1>9 DEF WriterEnds, pipeVars, AroundOK
    <2> QED
      BY <1>9, <2>1, NothingMoves DEF WriterEnds, pipeVars
  <1>10. ASSUME NEW s \in active, Deliver(s)
         PROVE  FlowInv'
    <2>1. AroundOK'
      BY <1>1, <1>2, <1>10 DEF Deliver, sinkVars, AroundOK
    <2> QED
      BY <1>3, <1>10, <2>1, DeliverFlows
  <1> QED
    BY <1>4, <1>5, <1>6, <1>7, <1>8, <1>9, <1>10 DEF PipeNext

\* What is in the channels at first.
LEMMA FlowInit == PipeInit => FlowInv
  <1> SUFFICES ASSUME PipeInit
               PROVE  FlowInv
    OBVIOUS
  <1> USE DEF PipeInit
  <1>1. PipeTypeOK
    <2>1. \A S : <<>> \in Seq(S) /\ Len(<<>>) = 0
      OBVIOUS
    <2> QED
      BY <2>1, PipeAssumption DEF PipeTypeOK
  <1>2. FromInv
    BY DEF FromInv
  <1>3. ASSUME NEW s \in Channels
        PROVE  Sorted(Ahead(s), s, pub[Owner(s)])
    <2>1. Ahead(s) = <<>>
      BY DEF Ahead, Channels, Pipes, PipeOf, Owner
    <2> QED
      BY <2>1 DEF Sorted, Rises, UpTo
  <1> QED
    BY <1>1, <1>2, <1>3 DEF FlowInv, OrderInv

\* The bounded channels keep to their capacities, and the messages of one
\* subscription reach the writer in the order NATS delivered them, none of them
\* twice: whatever else is sent into the channels they share, for every capacity
\* of theirs and any number of clients, subscriptions and messages.
THEOREM PipelineKeepsOrder == PipeSpec => []PipeSound
  <1>1. FlowInv => PipeSound
    BY DEF FlowInv, OrderInv, Sorted, Rises, PipeSound, InOrder, InFlight
  <1>2. HubInv /\ ChannelInv /\ WriterInv /\ FlowInv /\ [PipeNext]_allVars => FlowInv'
    BY FlowStep
  <1>3. PipeSpec => [](GenInv /\ ChannelInv)
    BY PipelineFollowsHub, ChannelInvariant, PTL DEF FollowsHub
  <1> QED
    BY <1>1, <1>2, <1>3, FlowInit, WriterInvariant, PipelineKeepsHubInv, PTL DEF PipeSpec
=============================================================================
