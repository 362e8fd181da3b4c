---------------------------- MODULE MCWebsockets ----------------------------
(* The two ends of the websockets, one per behaviour: the hub of the server, *)
(* and the browser with one connection, one messages card and two metrics    *)
(* cards, which share the connection's service.                              *)
EXTENDS Hub, Sockets

CONSTANTS c1, c2, foo, bar, cnn, m1, x1, x2

VARIABLE end

\* The browser replaces its subjects, drops some, or drops all of them.
Lists == {<<foo, bar>>, <<bar>>, <<>>}

\* Bound: one client that sends every request, the other refused, or two that send one each.
Few(c) == nreq[c] <= 1 /\ Len(wanted[c]) <= 1
OneBusyOrTwoBrief == ctx[c2] = "refused" \/ \A c \in Clients : Few(c)

MCCnnOf == [card \in {m1, x1, x2} |-> cnn]

\* Nothing is to happen at the end that keeps its initial state, so the fairness
\* of both says nothing about it.
MCInit == end \in {"server", "browser"} /\ Init /\ PoolInit
MCNext == \/ end = "server" /\ Next /\ UNCHANGED <<end, poolVars>>
          \/ end = "browser" /\ PoolNext /\ UNCHANGED <<end, vars>>
MCSpec == MCInit /\ [][MCNext]_<<end, vars, poolVars>> /\ Fairness /\ PoolFairness
=============================================================================
