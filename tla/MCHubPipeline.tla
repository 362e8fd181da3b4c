--------------------------- MODULE MCHubPipeline ---------------------------
(* Instances of HubPipeline for TLC. *)
EXTENDS HubPipeline

CONSTANTS c1, foo

JustFoo == {<<foo>>}

\* Bound: a second request is made only while NATS has delivered no more than one message.
Brief == \A c \in Clients : pub[c] <= 1 \/ nreq[c] <= 1

MCNext == PipeNext /\ Brief'
MCSpec == PipeInit /\ [][MCNext]_allVars /\ PipeFairness
=============================================================================
