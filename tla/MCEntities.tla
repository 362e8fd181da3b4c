----------------------------- MODULE MCEntities -----------------------------
(* The cards of the entities, their forms, and the decks with the session,   *)
(* one of them at a time.  Two names of each kind of entity, one open detail *)
(* card; the families are the cards that open one another.                   *)
EXTENDS Entities, Session, EntityForms

VARIABLE part
mcVars == <<entityVars, sessionVars, formVars, part>>

MCUnits == <<1, 2, 6, 12>>

MCFamilies ==
  {{"connections", "connection", "messages", "message"},
   {"connections", "cnn_loader"},
   {"connection", "cnn_metrics", "client_metrics"},
   {"messages", "sync", "message_send", "message"},
   {"streams", "stream", "stream_messages", "message"},
   {"stream", "consumers", "consumer", "json_config"},
   {"buckets", "bucket", "kventries", "kventry"},
   {"about", "shortcut", "logs"}}

\* The part that does not run rests in one of its initial states.
EntitiesRest ==
  /\ kind = "kv" /\ clock = 1 /\ server = [n \in Names |-> 0]
  /\ cList = [set |-> FALSE, rows |-> [n \in Names |-> 0], select |-> NoName, asof |-> 0]
  /\ card = [s \in Slots |-> NoCard] /\ reqs = {} /\ ask = NoAsk /\ stale = {}
SessionRests ==
  /\ phase = "start" /\ family = {} /\ deck = NoDeck /\ menu = <<>> /\ wide = FALSE
  /\ disk = NoDisk /\ saved = NotSaved /\ torn = FALSE /\ fresh = FALSE /\ steps = 0
FormRests == form = NewForm("stream")
SourcesRest == sources = Dialog(<<>>, 0, FALSE, "", FALSE)
AuthRests == auth = [active |-> <<>>, http |-> FALSE, nats |-> FALSE, open |-> 0, kept |-> FALSE, late |-> FALSE]
FormsRest == FormRests /\ SourcesRest /\ AuthRests

MCInit == \/ part = "entities" /\ EntityInit /\ SessionRests /\ FormsRest
          \/ part = "session" /\ SessionInit /\ EntitiesRest /\ FormsRest
          \/ part = "form" /\ FormInit /\ SourcesRest /\ AuthRests /\ EntitiesRest /\ SessionRests
          \/ part = "sources" /\ SourcesInit /\ FormRests /\ AuthRests /\ EntitiesRest /\ SessionRests
          \/ part = "auth" /\ AuthInit /\ FormRests /\ SourcesRest /\ EntitiesRest /\ SessionRests
MCNext == /\ UNCHANGED part
          /\ \/ part = "entities" /\ EntityNext /\ UNCHANGED <<sessionVars, formVars>>
             \/ part = "session" /\ SessionNext /\ UNCHANGED <<entityVars, formVars>>
             \/ part = "form" /\ FormNext /\ UNCHANGED <<entityVars, sessionVars>>
             \/ part = "sources" /\ SourcesNext /\ UNCHANGED <<entityVars, sessionVars>>
             \/ part = "auth" /\ AuthNext /\ UNCHANGED <<entityVars, sessionVars>>
MCSpec == MCInit /\ [][MCNext]_mcVars

NameSymmetry == Permutations(Names)
=============================================================================
