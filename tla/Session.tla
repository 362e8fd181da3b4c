------------------------------ MODULE Session ------------------------------
(***************************************************************************)
(* The two decks of cards, the menu of pinned ones, and the session: when  *)
(* the page goes, the decks and the menu are written to the storage of the *)
(* browser, one key after the other; when it comes back they are built     *)
(* anew, and shown once the connections have been fetched.                 *)
(***************************************************************************)
EXTENDS Cards

CONSTANTS Families,  \* bound: sets of types that are met together
          MaxSteps,  \* bound: what the user does
          MaxUuid    \* bound: cards that have a uuid at the same time

ASSUME SessionAssumption == /\ \A F \in Families : F \subseteq Buildable
                            /\ MaxSteps \in Nat /\ MaxUuid \in Nat \ {0}

VARIABLES
  phase,   \* "start": the page is loaded; "loading": the connections are asked for;
           \* "up"; "offline": they could not be had; "broken": restoring threw
  deck,    \* place -> sequence of chains, a chain being a card and those linked below it
  menu,    \* pinned cards: [uuid, card], NoView while it is the store in the deck
  wide,    \* the drawer is open
  disk,    \* the stored session: [all, roots: place -> uuids, menu]
  saved,   \* history: what was there when the session was last written whole
  torn,    \* history: a session that was written in part has been restored
  fresh,   \* history: restored, and nothing done since
  family, steps

sessionVars == <<phase, deck, menu, wide, disk, saved, torn, fresh, family, steps>>

Places == {"main", "drawer"}
NoDeck == [p \in Places |-> <<>>]
NoDisk == [all |-> <<>>, roots |-> NoDeck, menu |-> <<>>]
NotSaved == [whole |-> FALSE, deck |-> NoDeck, menu |-> <<>>]

Spots(D) == UNION {UNION {{<<p, n, i>> : i \in DOMAIN D[p][n]} : n \in DOMAIN D[p]} : p \in Places}
At(D, s) == D[s[1]][s[2]][s[3]]
DeckUuids(D) == {At(D, s).uuid : s \in Spots(D)}
MenuUuids == [j \in DOMAIN menu |-> menu[j].uuid]
UsedUuids == DeckUuids(deck) \cup ToSet(MenuUuids) \cup ToSet(disk.menu)
             \cup UNION {{c[i].uuid : i \in DOMAIN c} : c \in ToSet(disk.all)}

\* The uuids that new cards are given, each another one.
Unused == (1..MaxUuid) \ UsedUuids
Room(count) == Cardinality(Unused) >= count
NewUuid(k) == CHOOSE u \in Unused : Cardinality(Unused \cap (1..u)) = k
Named(view, uuid) == IF view = NoView THEN NoView ELSE [view EXCEPT !.uuid = uuid]

SessionInit ==
  /\ phase = "up" /\ family \in Families
  /\ \E t \in family, edit \in {"read", "new"} :
       /\ edit = "new" => "editState" \in Fields(t)
       /\ deck = [NoDeck EXCEPT !["main"] = <<<< [BuildStore(t,
            Fields(t) \cap (IF edit = "new" THEN Needed \ {"connection"} ELSE Needed), edit)
              EXCEPT !.uuid = 1] >>>>]
  /\ menu = <<>> /\ wide = FALSE /\ disk = NoDisk /\ saved = NotSaved
  /\ torn = FALSE /\ fresh = FALSE /\ steps = 0

-----------------------------------------------------------------------------
(* The user. *)

\* Before the connections have come the menu is there already, the shortcuts are not.
Acts(phases) == /\ phase \in phases /\ steps < MaxSteps /\ steps' = steps + 1
                /\ fresh' = FALSE /\ UNCHANGED <<phase, disk, saved, torn, family>>
Working == {"loading", "offline", "up"}

\* A pinned card that leaves the decks stays in the menu, with nothing below it.
PinsAfter(D) == [j \in DOMAIN menu |->
  IF menu[j].card = NoView /\ menu[j].uuid \notin DeckUuids(D)
  THEN [menu[j] EXCEPT !.card =
          At(deck, CHOOSE s \in Spots(deck) : At(deck, s).uuid = menu[j].uuid)]
  ELSE menu[j]]
SetDeck(D) == deck' = D /\ menu' = PinsAfter(D)

ChainAt(s) == deck[s[1]][s[2]]
WithChain(s, chain) == [deck EXCEPT ![s[1]][s[2]] = chain]
WithCard(s, c) == WithChain(s, [ChainAt(s) EXCEPT ![s[3]] = c])
WithRoot(p, c) == [deck EXCEPT ![p] = Append(@, <<c>>)]

AddLink(chain, i, view) == SubSeq(chain, 1, i) \o (IF view = NoView THEN <<>> ELSE <<view>>)
Selected(p, view) ==
  IF "select" \notin Fields(p.type) THEN p
  ELSE LET row == IF view # NoView /\ view.f["editState"] # "new" THEN "set" ELSE "void"
       IN  [p EXCEPT !.f = [p.f EXCEPT !["select"] = row]]
Below(chain, i) == IF i < Len(chain) THEN chain[i + 1].type ELSE "none"

\* A card of its own, or one linked below, instead of what is there.
Opened(s, d, view) ==
  /\ view.type \in family \cup {"none"} /\ (view = NoView => ~d /\ Len(ChainAt(s)) > s[3])
  /\ SetDeck(LET new == Named(view, NewUuid(1)) IN
             IF d THEN WithRoot(s[1], new)
             ELSE WithChain(s, AddLink([ChainAt(s) EXCEPT ![s[3]] = Selected(@, view)], s[3], new)))
OpenBelow(s) == /\ Acts(Working) /\ Room(1) /\ UNCHANGED wide
                /\ \E d \in BOOLEAN : \E view \in Opens(At(deck, s), Below(ChainAt(s), s[3]), d) :
                     Opened(s, d, view)

\* A stream that comes without a card below opens the kind that was open last.
RestoreLink(s) ==
  /\ Acts({"up"}) /\ Room(1) /\ At(deck, s).type = "stream" /\ Below(ChainAt(s), s[3]) = "none"
  /\ \E view \in OpenConsumers(At(deck, s)) \cup OpenStreamMessages(At(deck, s)) :
       /\ view # NoView /\ view.type \in family
       /\ SetDeck(WithChain(s, AddLink(ChainAt(s), s[3], Named(view, NewUuid(1)))))
  /\ UNCHANGED wide

Filled(c) == [c EXCEPT !.f = [x \in DOMAIN c.f |->
                IF x \in {"editState", "connection", "onClose"} THEN c.f[x] ELSE "set"]]
Fill(s) == /\ Acts(Working) /\ Filled(At(deck, s)) # At(deck, s)
           /\ SetDeck(WithCard(s, Filled(At(deck, s)))) /\ UNCHANGED wide
InEdit(c) == [c EXCEPT !.f = [c.f EXCEPT !["editState"] = "edit"]]
EditView(s) == /\ Acts(Working) /\ "editState" \in Fields(At(deck, s).type)
               /\ At(deck, s).f["editState"] = "read"
               /\ SetDeck(WithCard(s, InEdit(At(deck, s)))) /\ UNCHANGED wide

CloseView(s) ==
  /\ Acts(Working) /\ UNCHANGED wide
  /\ SetDeck(IF s[3] = 1 THEN [deck EXCEPT ![s[1]] = RemoveAt(@, s[2])]
             ELSE WithChain(s, AddLink(ChainAt(s), s[3] - 1, NoView)))

\* The button of the header, for a card that is not linked below another.
Pin(s) == /\ Acts(Working) /\ s[3] = 1
          /\ At(deck, s).type \notin {"connections", "logs", "about"}
          /\ At(deck, s).uuid \notin ToSet(MenuUuids)
          /\ menu' = Append(menu, [uuid |-> At(deck, s).uuid, card |-> NoView])
          /\ UNCHANGED <<deck, wide>>
Unpin(j) == Acts(Working) /\ menu' = RemoveAt(menu, j) /\ UNCHANGED <<deck, wide>>
OpenPinned(j) == /\ Acts(Working) /\ menu[j].card # NoView /\ UNCHANGED wide
                 /\ deck' = WithRoot("main", menu[j].card)
                 /\ menu' = [menu EXCEPT ![j].card = NoView]

\* The cards that are always there: the list of connections, the log, the about.
OpenFixed(t) ==
  /\ Acts(Working) /\ Room(1) /\ t \in family /\ \A s \in Spots(deck) : At(deck, s).type # t
  /\ SetDeck(WithRoot("main", Named(BuildStore(t, {}, "read"), NewUuid(1))))
  /\ UNCHANGED wide

\* Alt+X: the focused card, and what is below it, goes to the other deck; Alt+Z: the
\* focus does.  Either opens the drawer for what it brings there.
Moved(s) == [p \in Places |->
  IF p # s[1] THEN Append(deck[p], SubSeq(ChainAt(s), s[3], Len(ChainAt(s))))
  ELSE IF s[3] = 1 THEN RemoveAt(deck[p], s[2])
  ELSE [deck[p] EXCEPT ![s[2]] = SubSeq(@, 1, s[3] - 1)]]
MoveView(s) == Acts({"up"}) /\ SetDeck(Moved(s)) /\ wide' = (wide \/ s[1] = "main")
MoveFocus(dest) == /\ Acts({"up"}) /\ wide' = (wide \/ dest = "drawer")
                   /\ UNCHANGED <<deck, menu>>
ToggleDrawer == Acts(Working) /\ wide' = ~wide /\ UNCHANGED <<deck, menu>>

UserNext ==
  \/ \E s \in Spots(deck) : \/ OpenBelow(s) \/ RestoreLink(s) \/ Fill(s) \/ EditView(s)
                            \/ CloseView(s) \/ Pin(s) \/ MoveView(s)
  \/ \E j \in DOMAIN menu : Unpin(j) \/ OpenPinned(j)
  \/ \E t \in {"connections", "logs", "about"} : OpenFixed(t)
  \/ \E dest \in Places : MoveFocus(dest)
  \/ ToggleDrawer

-----------------------------------------------------------------------------
(* Saving. *)

GetSerialization(c) == [uuid |-> c.uuid, type |-> c.type,
  data |-> [k \in DOMAIN Writes(c.type) |-> c.f[Writes(c.type)[k]]]]
Serialize(chain) == [i \in DOMAIN chain |-> GetSerialization(chain[i])]
SerializeAll(chains) == [n \in DOMAIN chains |-> Serialize(chains[n])]

\* The states of all the cards once: those pinned only after those of the decks.
OnlyPinned == LET only == Part(menu, {j \in DOMAIN menu : menu[j].uuid \notin DeckUuids(deck)})
              IN  [j \in DOMAIN only |-> <<only[j].card>>]
SavedSession ==
  [all |-> SerializeAll(deck["main"]) \o SerializeAll(deck["drawer"]) \o SerializeAll(OnlyPinned),
   roots |-> [p \in Places |-> [n \in DOMAIN deck[p] |-> deck[p][n][1].uuid]],
   menu |-> MenuUuids]

\* The keys before the one that found the storage full.
WriteKeys(session, count) ==
  [all |-> IF count >= 1 THEN session.all ELSE disk.all,
   roots |-> [p \in Places |-> IF count >= (IF p = "main" THEN 2 ELSE 3)
                              THEN session.roots[p] ELSE disk.roots[p]],
   menu |-> IF count >= 4 THEN session.menu ELSE disk.menu]

PageGone == /\ phase' = "start" /\ deck' = NoDeck /\ menu' = <<>> /\ wide' = FALSE
            /\ fresh' = FALSE /\ UNCHANGED <<torn, family, steps>>

\* The page is closed or reloaded, whatever it was doing.
Unload == \E count \in 0..4 :
  /\ disk' = WriteKeys(SavedSession, count)
  /\ saved' = IF disk' = SavedSession THEN [whole |-> TRUE, deck |-> deck, menu |-> MenuUuids]
              ELSE NotSaved
  /\ PageGone
\* The browser dies.
Crash == phase # "start" /\ PageGone /\ UNCHANGED <<disk, saved>>

-----------------------------------------------------------------------------
(* Restoring. *)

SetSerialization(s) ==
  [uuid |-> s.uuid, type |-> s.type, f |-> [x \in Fields(s.type) |->
     IF x \in DOMAIN Reads(s.type)
     THEN LET k == Reads(s.type)[x] IN IF k \in DOMAIN s.data THEN s.data[k] ELSE "void"
     ELSE BuildStore(s.type, {}, "read").f[x]]]

\* A detail that is restored below its list opens, or closes, what was last used below
\* a detail of its kind; no connection is known yet.
LinkedView(chain, views) == LET view == CHOOSE v \in views : TRUE IN
  AddLink(chain, 1, view)
CnnOnLinked(chain, option) == LET b == Below(chain, 1) IN
  CASE option = "messages" -> LinkedView(chain, OpenMessages(chain[1], b, FALSE, FALSE))
    [] option = "streams" -> LinkedView(chain, OpenStreams(chain[1], b, FALSE, FALSE))
    [] option = "buckets" -> LinkedView(chain, OpenBuckets(chain[1], b, FALSE, FALSE))
    [] OTHER -> chain
BucketOnLinked(chain, option, uuid) ==
  IF option = "kventries"
  THEN LinkedView(chain, {Named(v, uuid) : v \in OpenKVEntries(chain[1], Below(chain, 1))})
  ELSE chain
OnLinked(chain, options, uuid) ==
  IF chain = <<>> THEN chain
  ELSE CASE chain[1].type = "connection" -> CnnOnLinked(chain, options.connection)
         [] chain[1].type = "bucket" -> BucketOnLinked(chain, options.bucket, uuid)
         [] OTHER -> chain

\* From the last card up: each is built, then linked to the one above.
RestoreChain(states, options, uuid) ==
  LET built[k \in 0..Len(states)] ==
        IF k = 0 THEN <<>>
        ELSE <<SetSerialization(states[Len(states) - k + 1])>> \o OnLinked(built[k - 1], options, uuid)
  IN  built[Len(states)]

FindState(all, uuid) == LET found == {i \in DOMAIN all : all[i][1].uuid = uuid}
                        IN  IF found = {} THEN 0 ELSE CHOOSE i \in found : \A j \in found : i <= j
StateOf(uuid) == FindState(disk.all, uuid)
Number(p, n) == IF p = "main" THEN n ELSE Len(disk.roots["main"]) + n
RestoredDeck(options) == [p \in Places |-> [n \in DOMAIN disk.roots[p] |->
  LET root == disk.roots[p][n]
      chain == RestoreChain(disk.all[StateOf(root)], options, NewUuid(Number(p, n)))
  IN  IF p = "drawer" /\ root \in ToSet(disk.roots["main"]) THEN SubSeq(chain, 1, 1) ELSE chain]]

\* The pinned cards that are found, in the decks D or else among the states.
FoundPins(D) == Part(disk.menu, {j \in DOMAIN disk.menu :
                                   disk.menu[j] \in DeckUuids(D) \/ StateOf(disk.menu[j]) # 0})
RestoredCard(uuid, options) == RestoreChain(disk.all[StateOf(uuid)], options, 0)[1]

\* Mutant: the drawer is not looked through.
RestoredMenu_Main(D, options) ==
  LET kept == FoundPins(D)
  IN [j \in DOMAIN kept |-> [uuid |-> kept[j], card |->
        IF kept[j] \in DeckUuids([D EXCEPT !["drawer"] = <<>>]) THEN NoView
        ELSE RestoredCard(kept[j], options)]]

RestoredMenu(D, options) ==
  LET kept == FoundPins(D)
  IN [j \in DOMAIN kept |-> [uuid |-> kept[j], card |->
        IF kept[j] \in DeckUuids(D) THEN NoView ELSE RestoredCard(kept[j], options)]]

\* A uuid whose state was not written throws, and nothing more is done.
LoadStarts ==
  /\ phase = "start" /\ torn' = (torn \/ (~saved.whole /\ disk # NoDisk))
  /\ phase' = IF \A p \in Places : \A n \in DOMAIN disk.roots[p] : StateOf(disk.roots[p][n]) # 0
              THEN "loading" ELSE "broken"
  /\ UNCHANGED <<deck, menu, wide, disk, saved, fresh, family, steps>>

\* The connections have come: what was opened in the meantime gives way.
Options == [connection: {"none", "messages", "streams", "buckets"}, bucket: {"none", "kventries"}]
LoadDone ==
  /\ phase = "loading" /\ phase' = "up" /\ fresh' = TRUE
  /\ Room(Len(disk.roots["main"]) + Len(disk.roots["drawer"]))
  /\ \E options \in Options : deck' = RestoredDeck(options) /\ menu' = RestoredMenu(deck', options)
  /\ UNCHANGED <<wide, disk, saved, torn, family, steps>>
LoadFails == /\ phase = "loading" /\ phase' = "offline"
             /\ UNCHANGED <<deck, menu, wide, disk, saved, torn, fresh, family, steps>>

SessionNext == UserNext \/ Unload \/ Crash \/ LoadStarts \/ LoadDone \/ LoadFails
SessionSpec == SessionInit /\ [][SessionNext]_sessionVars

-----------------------------------------------------------------------------
(* Properties. *)

SessionTypeOK ==
  /\ phase \in {"start", "loading", "up", "offline", "broken"} /\ wide \in BOOLEAN
  /\ \A s \in Spots(deck) : /\ At(deck, s).uuid \in 1..MaxUuid
                            /\ At(deck, s).type \in Drawn
                            /\ DOMAIN At(deck, s).f = Fields(At(deck, s).type)
  /\ \A j \in DOMAIN menu : menu[j].card = NoView \/ menu[j].card.uuid = menu[j].uuid
  /\ steps \in 0..MaxSteps

\* A pinned card and the card in a deck are one store, however often the page is
\* reloaded; no two cards have the same uuid, unless a session was written in part.
OneStoreEach ==
  /\ \A j \in DOMAIN menu : (menu[j].uuid \in DeckUuids(deck)) = (menu[j].card = NoView)
  /\ torn \/ \A s, r \in Spots(deck) : At(deck, s).uuid = At(deck, r).uuid => s = r

\* Whatever a card went through, it knows what it has to ask the server for.
CanAsk == \A s \in Spots(deck) :
  \A x \in (Needed \ {"connection"}) \cap Fields(At(deck, s).type) : At(deck, s).f[x] = "set"

\* A session that was written whole comes back as it was: the same cards in the same
\* places, showing the same, but for fields that are known to be forgotten and for what is
\* below a connection or a bucket that is itself below its list.
Forgotten(t) == CASE t = "stream" -> {"allStreams"} [] t = "consumers" -> {"select"}
                  [] OTHER -> Unsaved(t)
SameCard(a, b) == /\ a.uuid = b.uuid /\ a.type = b.type
                  /\ \A x \in Fields(a.type) \ Forgotten(a.type) : a.f[x] = b.f[x]
Cuts(chain) == {i \in 2..Len(chain) : chain[i].type \in {"connection", "bucket"}}
SameChain(c, r) == \E cut \in Cuts(c) \cup {Len(c)} :
  /\ Len(r) >= cut /\ \A i \in 1..cut : SameCard(c[i], r[i])
  /\ \/ Len(r) = cut
     \/ Len(r) = cut + 1 /\ c[cut].type = "bucket" /\ r[cut + 1].type = "kventries"
RestoredAsSaved ==
  (fresh /\ ~torn /\ saved.whole) =>
    /\ MenuUuids = saved.menu
    /\ \A p \in Places : /\ Len(deck[p]) = Len(saved.deck[p])
                         /\ \A n \in DOMAIN deck[p] : SameChain(saved.deck[p][n], deck[p][n])

\* The decks, the menu and the stored session tell of the same cards.
SessionSound == SessionTypeOK /\ OneStoreEach /\ CanAsk /\ RestoredAsSaved
=============================================================================
