------------------------------- MODULE Panel -------------------------------
(***************************************************************************)
(* The conversation panel and the explorers that it opens, as one user     *)
(* sees them while messages with attachments arrive: the pages of          *)
(* resourceService and conversationPanelController, ConversationPanel with *)
(* its previews and preferences, and the explorers of media, files and     *)
(* links with their endless scroll and their banner.  An attachment here   *)
(* is also a link of a message's text, and each is told from the others.   *)
(* Members and common groups, who may read, deleted histories and the      *)
(* group's own changes are not here.  A page is one read of the database,  *)
(* and a message is saved before its event is sent.                        *)
(***************************************************************************)
EXTENDS Integers, Sequences, FiniteSetsExt

CONSTANTS
  Convs,        \* conversations
  Limit,        \* attachments to a page
  Slots,        \* requests of an explorer at a time
  MaxMessages,  \* messages
  Views,        \* what is previewed and explored
  Kinds,        \* of messages
  MaxActs,      \* panels and explorers opened, conversations chosen, preferences changed
  MaxTroubles,  \* requests that fail, answers and events that are lost
  None

VARIABLES
  log,       \* the kinds of the messages of a conversation, oldest first
  wire,      \* events on their way
  conv,      \* the conversation shown
  isOpen,    \* the panel is open
  loaded,    \* loadedConvIdRef
  preview,   \* what the panel shows of each kind
  loads,     \* the panel's requests for it
  meta,      \* the metadata shown, or None
  metaLoad,  \* the request for it
  pref,      \* the preference stored
  change,    \* a change of it under way
  view,      \* the explorer that is open, or None
  items, nextCursor, hasMore, isLoading, failed, banner,  \* its state
  asks,      \* its requests
  current,   \* the one of its controller
  messages, gestures, troubles,  \* what the bounds count
  missed,    \* history: conversations of which an event found no socket
  settled,   \* history: the newest of them that is over
  crossed,   \* history: a preview's last answer was an older one, or of another conversation
  slipped,   \* history: the preference shown was written for other metadata
  dropped,   \* history: attachments that a page has cut off
  unflagged  \* history: attachments that came with an event that matched nothing

shared == <<log, wire, missed, messages>>
previews == <<preview, settled, crossed>>
panel == <<isOpen, loaded, previews, loads>>
metadata == <<meta, metaLoad>>
preference == <<pref, change, slipped>>
explorer == <<view, items, nextCursor, hasMore, isLoading, failed, banner, asks, current, dropped, unflagged>>
vars == <<shared, conv, panel, metadata, preference, explorer, gestures, troubles>>


\* The attachments of a message that a view is about.
Holds(k, v) == CASE <<v, k>> \in {<<"media", "album">>, <<"files", "archive">>} -> 2
                 [] v = "media" /\ k \in {"photo", "mixed"} -> 1
                 [] v = "files" /\ k \in {"report", "mixed"} -> 1
                 [] v = "links" /\ k = "link" -> 1
                 [] OTHER -> 0
Attachments(c, v, i) == {<<c, i, v, j>> : j \in 1 .. Holds(log[c][i], v)}
All(c, v) == UNION {Attachments(c, v, i) : i \in 1 .. Len(log[c])}

-----------------------------------------------------------------------------
(* loadMedia and loadFiles: messages from the newest down, until there are  *)
(* enough attachments; what the last one has beyond the limit is cut off.   *)

From(c, v, i, top) == UNION {Attachments(c, v, k) : k \in i .. top}
Enough(c, v, top) == {i \in 1 .. top : /\ Cardinality(From(c, v, i, top)) >= Limit
                                       /\ Attachments(c, v, i) # {}}

Cut(c, v, last, top) ==
  LET kept == Limit - Cardinality(From(c, v, last + 1, top)) IN
  {a \in Attachments(c, v, last) : a[4] > kept}

\* Mutant: the next page begins at the message before.
OneLower(last) == last - 1

\* The cursor is the last message of the page, which the next page leaves out.
NextTop(last) == last

\* The page of the messages up to top.
Page(c, v, top) ==
  IF Enough(c, v, top) = {}
  THEN [items |-> From(c, v, 1, top), hasMore |-> FALSE, cursor |-> 0, cut |-> {}]
  ELSE LET last == Max(Enough(c, v, top)) IN
       [items |-> From(c, v, last, top) \ Cut(c, v, last, top),
        hasMore |-> TRUE, cursor |-> NextTop(last), cut |-> Cut(c, v, last, top)]

-----------------------------------------------------------------------------

NoLoad == [conv |-> None, from |-> FALSE]
NoChange == [pc |-> "idle", conv |-> None, prev |-> FALSE]
NoAsk == [conv |-> None, view |-> None, from |-> 0, reset |-> FALSE]
Blank == [conv |-> None, top |-> 0, error |-> FALSE]

Init ==
  /\ log = [c \in Convs |-> <<>>] /\ wire = {} /\ conv \in Convs
  /\ isOpen = FALSE /\ loaded = None
  /\ preview = [v \in Views |-> Blank] /\ loads = [v \in Views |-> {}]
  /\ meta = [conv |-> None, pref |-> FALSE] /\ metaLoad = NoLoad
  /\ pref = [c \in Convs |-> FALSE] /\ change = NoChange
  /\ view = None /\ items = {} /\ nextCursor = 0 /\ hasMore = TRUE /\ isLoading = FALSE
  /\ failed = FALSE /\ banner = FALSE /\ asks = [s \in Slots |-> NoAsk] /\ current = None
  /\ messages = 0 /\ gestures = 0 /\ troubles = 0
  /\ missed = {} /\ crossed = [v \in Views |-> FALSE]
  /\ settled = [v \in Views |-> 0] /\ slipped = FALSE
  /\ dropped = {} /\ unflagged = {}

Trouble == troubles < MaxTroubles /\ troubles' = troubles + 1
Fine == UNCHANGED troubles
Acts == gestures < MaxActs /\ gestures' = gestures + 1

-----------------------------------------------------------------------------
(* Messages and events.                                                     *)

\* An event that finds no socket is lost: neither the panel nor an explorer asks again
\* after a reconnection.
Message(c) ==
  /\ messages < MaxMessages /\ messages' = messages + 1
  /\ \E k \in Kinds : log' = [log EXCEPT ![c] = Append(@, k)]
  /\ \/ wire' = wire \cup {<<c, Len(log[c]) + 1>>} /\ Fine /\ UNCHANGED missed
     \/ missed' = missed \cup {c} /\ Trouble /\ UNCHANGED wire
  /\ UNCHANGED <<conv, panel, metadata, preference, explorer, gestures>>

\* matchesMedia, matchesFile and matchesLink: a message with a picture is no file.
Matches(k, v) == Holds(k, v) > 0 /\ (v = "files" => Holds(k, "media") = 0)

\* Mutant: the panel asks as the banner does.
ScopesAsMatches(k) == {v \in Views : Matches(k, v)}

\* getRealtimePanelResourceScopes, which looks at each attachment.
Scopes(k) == {v \in Views : Holds(k, v) > 0}

\* A request of the panel for one preview.
Asking(c, v) == [conv |-> c, from |-> Len(log[c]),
                 n |-> Max({l.n : l \in loads[v]} \cup {settled[v]}) + 1]
Asks(c, set) ==
  loads' = [v \in Views |-> IF v \in set THEN loads[v] \cup {Asking(c, v)} ELSE loads[v]]

Event ==
  \E e \in wire :
    /\ wire' = wire \ {e}
    /\ LET k == log[e[1]][e[2]] IN
       /\ IF isOpen /\ e[1] = conv THEN Asks(conv, Scopes(k)) ELSE UNCHANGED loads
       /\ IF view # None /\ e[1] = conv
          THEN /\ banner' = (banner \/ Matches(k, view))
               /\ unflagged' = IF Matches(k, view) THEN unflagged
                               ELSE unflagged \cup Attachments(e[1], view, e[2])
          ELSE UNCHANGED <<banner, unflagged>>
    /\ Fine
    /\ UNCHANGED <<log, missed, messages, conv, isOpen, loaded, previews, metadata,
                   preference, view, items, nextCursor, hasMore, isLoading, failed, asks, current,
                   dropped, gestures>>

-----------------------------------------------------------------------------
(* The explorers.                                                           *)

\* The controller of the last request.
Abort == IF current = None THEN asks ELSE [asks EXCEPT ![current] = NoAsk]

\* fetchMediaData, and with it fetchFilesData and fetchLinksData, which differ in the
\* scope alone.
NewAsk(c, v, from, reset) == [conv |-> c, view |-> v, from |-> from, reset |-> reset]
Fetch(c, v, from, reset) ==
  \E s \in {x \in Slots : Abort[x] = NoAsk} :
    /\ asks' = [Abort EXCEPT ![s] = NewAsk(c, v, from, reset)]
    /\ current' = s /\ isLoading' = TRUE /\ failed' = FALSE

\* handleRefresh.
Refetch(c, v) ==
  /\ Fetch(c, v, Len(log[c]), TRUE)
  /\ items' = {} /\ nextCursor' = 0 /\ hasMore' = TRUE /\ dropped' = {}

OpenExplorer(v) ==
  /\ isOpen /\ view = None /\ Acts
  /\ view' = v /\ banner' = FALSE /\ unflagged' = {} /\ Refetch(conv, v)
  /\ Fine /\ UNCHANGED <<shared, conv, panel, metadata, preference>>

CloseExplorer ==
  /\ view # None /\ view' = None /\ items' = {} /\ nextCursor' = 0 /\ hasMore' = TRUE /\ isLoading' = FALSE
  /\ failed' = FALSE /\ banner' = FALSE /\ asks' = Abort /\ current' = None
  /\ dropped' = {} /\ unflagged' = {}
  /\ Fine /\ UNCHANGED <<shared, conv, panel, metadata, preference, gestures>>

\* The sentinel of useInfiniteScroll comes into view.
LoadMore ==
  /\ view # None /\ hasMore /\ ~isLoading /\ ~failed
  /\ Fetch(conv, view, nextCursor - 1, FALSE)
  /\ Fine
  /\ UNCHANGED <<shared, conv, panel, metadata, preference, view, items, nextCursor, hasMore, banner,
                 dropped, unflagged, gestures>>

\* The banner, or the button that an empty list has after a failure.
Refresh ==
  /\ view # None
  /\ \/ banner /\ banner' = FALSE
     \/ failed /\ items = {} /\ UNCHANGED banner
  /\ Refetch(conv, view)
  /\ unflagged' = {}
  /\ Fine /\ UNCHANGED <<shared, conv, panel, metadata, preference, view, gestures>>

\* The messages that getResources has read: those below the cursor, or all that there were
\* at some time since it was asked.
Tops(a) == IF a.reset THEN a.from .. Len(log[a.conv]) ELSE {a.from}

Takes(reset, page) ==
  /\ items' = IF reset THEN page.items ELSE items \cup page.items
  /\ nextCursor' = page.cursor /\ hasMore' = page.hasMore
  /\ dropped' = dropped \cup page.cut
  /\ Fine /\ UNCHANGED failed

\* A scope that takes longer than two seconds fails too.
ScopeFails == Trouble /\ failed' = TRUE /\ UNCHANGED <<items, nextCursor, hasMore, dropped>>

\* Its answer is a page or a failed scope; what failed at a later page has no button.
Answer(s) ==
  /\ view # None /\ asks[s] # NoAsk /\ asks' = [asks EXCEPT ![s] = NoAsk]
  /\ \/ \E top \in Tops(asks[s]) : Takes(asks[s].reset, Page(asks[s].conv, asks[s].view, top))
     \/ ScopeFails
  /\ IF current = s THEN isLoading' = FALSE /\ current' = None ELSE UNCHANGED <<isLoading, current>>
  /\ UNCHANGED <<shared, conv, panel, metadata, preference, view, banner, unflagged, gestures>>

-----------------------------------------------------------------------------
(* The panel.                                                               *)

\* The resources are asked for once there is metadata, be it of another conversation.
LoadOnce(c, known) ==
  IF known /\ loaded # c
  THEN /\ loaded' = c
       /\ Asks(c, Views)
  ELSE UNCHANGED <<loaded, loads>>

Open ==
  /\ ~isOpen /\ Acts
  /\ isOpen' = TRUE
  /\ LoadOnce(conv, meta.conv # None)
  /\ metaLoad' = [conv |-> conv, from |-> pref[conv]]
  /\ Fine /\ UNCHANGED <<shared, conv, previews, meta, preference, explorer>>

\* The answer to the metadata of a closed panel is left alone; an explorer covers the
\* button that closes it.
Close ==
  /\ isOpen /\ view = None /\ isOpen' = FALSE /\ loaded' = None
  /\ metaLoad' = NoLoad
  /\ Fine /\ UNCHANGED <<shared, conv, previews, loads, meta, preference, explorer, gestures>>

\* Another conversation, in a panel and an explorer that stay.
Switch(c) ==
  /\ c # conv /\ Acts
  /\ conv' = c
  /\ IF isOpen
     THEN /\ LoadOnce(c, meta.conv # None)
          /\ metaLoad' = [conv |-> c, from |-> pref[c]]
     ELSE loaded' = None /\ UNCHANGED <<loads, metaLoad>>
  /\ IF view # None
     THEN Refetch(c, view) /\ banner' = FALSE /\ unflagged' = {}
     ELSE UNCHANGED <<items, nextCursor, hasMore, isLoading, failed, banner, asks, current, dropped,
                      unflagged>>
  /\ Fine
  /\ UNCHANGED <<shared, isOpen, previews, meta, preference, view>>

\* getResources has read at some time since it was asked; fetchMedia and fetchFiles take
\* whatever comes, even for another conversation.
Load(v) ==
  /\ \E l \in loads[v] :
       /\ loads' = [loads EXCEPT ![v] = @ \ {l}]
       /\ settled' = [settled EXCEPT ![v] = IF loads[v] = {l} THEN 0 ELSE Max({@, l.n})]
       /\ \/ /\ Fine
             /\ \E top \in l.from .. Len(log[l.conv]) :
                  preview' = [preview EXCEPT ![v] = [conv |-> l.conv, top |-> top, error |-> FALSE]]
             /\ crossed' = [crossed EXCEPT ![v] = l.conv # conv \/ l.n < settled[v]]
          \/ /\ Trouble
             /\ preview' = [preview EXCEPT ![v].error = TRUE]
             /\ UNCHANGED crossed
  /\ UNCHANGED <<shared, conv, isOpen, loaded, metadata, preference, explorer, gestures>>

\* The button of a preview that has failed.
Retry(v) ==
  /\ isOpen /\ preview[v].error
  /\ preview' = [preview EXCEPT ![v].error = FALSE]
  /\ Asks(conv, {v})
  /\ Fine
  /\ UNCHANGED <<shared, conv, isOpen, loaded, settled, crossed, metadata, preference, explorer, gestures>>

\* getMetadata has read at some time since it was asked.
Preferences(load) == {load.from, pref[load.conv]}
Meta ==
  /\ metaLoad # NoLoad /\ metaLoad' = NoLoad
  /\ \/ \E p \in Preferences(metaLoad) :
          /\ meta' = [conv |-> metaLoad.conv, pref |-> p]
          /\ slipped' = (p # pref[metaLoad.conv] \/ change.pc # "idle")
          /\ LoadOnce(conv, TRUE) /\ Fine
     \/ Trouble /\ UNCHANGED <<meta, slipped, loaded, loads>>
  /\ UNCHANGED <<shared, conv, isOpen, previews, pref, change, explorer, gestures>>

\* handlePreferenceChange, one at a time: the switch shows the new value at once.
Change ==
  /\ isOpen /\ meta.conv # None /\ change.pc = "idle" /\ Acts
  /\ change' = [pc |-> "asked", conv |-> conv, prev |-> meta.pref]
  /\ meta' = [meta EXCEPT !.pref = ~@]
  /\ slipped' = (slipped \/ meta.conv # conv)
  /\ Fine
  /\ UNCHANGED <<shared, conv, panel, metaLoad, pref, explorer>>

\* updatePreference, and its answer.
Answers(result) == change' = [change EXCEPT !.pc = result]
ServeChange ==
  /\ change.pc = "asked"
  /\ \/ /\ pref' = [pref EXCEPT ![change.conv] = ~change.prev]
        /\ \/ Fine /\ Answers("answered") /\ UNCHANGED slipped
           \/ Trouble /\ Answers("failed") /\ slipped' = TRUE
     \/ Trouble /\ Answers("failed") /\ UNCHANGED <<pref, slipped>>
  /\ UNCHANGED <<shared, conv, panel, metadata, explorer, gestures>>

\* Mutant: a failure leaves what the switch shows.
NotBack == meta.pref

\* The rollback.
Back == change.prev

Changed ==
  /\ change.pc \in {"answered", "failed"} /\ change' = NoChange
  /\ meta' = [meta EXCEPT !.pref = IF change.pc = "answered" THEN ~change.prev ELSE Back]
  /\ slipped' = (slipped \/ meta.conv # change.conv)
  /\ Fine
  /\ UNCHANGED <<shared, conv, panel, metaLoad, pref, explorer, gestures>>

-----------------------------------------------------------------------------

Next ==
  \/ \E c \in Convs : Message(c) \/ Switch(c)
  \/ Event
  \/ CloseExplorer \/ LoadMore \/ Refresh
  \/ \E s \in Slots : Answer(s)
  \/ Open \/ Close \/ Meta \/ Change \/ ServeChange \/ Changed
  \/ \E v \in Views : OpenExplorer(v) \/ Load(v) \/ Retry(v)

Spec == Init /\ [][Next]_vars

-----------------------------------------------------------------------------
(* Properties.                                                              *)

\* Every variable keeps its shape; an explorer that loads has a controller, and one
\* that does not has no request out.
TypeOK ==
  /\ \A c \in Convs : \A i \in 1 .. Len(log[c]) : log[c][i] \in Kinds
  /\ \A e \in wire : e[1] \in Convs /\ e[2] \in 1 .. Len(log[e[1]])
  /\ conv \in Convs /\ loaded \in Convs \cup {None} /\ view \in Views \cup {None}
  /\ {isOpen, hasMore, failed, banner, meta.pref} \subseteq BOOLEAN
  /\ isLoading = (current # None)
  /\ \A s \in Slots : asks[s] # NoAsk => s = current
  /\ view # None => isOpen

\* An explorer shows nothing but the attachments of the conversation it is open for.
ExplorerHonest == items \subseteq All(conv, view)

Pending(c) == \E e \in wire : e[1] = c

\* An explorer that has come to its end, with no banner, shows every attachment, but
\* for those that a page has cut off and those whose event matched nothing.
ExplorerWhole ==
  view # None /\ ~isLoading /\ ~failed /\ ~hasMore /\ ~banner
    /\ ~Pending(conv) /\ conv \notin missed
  => All(conv, view) \subseteq items \cup dropped \cup unflagged

\* A preview at rest shows the first page of its conversation, unless answers crossed.
PreviewFresh ==
  \A v \in Views :
    isOpen /\ loaded = conv /\ loads[v] = {} /\ ~preview[v].error /\ ~crossed[v]
      /\ ~Pending(conv) /\ conv \notin missed
    => /\ preview[v].conv = conv
       /\ Page(conv, v, preview[v].top).items = Page(conv, v, Len(log[conv])).items

\* The preference shown is the one stored, unless it was written for other metadata.
PreferenceShown ==
  meta.conv = conv /\ change.pc = "idle" /\ ~slipped => meta.pref = pref[conv]
=============================================================================
