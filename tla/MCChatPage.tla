----------------------------- MODULE MCChatPage -----------------------------
(* The conversation list and the panel beside the chat, two parts of the   *)
(* page that share no state.  A behaviour is one of the one or of the      *)
(* other, whose variables are Off meanwhile.                               *)
EXTENDS Naturals, FiniteSets, TLC

CONSTANTS Convs, Groups, Hits, Start, Limit, Slots, MaxActs, MaxPosts,
          ListTotal, PanelConvs, Views, Kinds, MaxMessages, MaxGestures, MaxTroubles,
          PanelTotal, Nil, Off, r1, r2, conv1, conv2

ASSUME ListAssumption ==
  /\ Convs \subseteq Nat \ {0} /\ IsFiniteSet(Convs) /\ Groups \cup Hits \subseteq Convs
  /\ Start \in [Convs -> 0 .. Cardinality(Convs)] /\ Limit \in Nat \ {0}
  /\ {MaxActs, MaxPosts, ListTotal} \subseteq Nat
ASSUME PanelAssumption ==
  /\ {MaxMessages, MaxGestures, MaxTroubles, PanelTotal} \subseteq Nat
  /\ Views \subseteq {"media", "files", "links"}
  /\ Kinds \subseteq {"photo", "album", "report", "archive", "mixed", "link"}
  /\ Nil \notin PanelConvs \cup Slots \cup Views

VARIABLES part,
  row, pending, events, clock, deleting, list, cursor, more, fetching, filter, term,
  timer, request, acts, found, doubled, overtaken,
  log, wire, conv, isOpen, loaded, preview, loads, meta, metaLoad, pref, change, viewed,
  items, nextCursor, hasMore, isLoading, failed, banner, asks, current, messages,
  gestures, troubles, unheard, settled, crossed, slipped, dropped, unflagged

listVars == <<row, pending, events, clock, deleting, list, cursor, more, fetching,
              filter, term, timer, request, acts, found, doubled, overtaken>>
panelVars == <<log, wire, conv, isOpen, loaded, preview, loads, meta, metaLoad, pref,
               change, viewed, items, nextCursor, hasMore, isLoading, failed, banner,
               asks, current, messages, gestures, troubles, unheard, settled, crossed,
               slipped, dropped, unflagged>>

L == INSTANCE Sidebar
P == INSTANCE Panel WITH Convs <- PanelConvs, MaxActs <- MaxGestures, None <- Nil,
                         view <- viewed, missed <- unheard

NoList ==
  /\ row = Off /\ pending = Off /\ events = Off /\ clock = Off /\ deleting = Off /\ list = Off
  /\ cursor = Off /\ more = Off /\ fetching = Off /\ filter = Off /\ term = Off /\ timer = Off
  /\ request = Off /\ acts = Off /\ found = Off /\ doubled = Off /\ overtaken = Off
NoPanel ==
  /\ log = Off /\ wire = Off /\ conv = Off /\ isOpen = Off /\ loaded = Off /\ preview = Off
  /\ loads = Off /\ meta = Off /\ metaLoad = Off /\ pref = Off /\ change = Off /\ viewed = Off
  /\ items = Off /\ nextCursor = Off /\ hasMore = Off /\ isLoading = Off /\ failed = Off
  /\ banner = Off /\ asks = Off /\ current = Off /\ messages = Off /\ gestures = Off
  /\ troubles = Off /\ unheard = Off /\ settled = Off /\ crossed = Off /\ slipped = Off
  /\ dropped = Off /\ unflagged = Off

\* What the user does, what arrives and what fails, all in all.
ListBound == acts + (clock - Cardinality(Convs)) <= ListTotal
PanelBound == gestures + messages + troubles <= PanelTotal

PageInit == \/ part = "list" /\ L!Init /\ NoPanel
            \/ part = "panel" /\ P!Init /\ NoList
PageNext == \/ part = "list" /\ L!Next /\ ListBound' /\ UNCHANGED <<part, panelVars>>
            \/ part = "panel" /\ P!Next /\ PanelBound' /\ UNCHANGED <<part, listVars>>
PageSpec == PageInit /\ [][PageNext]_<<part, listVars, panelVars>>

MCConvs == 1 .. 3
MCGroups == {3}
MCHits == {1, 3}
MCStart == [c \in MCConvs |-> IF c = 3 THEN 0 ELSE c]
MCSlots == {r1, r2}
MCPanelConvs == {conv1, conv2}
Symmetry == Permutations(MCSlots) \cup Permutations(MCPanelConvs)

\* The list and the search of the sidebar are whole once all is quiet.
SidebarWhole == part = "list" => L!TypeOK /\ L!ListWhole /\ L!SearchWhole

\* The explorer shows nothing of another conversation and, at its end, leaves
\* out nothing but what the exceptions of ExplorerWhole name.
ExplorerExact == part = "panel" => P!TypeOK /\ P!ExplorerHonest /\ P!ExplorerWhole

\* The previews and the preference the panel shows are those of the server.
PanelTruthful == part = "panel" => P!PreviewFresh /\ P!PreferenceShown
=============================================================================
