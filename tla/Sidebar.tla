------------------------------ MODULE Sidebar ------------------------------
(***************************************************************************)
(* The conversation list of the chat page: SidebarStateManager of          *)
(* client/src/features/chat/hooks/useSidebarState.js, which loads the list *)
(* page by page, searches it, and applies the message events of the socket *)
(* to it, with the endpoint it asks                                        *)
(* (server/src/controllers/sidebarController.js) and the rows that the     *)
(* read model keeps for the user.  Pages, searches, events and changes of  *)
(* the rows cross each other.  The list is a function from the             *)
(* conversations in it to the time of the message each one shows; its      *)
(* order, the unread counts and hits of users one never wrote to are left  *)
(* out.                                                                    *)
(***************************************************************************)
EXTENDS Integers, FiniteSets

CONSTANTS
  Convs,      \* conversations: numbers, which break ties of the order
  Groups,     \* the group conversations among them
  Hits,       \* those whose name has the term the user types
  Start,      \* when the last message of each was sent, 0 for none
  Limit,      \* conversations of a page
  Slots,      \* requests in flight
  MaxActs,    \* what the user may do, pins elsewhere, requests that fail
  MaxPosts    \* messages that may arrive

VARIABLES
  row,       \* the user's row of each conversation: [at, pinned]
  pending,   \* messages the read model has still to write, in the order of their times
  events,    \* message events on their way to the page, in the same order
  clock,     \* the time of the newest message
  deleting,  \* conversations whose deletion the page has still to hear of
  list, cursor, more, fetching, filter, term, timer,   \* SidebarStateManager
  request,   \* its requests in flight
  acts,      \* what MaxActs counts
  found,     \* history: the current search has been answered
  doubled,   \* history: two live requests for pages have been under way at once
  overtaken  \* history: conversations whose event or change crossed a page, or
             \* all, when a deletion starts again from a list two pages had met in

server == <<row, pending, clock, deleting>>
history == <<found, doubled, overtaken>>
vars == <<row, pending, events, clock, deleting, list, cursor, more, fetching,
          filter, term, timer, request, acts, found, doubled, overtaken>>

Filters == {"all", "direct", "group"}
Times == 0 .. Cardinality(Convs) + MaxPosts
Nothing == [c \in {} |-> 0]
Top == <<>>   \* no cursor
Idle == [op |-> "none", pc |-> "idle", live |-> FALSE, from |-> Top, filter |-> "all",
         term |-> FALSE, page |-> Nothing, next |-> Top, more |-> FALSE, behind |-> {}]

Init ==
  /\ row = [c \in Convs |-> [at |-> Start[c], pinned |-> FALSE]]
  /\ pending = {} /\ events = {} /\ clock = Cardinality(Convs) /\ deleting = {}
  /\ list = Nothing /\ cursor = Top /\ more = TRUE /\ filter = "all"
  /\ term = FALSE /\ timer = FALSE
  /\ \E r \in Slots : request = [s \in Slots |->
       IF s = r THEN [Idle EXCEPT !.op = "page", !.pc = "up", !.live = TRUE] ELSE Idle]
  /\ fetching = TRUE
  /\ acts = 0
  /\ found = FALSE /\ doubled = FALSE /\ overtaken = {}

-----------------------------------------------------------------------------
(* The page sends a request.                                                *)

\* abort(), and the request id that searches compare.
Aborted == [r \in Slots |-> IF request[r].op = "page" THEN [request[r] EXCEPT !.live = FALSE]
                            ELSE request[r]]
Superseded(requests) == [r \in Slots |-> IF requests[r].op = "search" THEN Idle ELSE requests[r]]

\* fetchData and fetchSearchData as far as their await.
Sends(requests, op, from, kind, typed) ==
  /\ \E r \in Slots :
       /\ requests[r].pc = "idle"
       /\ request' = [requests EXCEPT ![r] =
            [Idle EXCEPT !.op = op, !.pc = "up", !.live = TRUE, !.from = from,
                         !.filter = kind, !.term = typed]]
  /\ fetching' = TRUE

Acts == acts < MaxActs /\ acts' = acts + 1 /\ UNCHANGED events

SetFilter(kind) ==
  /\ Acts
  /\ list' = Nothing /\ cursor' = Top /\ more' = TRUE /\ filter' = kind /\ timer' = FALSE
  /\ Sends(Superseded(Aborted), IF term THEN "search" ELSE "page", Top, kind, term)
  /\ found' = FALSE /\ doubled' = FALSE /\ overtaken' = {}
  /\ UNCHANGED <<server, term>>

\* setSearchTerm with a term: the search waits for the debounce.
Type ==
  /\ Acts
  /\ term' = TRUE /\ timer' = TRUE
  /\ request' = Superseded(request)
  /\ found' = FALSE
  /\ UNCHANGED <<server, list, cursor, more, fetching, filter, doubled, overtaken>>

Debounced ==
  /\ timer /\ timer' = FALSE
  /\ Sends(Superseded(request), "search", Top, filter, TRUE)
  /\ UNCHANGED <<server, events, list, cursor, more, filter, term, acts, history>>

\* setSearchTerm with nothing after a term.
ClearTerm ==
  /\ Acts /\ term
  /\ term' = FALSE /\ timer' = FALSE
  /\ list' = Nothing /\ cursor' = Top /\ more' = TRUE
  /\ Sends(Superseded(Aborted), "page", Top, filter, FALSE)
  /\ found' = FALSE /\ doubled' = FALSE /\ overtaken' = {}
  /\ UNCHANGED <<server, filter>>

LoadMore ==
  /\ Acts
  /\ ~fetching /\ more
  /\ Sends(request, "page", cursor, filter, term)
  /\ doubled' = (doubled \/ \E r \in Slots : request[r].op = "page" /\ request[r].live)
  /\ UNCHANGED <<server, list, cursor, more, filter, term, timer, found, overtaken>>

\* The panel's deletion of a history: the server clears the row, then
\* handleDeleteHistory clears the entry and calls init.
DeleteHistory(c) ==
  /\ Acts
  /\ row' = [row EXCEPT ![c] = [at |-> 0, pinned |-> FALSE]]
  /\ pending' = {m \in pending : m.conv # c}
  /\ deleting' = deleting \cup {c}
  /\ UNCHANGED <<clock, list, cursor, more, fetching, filter, term, timer, request, history>>

HistoryDeleted(c) ==
  /\ c \in deleting /\ deleting' = deleting \ {c}
  /\ list' = [d \in DOMAIN list |-> IF d = c THEN 0 ELSE list[d]]
  /\ cursor' = Top
  /\ Sends(Aborted, "page", Top, filter, term)
  /\ overtaken' = (IF doubled THEN Convs ELSE overtaken \cup {c}) /\ doubled' = FALSE
  /\ UNCHANGED <<row, pending, clock, events, more, filter, term, timer, acts, found>>

-----------------------------------------------------------------------------
(* The server.                                                              *)

PageOnly == UNCHANGED <<list, cursor, more, fetching, filter, term, timer>>

\* A message: its event goes to the page, its row is written in the background.
\* That two such writes may cross is the subject of Conversations.
Post(c) ==
  /\ clock < Cardinality(Convs) + MaxPosts /\ clock' = clock + 1
  /\ events' = events \cup {[conv |-> c, at |-> clock']}
  /\ pending' = pending \cup {[conv |-> c, at |-> clock']}
  /\ PageOnly /\ UNCHANGED <<row, deleting, request, acts, history>>

First(m, messages) == m \in messages /\ \A n \in messages : m.at <= n.at
WriteRow ==
  /\ \E m \in pending :
       /\ First(m, pending) /\ pending' = pending \ {m}
       /\ row' = [row EXCEPT ![m.conv].at = m.at]
  /\ PageOnly /\ UNCHANGED <<clock, events, deleting, request, acts, history>>

\* A preference set elsewhere.  The pages to come list no pinned row, so one
\* that is pinned before it was loaded stays out until the first page is read.
Pin(c) ==
  /\ Acts
  /\ row' = [row EXCEPT ![c].pinned = ~@]
  /\ request' = [r \in Slots |->
       IF request[r].pc \in {"half", "down"} /\ c \notin DOMAIN request[r].page
       THEN [request[r] EXCEPT !.behind = @ \cup {c}] ELSE request[r]]
  /\ overtaken' = IF c \in DOMAIN list THEN overtaken ELSE overtaken \cup {c}
  /\ PageOnly /\ UNCHANGED <<pending, clock, deleting, found, doubled>>

Asked(r, c) ==
  /\ request[r].filter = "group" => c \in Groups
  /\ request[r].filter = "direct" => c \notin Groups
  /\ request[r].term => c \in Hits

Over(f, g) == [c \in DOMAIN f \cup DOMAIN g |-> IF c \in DOMAIN f THEN f[c] ELSE g[c]]
Page(cs) == [c \in cs |-> row[c].at]

\* What the page knows of already although the row does not.
Unwritten == {m.conv : m \in pending \ events}

\* The pinned rows, on the first page only.
ReadPinned(r) ==
  /\ request[r].pc = "up"
  /\ request' = [request EXCEPT ![r].pc = "half", ![r].behind = Unwritten,
       ![r].page = Page({c \in Convs : Asked(r, c) /\ row[c].pinned /\ request[r].from = Top})]
  /\ PageOnly /\ UNCHANGED <<server, events, acts, history>>

Later(c, d) == row[c].at > row[d].at \/ (row[c].at = row[d].at /\ c > d)

\* Rows after the cursor; null compares with no time.
After(c, from) ==
  from = Top \/ (row[c].at # 0 /\ (row[c].at < from[1] \/ (row[c].at = from[1] /\ c < from[2])))

\* A search has a limit that no user meets.
FirstOf(r, rest) ==
  {c \in rest : request[r].op = "search" \/ Cardinality({d \in rest : Later(d, c)}) < Limit}

\* encodeCursor: a row without a message makes none.
Encoded(c) == IF row[c].at = 0 THEN Top ELSE <<row[c].at, c>>

\* The rest, one row more than the page to see whether there is more.
ReadRows(r) ==
  LET rest == {c \in Convs : Asked(r, c) /\ ~row[c].pinned /\ After(c, request[r].from)}
      first == FirstOf(r, rest)
      last == CHOOSE c \in first : \A d \in first : ~Later(c, d)
  IN
  /\ request[r].pc = "half"
  /\ request' = [request EXCEPT ![r].pc = "down",
       ![r].page = Over(@, Page(first)), ![r].behind = @ \cup Unwritten,
       ![r].more = first # rest, ![r].next = IF first = rest THEN Top ELSE Encoded(last)]
  /\ PageOnly /\ UNCHANGED <<server, events, acts, history>>

-----------------------------------------------------------------------------
(* The page hears.                                                          *)

Done(r) == request' = [request EXCEPT ![r] = Idle]

\* Mutant: the page is appended whatever the cursor was.
ArrivedAppended(r) == Over(list, request[r].page)

\* The first page replaces the list, another one is appended without doubles.
\* Which of them it is shows in the cursor of now, not in the one it was asked for.
Arrived(r) == IF cursor = Top THEN request[r].page ELSE Over(list, request[r].page)

PageArrives(r) ==
  /\ request[r].op = "page" /\ request[r].pc = "down" /\ request[r].live
  /\ list' = Arrived(r)
  /\ cursor' = request[r].next /\ more' = request[r].more /\ fetching' = FALSE
  /\ overtaken' = IF cursor = Top THEN request[r].behind ELSE overtaken
  /\ Done(r)
  /\ found' = (found /\ cursor # Top)
  /\ UNCHANGED <<server, events, filter, term, timer, acts, doubled>>

\* finally of a request that was aborted, however late it runs.
AbortedEnds(r) ==
  /\ request[r].op = "page" /\ ~request[r].live
  /\ fetching' = FALSE /\ Done(r)
  /\ UNCHANGED <<server, events, list, cursor, more, filter, term, timer, acts, history>>

\* What the list has stays as it is.
SearchArrives(r) ==
  /\ request[r].op = "search" /\ request[r].pc = "down"
  /\ list' = Over(list, request[r].page) /\ fetching' = FALSE /\ Done(r)
  /\ found' = TRUE /\ overtaken' = overtaken \cup request[r].behind
  /\ UNCHANGED <<server, events, cursor, more, filter, term, timer, acts, doubled>>

Fails(r) ==
  /\ Acts
  /\ request[r].live /\ request[r].pc = "up"
  /\ fetching' = FALSE /\ Done(r)
  /\ UNCHANGED <<server, list, cursor, more, filter, term, timer, history>>

\* handleSocketMessage: the preview at once, a new entry if there is none.
Shows(event) ==
  [c \in DOMAIN list \cup {event.conv} |-> IF c = event.conv THEN event.at ELSE list[c]]

HandleMessage ==
  /\ \E event \in events :
       /\ First(event, events) /\ events' = events \ {event}
       /\ list' = Shows(event)
       /\ request' = [r \in Slots |->
            IF /\ request[r].pc \in {"half", "down"}
               /\ event.conv \in DOMAIN request[r].page => request[r].page[event.conv] < event.at
            THEN [request[r] EXCEPT !.behind = @ \cup {event.conv}] ELSE request[r]]
  /\ UNCHANGED <<server, cursor, more, fetching, filter, term, timer, acts, history>>

-----------------------------------------------------------------------------

Next ==
  \/ \E kind \in Filters : SetFilter(kind)
  \/ Type \/ Debounced \/ ClearTerm \/ LoadMore
  \/ \E c \in Convs : DeleteHistory(c) \/ HistoryDeleted(c) \/ Post(c) \/ Pin(c)
  \/ WriteRow \/ HandleMessage
  \/ \E r \in Slots : \/ ReadPinned(r) \/ ReadRows(r) \/ PageArrives(r) \/ AbortedEnds(r)
                      \/ SearchArrives(r) \/ Fails(r)

Spec == Init /\ [][Next]_vars

-----------------------------------------------------------------------------
(* Properties.                                                              *)

Cursors == {Top} \cup (Times \ {0}) \X Convs
PartialLists == UNION {[S -> Times] : S \in SUBSET Convs}

\* Every variable keeps its shape.
TypeOK ==
  /\ row \in [Convs -> [at : Times, pinned : BOOLEAN]]
  /\ pending \cup events \subseteq [conv : Convs, at : Times]
  /\ clock \in Times /\ deleting \subseteq Convs
  /\ list \in PartialLists /\ cursor \in Cursors /\ more \in BOOLEAN /\ fetching \in BOOLEAN
  /\ filter \in Filters /\ term \in BOOLEAN /\ timer \in BOOLEAN
  /\ \A r \in Slots :
       /\ request[r].op \in {"none", "page", "search"}
       /\ request[r].pc \in {"idle", "up", "half", "down"}
       /\ request[r].live \in BOOLEAN /\ request[r].from \in Cursors
       /\ request[r].filter \in Filters /\ request[r].term \in BOOLEAN
       /\ request[r].page \in PartialLists /\ request[r].next \in Cursors
       /\ request[r].more \in BOOLEAN /\ request[r].behind \subseteq Convs
  /\ found \in BOOLEAN /\ doubled \in BOOLEAN /\ overtaken \subseteq Convs

Quiet == pending = {} /\ events = {} /\ deleting = {} /\ \A r \in Slots : request[r].pc = "idle"
InFilter(c) == /\ filter = "group" => c \in Groups
               /\ filter = "direct" => c \notin Groups
\* getDisplayedConversations hides what has no message and is not pinned.
Worthy(c) == row[c].pinned \/ row[c].at # 0
Loaded(c) == ~more \/ (cursor # Top /\ (row[c].pinned \/ ~After(c, cursor)))

\* When nothing is under way, every conversation of the part of the list that has
\* been loaded is in it, under its newest message - through pages that are read
\* while rows move between them, and requests aborted, superseded or failed -
\* unless two live requests for pages were under way at once, which the guard
\* of loadMore means to prevent (a deletion that finds the list so starts again,
\* but keeps what it had until a first page arrives), and except where an event
\* or a change crossed a first page that was read before it and arrived after
\* it.  (A conversation without a message may still show one that was deleted.)
ListWhole ==
  Quiet /\ ~term /\ ~doubled =>
    \A c \in Convs \ overtaken :
      Worthy(c) /\ InFilter(c) /\ Loaded(c) =>
        c \in DOMAIN list /\ row[c].at \in {0, list[c]}

\* After a search that no first page has run over since, every hit of the filter
\* is in the list.
SearchWhole ==
  Quiet /\ term /\ found /\ ~doubled =>
    \A c \in Hits \ overtaken : InFilter(c) => c \in DOMAIN list
=============================================================================
