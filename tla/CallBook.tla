------------------------------ MODULE CallBook ------------------------------
(***************************************************************************)
(* What one user's page shows of the call history: the badge of missed     *)
(* calls, counted from socket events and from GET /calls/missed, and the   *)
(* paged list of the history modal.  The server's records, the events on   *)
(* their way and every request under way are modelled; the records of      *)
(* other users are not, and neither are toasts, tabs and the search.       *)
(***************************************************************************)
EXTENDS Naturals, FiniteSets, Sequences, SequencesExt

CONSTANTS
  MaxCalls,     \* records created in a run
  Limit,        \* page size of GET /calls/history
  MaxOpens,     \* times the modal is opened
  MaxTroubles   \* failed requests, lost connections and foreign refreshes

VARIABLES
  calls,      \* the records of the user, oldest first
  inbox,       \* events on their way to the page, oldest first
  conn,       \* whether the socket is connected
  badge,      \* missedCount
  processed,  \* processedCallIds
  fetch,      \* the request for the missed count; clean: nothing crossed it
  marks,      \* requests to mark all as read under way; clean likewise
  off,        \* history: what the badge was last set by was crossed
  modal,      \* [open, list, cursor, more] of the modal
  pageRequest,       \* its page request
  askedFrom,      \* history: the newest call when the modal last asked from the top
  opens, troubles

book == <<modal, pageRequest, askedFrom>>
count == <<badge, processed, fetch, marks, off>>
bounds == <<opens, troubles>>
vars == <<calls, inbox, conn, count, book, bounds>>

Ids == 1..Len(calls)
Unreads == {"missed", "unreachable"}  \* and rejected and busy, like missed
Unread == {c \in Ids : /\ calls[c].dir = "incoming" /\ calls[c].status \in Unreads
                       /\ ~calls[c].read}

NoFetch == [pc |-> "none", found |-> 0, clean |-> FALSE]
Asked == [NoFetch EXCEPT !.pc = "asked"]
NoPage == [pc |-> "none", reset |-> FALSE, ids |-> <<>>, more |-> FALSE]

NewModal == [open |-> FALSE, list |-> <<>>, cursor |-> 0, more |-> TRUE]

(* The page mounts, and asks for the count. *)
Init ==
  /\ calls = <<>> /\ inbox = <<>> /\ conn = TRUE
  /\ badge = 0 /\ processed = {} /\ fetch = Asked
  /\ marks = [sent |-> 0, clean |-> TRUE] /\ off = FALSE
  /\ modal = NewModal
  /\ pageRequest = NoPage /\ askedFrom = 0 /\ opens = 0 /\ troubles = 0

Trouble == troubles < MaxTroubles /\ troubles' = troubles + 1

(* Something changes that a count or a marking under way may miss. *)
Cross ==
  /\ fetch' = IF fetch.pc = "served" THEN [fetch EXCEPT !.clean = FALSE] ELSE fetch
  /\ marks' = [marks EXCEPT !.clean = (marks.sent = 0)]

-----------------------------------------------------------------------------
(* The server *)

NewCall(dir) == [dir |-> dir, status |-> "pending", read |-> FALSE]
Start(dir) ==
  /\ Len(calls) < MaxCalls
  /\ calls' = Append(calls, NewCall(dir))
  /\ UNCHANGED <<inbox, conn, count, book, bounds>>

Pending(c) == calls[c].status = "pending"
End(c, status) == calls' = [calls EXCEPT ![c].status = status]

(* A finalized call is announced twice in one go, by callHistorySync and,  *)
(* if its log message could be written, by callLogMessage.                 *)
LogEvents(c, logged) == IF logged THEN <<[kind |-> "log", call |-> c]>> ELSE <<>>
Finalize(c, status, logged) ==
  /\ Pending(c)
  /\ End(c, status)
  /\ inbox' = IF conn THEN inbox \o <<[kind |-> "sync", call |-> c]>> \o LogEvents(c, logged)
             ELSE inbox
  /\ Cross
  /\ off' = (off \/ (~conn /\ c \in Unread'))
  /\ UNCHANGED <<conn, badge, processed, book, bounds>>

(* The cleanup job ends calls without a word (and so does glare            *)
(* resolution, as missed, which counts alike).                             *)
EndSilently(c) ==
  /\ Pending(c)
  /\ End(c, "unreachable")
  /\ Cross
  /\ off' = (off \/ c \in Unread')
  /\ UNCHANGED <<inbox, conn, badge, processed, book, bounds>>

-----------------------------------------------------------------------------
(* The badge *)

\* Mutant: the record counted is not remembered.
CountedAgain(c) == badge' = badge + 1 /\ UNCHANGED processed
Counted(c) == badge' = badge + 1 /\ processed' = processed \cup {c}

(* Both events carry the status and the direction of the record.  The log  *)
(* message has no direction: its sender is the caller.                     *)
Counts(c) == calls[c].dir = "incoming" /\ calls[c].status \in Unreads /\ c \notin processed
Deliver ==
  /\ inbox # <<>>
  /\ LET c == Head(inbox).call IN
     IF Counts(c) THEN Counted(c) ELSE UNCHANGED <<badge, processed>>
  /\ inbox' = Tail(inbox)
  /\ Cross
  /\ UNCHANGED <<calls, conn, off, book, bounds>>

Drop ==
  /\ conn /\ Trouble
  /\ conn' = FALSE /\ inbox' = <<>>
  /\ off' = (off \/ inbox # <<>>)
  /\ UNCHANGED <<calls, badge, processed, fetch, marks, book, opens>>

(* isFetchingRef: one count at a time, a further wish is forgotten. *)
Ask == fetch' = IF fetch.pc = "none" THEN Asked ELSE fetch

Connect ==
  /\ ~conn /\ conn' = TRUE
  /\ Ask
  /\ UNCHANGED <<calls, inbox, badge, processed, marks, off, book, bounds>>

(* auth-changed, or another tab writes to the storage. *)
Refresh ==
  /\ Trouble /\ Ask
  /\ UNCHANGED <<calls, inbox, conn, badge, processed, marks, off, book, opens>>

CountMissed ==
  /\ fetch.pc = "asked"
  /\ fetch' = [pc |-> "served", found |-> Cardinality(Unread),
               clean |-> inbox = <<>> /\ marks.sent = 0]
  /\ UNCHANGED <<calls, inbox, conn, badge, processed, marks, off, book, bounds>>

Hydrate ==
  /\ fetch.pc = "served"
  /\ badge' = fetch.found
  /\ off' = ~fetch.clean
  /\ fetch' = NoFetch
  /\ marks' = [marks EXCEPT !.clean = (marks.sent = 0)]
  /\ UNCHANGED <<calls, inbox, conn, processed, book, bounds>>

HydrateFails ==
  /\ fetch.pc # "none" /\ Trouble
  /\ fetch' = NoFetch
  /\ UNCHANGED <<calls, inbox, conn, badge, processed, marks, off, book, opens>>

(* POST /calls/read-all, sent when the modal opens and never looked after. *)
MarkAll ==
  /\ marks.sent > 0
  /\ calls' = [c \in Ids |-> IF c \in Unread THEN [calls[c] EXCEPT !.read = TRUE] ELSE calls[c]]
  /\ marks' = [sent |-> marks.sent - 1, clean |-> marks.sent = 1]
  /\ off' = ~(marks.clean /\ fetch.pc # "served" /\ marks.sent = 1)
  /\ fetch' = IF fetch.pc = "served" THEN [fetch EXCEPT !.clean = FALSE] ELSE fetch
  /\ UNCHANGED <<inbox, conn, badge, processed, book, bounds>>

MarkFails ==
  /\ marks.sent > 0 /\ Trouble
  /\ marks' = [sent |-> marks.sent - 1, clean |-> marks.sent = 1]
  /\ off' = TRUE
  /\ UNCHANGED <<calls, inbox, conn, badge, processed, fetch, book, opens>>

-----------------------------------------------------------------------------
(* The modal *)

Fetching == pageRequest.pc # "none"
AskPage(reset) == pageRequest' = [NoPage EXCEPT !.pc = "asked", !.reset = reset]

(* Opening clears the badge, asks for the newest page unless a page is     *)
(* still under way, and marks everything as read.                          *)
Open ==
  /\ ~modal.open /\ opens < MaxOpens /\ opens' = opens + 1
  /\ modal' = [modal EXCEPT !.open = TRUE]
  /\ badge' = 0
  /\ marks' = [sent |-> marks.sent + 1, clean |-> inbox = <<>> /\ marks.sent = 0]
  /\ fetch' = IF fetch.pc = "served" THEN [fetch EXCEPT !.clean = FALSE] ELSE fetch
  /\ IF Fetching THEN UNCHANGED pageRequest ELSE AskPage(TRUE)
  /\ UNCHANGED <<calls, inbox, conn, processed, off, askedFrom, troubles>>

Close ==
  /\ modal.open
  /\ modal' = [modal EXCEPT !.open = FALSE]
  /\ UNCHANGED <<calls, inbox, conn, count, pageRequest, askedFrom, bounds>>

Scroll ==
  /\ modal.open /\ modal.more /\ ~Fetching
  /\ modal.cursor # 0 \/ modal.list # <<>>
  /\ AskPage(FALSE)
  /\ UNCHANGED <<calls, inbox, conn, count, modal, askedFrom, bounds>>

(* Records are known by their age: those below the cursor, or all of them. *)
Older(cursor) == IF cursor = 0 THEN Len(calls) ELSE cursor - 1

(* Newest first, one record more than the page is read to know of others. *)
ServePage ==
  /\ pageRequest.pc = "asked"
  /\ LET older == Older(IF pageRequest.reset THEN 0 ELSE modal.cursor)
         size == IF older > Limit THEN Limit ELSE older
     IN pageRequest' = [pageRequest EXCEPT !.pc = "served", !.more = older > Limit,
                             !.ids = [i \in 1..size |-> older + 1 - i]]
  /\ askedFrom' = IF pageRequest.reset THEN Len(calls) ELSE askedFrom
  /\ UNCHANGED <<calls, inbox, conn, count, modal, bounds>>

(* Those of the page that the list does not have. *)
Fresh(ids) ==
  LET fresh[n \in 0..Len(ids)] ==
        IF n = 0 THEN <<>>
        ELSE IF Contains(modal.list, ids[n]) THEN fresh[n - 1] ELSE Append(fresh[n - 1], ids[n])
  IN fresh[Len(ids)]

Merged == IF pageRequest.reset THEN pageRequest.ids ELSE modal.list \o Fresh(pageRequest.ids)

PageArrives ==
  /\ pageRequest.pc = "served"
  /\ modal' = [modal EXCEPT !.list = Merged, !.more = pageRequest.more,
                            !.cursor = IF pageRequest.ids # <<>> THEN Last(pageRequest.ids)
                                       ELSE IF pageRequest.reset THEN 0 ELSE @]
  /\ pageRequest' = NoPage
  /\ UNCHANGED <<calls, inbox, conn, count, askedFrom, bounds>>

PageFails ==
  /\ Fetching /\ Trouble
  /\ pageRequest' = NoPage
  /\ askedFrom' = IF pageRequest.reset /\ pageRequest.pc = "served" THEN 0 ELSE askedFrom
  /\ UNCHANGED <<calls, inbox, conn, count, modal, opens>>

-----------------------------------------------------------------------------
Server ==
  \/ \E dir \in {"incoming", "outgoing"} : Start(dir)
  \/ \E c \in Ids : \/ \E status \in {"missed", "completed"}, logged \in BOOLEAN : Finalize(c, status, logged)
                    \/ EndSilently(c)

Badge ==
  \/ Deliver \/ Drop \/ Connect \/ Refresh \/ CountMissed \/ Hydrate \/ HydrateFails
  \/ MarkAll \/ MarkFails

Modal == Open \/ Close \/ Scroll \/ ServePage \/ PageArrives \/ PageFails

Next == Server \/ Badge \/ Modal

Spec == Init /\ [][Next]_vars

-----------------------------------------------------------------------------
(* Properties *)

TypeOK ==
  /\ calls \in Seq([dir : {"incoming", "outgoing"}, read : BOOLEAN,
                    status : {"pending", "completed"} \cup Unreads])
  /\ inbox \in Seq([kind : {"sync", "log"}, call : Ids])
  /\ conn \in BOOLEAN /\ badge \in Nat /\ processed \subseteq Ids
  /\ fetch \in [pc : {"none", "asked", "served"}, found : Nat, clean : BOOLEAN]
  /\ marks \in [sent : 0..MaxOpens, clean : BOOLEAN] /\ off \in BOOLEAN
  /\ modal \in [open : BOOLEAN, list : Seq(Ids), cursor : 0..Len(calls), more : BOOLEAN]
  /\ pageRequest \in [pc : {"none", "asked", "served"}, reset : BOOLEAN, ids : Seq(Ids), more : BOOLEAN]
  /\ askedFrom \in 0..Len(calls) /\ opens \in 0..MaxOpens /\ troubles \in 0..MaxTroubles

(* When nothing is under way the badge shows as many calls as GET          *)
(* /calls/missed counts, though every call is announced by two events and  *)
(* counted by requests as well.  It may be off only from the moment a call *)
(* ended without a word or an event was lost, a count was crossed by an    *)
(* event, a call or a marking, or a marking by one of these, until the     *)
(* next count or marking that nothing crosses.                             *)
BadgeExact ==
  inbox = <<>> /\ fetch.pc = "none" /\ marks.sent = 0 /\ ~off => badge = Cardinality(Unread)

(* The modal's list has no gap, no duplicate and no disorder, whichever    *)
(* pages were asked for, failed, or arrived after the modal was closed and *)
(* opened again; at its end it reaches the oldest call; and no page that   *)
(* arrives late takes back the newest calls it already showed.             *)
HistoryWhole ==
  LET n == Len(modal.list) IN
  /\ \A i \in 1..(n - 1) : modal.list[i] = modal.list[i + 1] + 1
  /\ n > 0 => modal.cursor = modal.list[n] /\ (~modal.more <=> modal.list[n] = 1)
  /\ pageRequest.pc = "none" /\ askedFrom # 0 => modal.list[1] = askedFrom
=============================================================================
