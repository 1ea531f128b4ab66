---------------------------- MODULE CallWindows ----------------------------
(***************************************************************************)
(* The calls of one user as the windows of one browser see them: the main  *)
(* window, which rings, and the call window, in which a call is made or    *)
(* answered.  Each has a CallProvider and a socket of its own; they share  *)
(* localStorage, in which the running call is remembered by its id and its *)
(* partner.  The server's record of a call goes from pending to answered   *)
(* to ended (CallLifecycle says how); its events to a window arrive in     *)
(* order and may be late.  Glare, media and failures of devices are left   *)
(* out.                                                                    *)
(***************************************************************************)
EXTENDS Naturals, Integers, FiniteSets, Sequences, SequencesExt

CONSTANTS
  Peers,      \* users who call and are called
  Nobody,
  MaxCalls    \* calls made and received in a run

Windows == {"main", "page"}

VARIABLES
  rec,     \* the server's records: [peer, dir, state] per call
  again,   \* ends whose Redis fallback is still to announce them once more
  wire,    \* per window: the events on their way
  store,   \* localStorage: [partner, caller, signal, id, start]
  win,     \* per window: [view, accepted, ended, ring, link, listens, told]
  page,    \* the call window: [pc, dir, who, call, joined, bound, timer]
  left,    \* history: calls this user has turned down, cancelled or hung up
  taken,   \* history: calls whose notification the user has acted upon
  mixed    \* history: a call began before everything of the others was over

vars == <<rec, again, wire, store, win, page, left, taken, mixed>>

Calls == 1..Len(rec)
Live(c) == rec[c].state # "ended"

NoStore == [partner |-> Nobody, caller |-> Nobody, signal |-> 0, id |-> 0, start |-> "none"]
Blank == [view |-> "idle", accepted |-> FALSE, ended |-> FALSE, ring |-> 0, link |-> 0,
          listens |-> FALSE, told |-> FALSE]
NoPage == [pc |-> "closed", dir |-> "none", who |-> Nobody, call |-> 0, joined |-> FALSE,
           bound |-> 0, timer |-> FALSE]

Init ==
  /\ rec = <<>> /\ again = {} /\ wire = [w \in Windows |-> <<>>]
  /\ store = NoStore /\ win = [w \in Windows |-> Blank] /\ page = NoPage
  /\ left = {} /\ taken = {} /\ mixed = FALSE

-----------------------------------------------------------------------------
(* The server: its rooms, its records, and what the other side does. *)

Connected == IF page.pc = "open" THEN Windows ELSE {"main"}
Ev(k, c) == [kind |-> k, call |-> c]
Send(evs) == [w \in Windows |-> IF w \in Connected THEN wire[w] \o evs ELSE <<>>]

(* Everything of every earlier call is over, its window is closed. *)
Quiet ==
  /\ \A c \in Calls : ~Live(c)
  /\ again = {} /\ page.call = 0
  /\ \A w \in Windows : wire[w] = <<>> /\ ~win[w].told /\ win[w].link = 0 /\ ~win[w].accepted

New(x, dir) ==
  /\ Len(rec) < MaxCalls
  /\ rec' = Append(rec, [peer |-> x, dir |-> dir, state |-> "pending"])
  /\ mixed' = (mixed \/ ~Quiet)

(* The server meets no reverse call: glare is left out. *)
Offer(x) ==
  /\ \A c \in Calls : rec[c].peer = x => ~Live(c)
  /\ New(x, "in")
  /\ wire' = Send(<<Ev("offer", Len(rec'))>>)
  /\ UNCHANGED <<again, store, win, page, left, taken>>

EndRec(c) == rec' = [rec EXCEPT ![c].state = "ended"]
Pending(c, dir) == rec[c].dir = dir /\ rec[c].state = "pending"

PeerCancels(c) ==
  /\ Pending(c, "in") /\ EndRec(c)
  /\ wire' = Send(<<Ev("ended", c)>>)
  /\ UNCHANGED <<again, store, win, page, left, taken, mixed>>

Timeout(c) ==
  /\ rec[c].state = "pending" /\ EndRec(c)
  /\ wire' = Send(<<Ev("timeout", c)>>)
  /\ UNCHANGED <<again, store, win, page, left, taken, mixed>>

PeerAccepts(c) ==
  /\ Pending(c, "out")
  /\ rec' = [rec EXCEPT ![c].state = "answered"]
  /\ wire' = Send(<<Ev("accepted", c)>>)
  /\ UNCHANGED <<again, store, win, page, left, taken, mixed>>

(* Both ways the participants are told in their rooms, and again once the  *)
(* sockets of both users have been read from Redis.                        *)
PeerRejects(c) ==
  /\ Pending(c, "out") /\ EndRec(c)
  /\ wire' = Send(<<Ev("ended", c), Ev("rejected", c)>>)
  /\ again' = again \cup {c}
  /\ UNCHANGED <<store, win, page, left, taken, mixed>>

PeerHangsUp(c) ==
  /\ rec[c].state = "answered" /\ EndRec(c)
  /\ wire' = Send(<<Ev("ended", c)>>)
  /\ again' = again \cup {c}
  /\ UNCHANGED <<store, win, page, left, taken, mixed>>

AnnounceAgain(c) ==
  /\ again' = again \ {c}
  /\ wire' = Send(<<Ev("ended", c)>>)
  /\ UNCHANGED <<rec, store, win, page, left, taken, mixed>>

(* What the server does with rejectCall and endCall of this user.  A       *)
(* temporary id (negative) is mapped to its record.  A cancelled call is   *)
(* over for the callee's windows only, any other for both participants'.   *)
Named(id) == IF id < 0 THEN -id ELSE id
Ends(id) == Named(id) \in Calls /\ Live(Named(id))
Request(op, id) ==
  /\ rec' = IF Ends(id) THEN [rec EXCEPT ![Named(id)].state = "ended"] ELSE rec
  /\ again' = IF Ends(id) /\ op # "cancel" THEN again \cup {Named(id)} ELSE again
Told(op, id) ==
  IF Ends(id) /\ (op # "cancel" \/ rec[Named(id)].dir = "in") THEN <<Ev("ended", Named(id))>> ELSE <<>>
NoRequest == UNCHANGED <<rec, again>>
Leaving(c) == left' = left \cup ({c} \cap Calls)

-----------------------------------------------------------------------------
(* What the windows share *)

\* Mutant: the view is cleared and the call stays accepted.
CleanedKeepsAccepted(r) == [r EXCEPT !.view = "idle", !.ended = TRUE, !.ring = 0, !.link = 0]
Cleaned(r) == [Blank EXCEPT !.ended = TRUE, !.listens = r.listens, !.told = r.told]

Other(w) == IF w = "main" THEN "page" ELSE "main"

(* The other window hears that the start time was removed. *)
Telling(w, wins) ==
  IF store.start # "none" /\ page.pc # "closed" THEN [wins EXCEPT ![Other(w)].told = TRUE] ELSE wins
Cleanup(w) == store' = NoStore /\ win' = Telling(w, [win EXCEPT ![w] = Cleaned(@)])

(* leaveCall: what it asks of the server depends on the storage alone, the *)
(* request on whether the call is shown as accepted.                       *)
CanLeave == (store.partner # Nobody \/ store.caller # Nobody) /\ store.id # 0
LeaveOp == IF win["page"].accepted THEN "end" ELSE "cancel"
Leave ==
  /\ IF CanLeave THEN Request(LeaveOp, store.id) /\ wire' = Send(Told(LeaveOp, store.id))
                 ELSE NoRequest /\ UNCHANGED wire
  /\ Cleanup("page")

(* rejectCall: it names the id of the storage, not that of the window. *)
RejectCall(w) ==
  /\ IF store.caller # Nobody THEN Request("reject", store.id) /\ wire' = Send(Told("reject", store.id))
                              ELSE NoRequest /\ UNCHANGED wire
  /\ Cleanup(w)

-----------------------------------------------------------------------------
(* What the user does *)

(* A call is begun in the chat, or the notification is answered: both open *)
(* the call window, one at a time here.                                    *)
CallFromChat(x) ==
  /\ page.pc = "closed"
  /\ page' = [NoPage EXCEPT !.pc = "opening", !.dir = "out", !.who = x]
  /\ store' = [store EXCEPT !.partner = x]
  /\ UNCHANGED <<rec, again, wire, win, left, taken, mixed>>

HandleAnswer ==
  LET c == win["main"].ring IN
  /\ c # 0 /\ page.pc = "closed"
  /\ store' = [store EXCEPT !.signal = c, !.caller = rec[c].peer, !.id = c]
  /\ page' = [NoPage EXCEPT !.pc = "opening", !.dir = "in", !.who = rec[c].peer, !.call = c]
  /\ win' = [win EXCEPT !["main"].ring = 0]
  /\ taken' = taken \cup {c}
  /\ UNCHANGED <<rec, again, wire, left, mixed>>

(* The window has its socket; an incoming call's id is stored once more. *)
Loaded ==
  /\ page.pc = "opening"
  /\ page' = [page EXCEPT !.pc = "open"]
  /\ store' = IF page.dir = "in" /\ store.caller # Nobody /\ store.signal # 0
              THEN [store EXCEPT !.id = page.call] ELSE store
  /\ UNCHANGED <<rec, again, wire, win, left, taken, mixed>>

CanJoin == page.pc = "open" /\ ~page.joined /\ ~win["page"].ended

JoinOutgoing ==
  LET c == Len(rec) + 1 IN
  /\ CanJoin /\ page.dir = "out"
  /\ \A d \in Calls : rec[d].peer = page.who => ~Live(d)
  /\ New(page.who, "out")
  /\ store' = [store EXCEPT !.partner = page.who, !.id = -c, !.start = "fresh"]
  /\ page' = [page EXCEPT !.call = c, !.joined = TRUE, !.bound = c]
  /\ win' = [win EXCEPT !["page"] = [Blank EXCEPT !.view = "calling", !.link = c, !.listens = TRUE,
                                                  !.told = win["page"].told]]
  /\ wire' = Send(<<Ev("created", c)>>)
  /\ UNCHANGED <<again, left, taken>>

(* answerCall: without the stored signal and caller it gives up.  The      *)
(* server binds the socket and accepts whether or not the call is over.    *)
JoinIncoming ==
  LET c == store.id IN
  /\ CanJoin /\ page.dir = "in" /\ store.signal # 0 /\ store.caller # Nobody
  /\ store' = [store EXCEPT !.partner = store.caller]
  /\ win' = [win EXCEPT !["page"] = [@ EXCEPT !.view = "connected", !.accepted = TRUE, !.ended = FALSE,
                                              !.link = store.signal]]
  /\ rec' = IF c \in Calls /\ Pending(c, "in") THEN [rec EXCEPT ![c].state = "answered"] ELSE rec
  /\ page' = [page EXCEPT !.joined = TRUE, !.timer = TRUE, !.bound = Named(c)]
  /\ UNCHANGED <<again, wire, left, taken, mixed>>

(* Two seconds after an answer, whatever has been stored by then. *)
ForgetSignal ==
  /\ page.timer
  /\ page' = [page EXCEPT !.timer = FALSE]
  /\ store' = [store EXCEPT !.signal = 0, !.caller = Nobody]
  /\ UNCHANGED <<rec, again, wire, win, left, taken, mixed>>

(* The start of a call is more than ten seconds old. *)
Age ==
  /\ store.start = "fresh"
  /\ store' = [store EXCEPT !.start = "aged"]
  /\ UNCHANGED <<rec, again, wire, win, page, left, taken, mixed>>

Reject ==
  LET c == win["main"].ring IN
  /\ c # 0
  /\ RejectCall("main")
  /\ Leaving(c) /\ taken' = taken \cup {c}
  /\ UNCHANGED <<page, mixed>>

TurnsDown == page.dir = "in" /\ ~page.joined

(* The button of the call window; leaveCall is also what the watchdog and  *)
(* a lost connection do.                                                   *)
Hangup ==
  /\ page.pc = "open" /\ ~win["page"].ended
  /\ IF TurnsDown THEN RejectCall("page") ELSE Leave
  /\ page' = IF (IF TurnsDown THEN store.caller # Nobody ELSE CanLeave) THEN [page EXCEPT !.bound = 0] ELSE page
  /\ Leaving(page.call)
  /\ UNCHANGED <<taken, mixed>>

(* The window is closed: its socket goes, and the server ends the call the *)
(* socket was bound to and tells the partner.  The storage keeps the call. *)
Closing ==
  /\ page' = NoPage
  /\ win' = [IF win["page"].view # "idle" THEN Telling("page", win) ELSE win EXCEPT !["page"] = Blank]
  /\ store' = IF win["page"].view # "idle" THEN [store EXCEPT !.start = "none"] ELSE store
  /\ IF Ends(page.bound) THEN EndRec(page.bound) ELSE UNCHANGED rec
  /\ Leaving(page.bound)
ClosePage ==
  /\ page.pc # "closed" /\ Closing
  /\ wire' = [wire EXCEPT !["page"] = <<>>]
  /\ UNCHANGED <<again, taken, mixed>>

-----------------------------------------------------------------------------
(* What the windows hear *)

HandleStorageChange(w) ==
  /\ win[w].told
  /\ win' = [win EXCEPT ![w] = [(IF @.view # "idle" THEN Cleaned(@) ELSE @) EXCEPT !.told = FALSE]]
  /\ UNCHANGED <<rec, again, wire, store, page, left, taken, mixed>>

Rest(w) == [wire EXCEPT ![w] = Tail(@)]
Head1(w, k) == wire[w] # <<>> /\ wire[w][1].kind = k
Quietly(w) == wire' = Rest(w) /\ UNCHANGED <<rec, again, left, taken, mixed>>

(* An offer: a call window that is not in a call closes itself. *)
OfferCloses ==
  /\ Head1("page", "offer") /\ win["page"].view = "idle"
  /\ Closing
  /\ wire' = [wire EXCEPT !["page"] = <<>>]
  /\ UNCHANGED <<again, taken, mixed>>

(* One from the partner of a young call is taken for glare; the window     *)
(* that does not wait for it does nothing.                                 *)
MayBeGlare(w, c) ==
  /\ store.partner = rec[c].peer
  /\ store.start # "none" \/ win[w].view = "calling"
Heard(w) == Head1(w, "offer") /\ ~(w = "page" /\ win[w].view = "idle")
OfferIgnored(w) ==
  /\ Heard(w) /\ MayBeGlare(w, wire[w][1].call)
  /\ Quietly(w) /\ UNCHANGED <<store, win, page>>

(* The id is stored before the window finds that it is busy, which it only *)
(* does within ten seconds of a call's start.                              *)
Busy(w) == store.start = "fresh" /\ win[w].view \in {"connected", "ringing"}
OfferRejected(w) ==
  LET c == wire[w][1].call IN
  /\ Heard(w) /\ ~MayBeGlare(w, c) /\ Busy(w)
  /\ store' = [store EXCEPT !.id = c]
  /\ Request("reject", c)
  /\ wire' = [v \in Windows |-> IF v \in Connected THEN Rest(w)[v] \o Told("reject", c) ELSE <<>>]
  /\ page' = IF w = "page" THEN [page EXCEPT !.bound = 0] ELSE page
  /\ taken' = taken \cup {c}
  /\ UNCHANGED <<win, left, mixed>>

OfferRings(w) ==
  LET c == wire[w][1].call IN
  /\ Heard(w) /\ (~MayBeGlare(w, c) \/ (store.start = "aged" /\ win[w].view # "calling")) /\ ~Busy(w)
  /\ store' = [store EXCEPT !.signal = c, !.caller = rec[c].peer, !.partner = rec[c].peer, !.id = c]
  /\ win' = [win EXCEPT ![w].view = "ringing", ![w].ended = FALSE, ![w].ring = c]
  /\ Quietly(w) /\ UNCHANGED page

HandleCreated(w) ==
  LET c == wire[w][1].call IN
  /\ Head1(w, "created")
  /\ store' = [store EXCEPT !.id = c, !.partner = rec[c].peer]
  /\ Quietly(w) /\ UNCHANGED <<win, page>>

(* The listener of an outgoing call outlives the call. *)
HandleAccepted(w) ==
  /\ Head1(w, "accepted")
  /\ win' = IF win[w].listens
            THEN [win EXCEPT ![w].accepted = TRUE, ![w].ended = FALSE, ![w].view = "connected",
                             ![w].listens = FALSE]
            ELSE win
  /\ Quietly(w) /\ UNCHANGED <<store, page>>

(* callEnded and callRejected name no call: whatever is shown is over. *)
HandleEnded(w) ==
  /\ Head1(w, "ended") \/ Head1(w, "rejected")
  /\ Cleanup(w)
  /\ Quietly(w) /\ UNCHANGED page

\* Mutant: the comparison of the ids is turned round.
OthersTimeoutSwapped(c) == store.id # 0 /\ store.id = c
OthersTimeout(c) == store.id # 0 /\ store.id # c
HandleTimeout(w) ==
  /\ Head1(w, "timeout")
  /\ IF OthersTimeout(wire[w][1].call) THEN UNCHANGED <<store, win>> ELSE Cleanup(w)
  /\ Quietly(w) /\ UNCHANGED page

Next ==
  \/ \E x \in Peers : Offer(x) \/ CallFromChat(x)
  \/ \E c \in Calls : PeerCancels(c) \/ Timeout(c) \/ PeerAccepts(c) \/ PeerRejects(c) \/ PeerHangsUp(c)
  \/ \E c \in again : AnnounceAgain(c)
  \/ HandleAnswer \/ Loaded \/ JoinOutgoing \/ JoinIncoming \/ ForgetSignal \/ Age
  \/ Reject \/ Hangup \/ ClosePage \/ OfferCloses
  \/ \E w \in Windows :
       \/ HandleStorageChange(w) \/ HandleCreated(w) \/ HandleAccepted(w) \/ HandleEnded(w)
       \/ HandleTimeout(w) \/ OfferIgnored(w) \/ OfferRejected(w) \/ OfferRings(w)

Spec == Init /\ [][Next]_vars

-----------------------------------------------------------------------------
Kinds == {"offer", "created", "accepted", "ended", "rejected", "timeout"}

(* Types of the variables. *)
TypeOK ==
  /\ rec \in Seq([peer : Peers, dir : {"in", "out"}, state : {"pending", "answered", "ended"}])
  /\ again \subseteq Calls /\ left \subseteq Calls /\ taken \subseteq Calls /\ mixed \in BOOLEAN
  /\ wire \in [Windows -> Seq([kind : Kinds, call : Calls])]
  /\ store.partner \in Peers \cup {Nobody} /\ store.caller \in Peers \cup {Nobody}
  /\ store.signal \in Nat /\ store.id \in Int /\ store.start \in {"none", "fresh", "aged"}
  /\ win \in [Windows -> [view : {"idle", "calling", "ringing", "connected"}, accepted : BOOLEAN,
                          ended : BOOLEAN, ring : Nat, link : Nat, listens : BOOLEAN, told : BOOLEAN]]
  /\ page.pc \in {"closed", "opening", "open"} /\ page.bound \in Nat

Coming(w, c) ==
  \/ \E i \in 1..Len(wire[w]) : wire[w][i].kind \in {"ended", "rejected", "timeout"} /\ wire[w][i].call = c
  \/ win[w].told

(* A call window that shows a connected call has that call's connection,   *)
(* which the watchdog watches, and if the call is its own, the record is   *)
(* answered; or the end is on its way to it.                               *)
(* But for a call that was cancelled while its acceptance was under way    *)
(* (the listener that useCallActions registers is never taken off), and    *)
(* for calls that crossed.                                                 *)
CallShown ==
  win["page"].accepted /\ ~mixed =>
    \/ page.call \in left \/ Coming("page", page.call)
    \/ /\ win["page"].link = page.call
       /\ page.dir = "out" => rec[page.call].state = "answered"

(* A notification rings for a call that can still be answered, or whose    *)
(* end is on its way; a call that can still be answered rings until the    *)
(* user has acted upon it: unless calls crossed.                           *)
RingHonest ==
  ~mixed =>
    /\ \A c \in Calls : win["main"].ring = c => rec[c].state = "pending" \/ Coming("main", c)
    /\ \A c \in Calls : Pending(c, "in") /\ c \notin taken =>
         win["main"].ring = c \/ \E i \in 1..Len(wire["main"]) : wire["main"][i] = Ev("offer", c)

(* A call the user has turned down, cancelled or hung up is over on the    *)
(* server, whatever the windows have left in the storage: unless calls     *)
(* crossed.                                                                *)
LeftIsOver == ~mixed => \A c \in left : ~Live(c)
=============================================================================
