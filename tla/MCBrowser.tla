------------------------------ MODULE MCBrowser ------------------------------
(* The session of a browser, its windows in a call, and its call history,  *)
(* three parts that share no state here.  A behaviour is one of one of     *)
(* them, and the variables of the others are Off meanwhile.                *)
EXTENDS Naturals, FiniteSets, TLC

CONSTANTS Users, Registered, Tabs, Slots, Nobody, MaxRequests, MaxLost, MaxExpired,
          SessionTotal, Peers, WindowCalls, BookCalls, Limit, MaxOpens, MaxTroubles, BookTotal,
          Off, ann, bob, tab1, tab2, f1, f2, x, y

ASSUME SessionAssumption ==
  /\ Nobody \notin Users /\ Tabs \cap Slots = {}
  /\ {"checking", "out"} \cap Users = {}
  /\ Registered \subseteq Users
  /\ {MaxRequests, MaxLost, MaxExpired, SessionTotal} \subseteq Nat
ASSUME WindowsAssumption == Nobody \notin Peers /\ WindowCalls \in Nat
ASSUME BookAssumption == /\ {BookCalls, MaxOpens, MaxTroubles, BookTotal} \subseteq Nat
                         /\ Limit \in Nat \ {0}

VARIABLES part,
  pass, google, cookie, tab, flight, links, asked, lost, expired, swapped, ended,
  overlap, respent,
  rec, again, wire, store, win, page, left, taken, mixed,
  calls, inbox, conn, badge, processed, fetch, marks, off, modal, pageRequest,
  askedFrom, opens, troubles

sessionVars == <<pass, google, cookie, tab, flight, links, asked, lost, expired,
                 swapped, ended, overlap, respent>>
windowVars == <<rec, again, wire, store, win, page, left, taken, mixed>>
bookVars == <<calls, inbox, conn, badge, processed, fetch, marks, off, modal,
              pageRequest, askedFrom, opens, troubles>>

S == INSTANCE Session
W == INSTANCE CallWindows WITH MaxCalls <- WindowCalls
B == INSTANCE CallBook WITH MaxCalls <- BookCalls

NoSession ==
  /\ pass = Off /\ google = Off /\ cookie = Off /\ tab = Off /\ flight = Off /\ links = Off
  /\ asked = Off /\ lost = Off /\ expired = Off /\ swapped = Off /\ ended = Off /\ overlap = Off
  /\ respent = Off
NoWindows ==
  /\ rec = Off /\ again = Off /\ wire = Off /\ store = Off /\ win = Off /\ page = Off
  /\ left = Off /\ taken = Off /\ mixed = Off
NoBook ==
  /\ calls = Off /\ inbox = Off /\ conn = Off /\ badge = Off /\ processed = Off /\ fetch = Off
  /\ marks = Off /\ off = Off /\ modal = Off /\ pageRequest = Off /\ askedFrom = Off /\ opens = Off
  /\ troubles = Off

\* What users do and what gets lost or expires, all in all.
SessionBound == asked + lost + expired <= SessionTotal
BookBound == opens + troubles <= BookTotal

Init == \/ part = "session" /\ S!Init /\ NoWindows /\ NoBook
        \/ part = "windows" /\ W!Init /\ NoSession /\ NoBook
        \/ part = "book" /\ B!Init /\ NoSession /\ NoWindows
Next ==
  \/ part = "session" /\ S!Next /\ SessionBound' /\ UNCHANGED <<part, windowVars, bookVars>>
  \/ part = "windows" /\ W!Next /\ UNCHANGED <<part, sessionVars, bookVars>>
  \/ part = "book" /\ B!Next /\ BookBound' /\ UNCHANGED <<part, sessionVars, windowVars>>
Spec == Init /\ [][Next]_<<part, sessionVars, windowVars, bookVars>>

MCUsers == {ann, bob}
MCRegistered == {ann}
MCTabs == {tab1, tab2}
MCSlots == {f1, f2}
MCPeers == {x, y}
Symmetry == Permutations(MCTabs) \cup Permutations(MCSlots) \cup Permutations(MCPeers)

\* What the session may do with a request, through refreshes and lost answers.
RequestsHonest == part = "session" => S!TypeOK /\ S!RequestsHonest

\* A finished sign-out leaves nobody signed in.
SignedOutStays == part = "session" => S!SignedOutStays

\* One reset link changes a password once.
LinkSpentOnce == part = "session" => S!LinkSpentOnce

\* The call window shows the call the server has, a notification rings for a call
\* that can be answered, and what the user has left is over, but for calls that
\* crossed.
WindowsHonest == part = "windows" => W!TypeOK /\ W!CallShown /\ W!RingHonest /\ W!LeftIsOver

\* The badge counts the missed calls nobody has seen, and the history modal
\* shows them in one unbroken run.
BookExact == part = "book" => B!TypeOK /\ B!BadgeExact /\ B!HistoryWhole
=============================================================================
