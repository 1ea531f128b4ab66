------------------------------ MODULE Session ------------------------------
(***************************************************************************)
(* Accounts, sessions and the browser that holds them.  The refresh cookie *)
(* belongs to the browser, the access token to the memory of one tab; the  *)
(* server keeps no session at all, only accounts.  A flight is a request   *)
(* and its answer: each leg of it, and each read or write of the account   *)
(* store, is a step of its own, so requests of both tabs overtake each     *)
(* other.  Models server/src/controllers/authController.js,                *)
(* services/authSessionService.js and middlewares/auth.js with the         *)
(* client's axiosClient.js, AuthProvider.jsx, authBootstrap.js and pages.  *)
(***************************************************************************)
EXTENDS Naturals, FiniteSets

CONSTANTS
  Users,        \* accounts, one e-mail address each
  Registered,   \* those that exist at the start
  Tabs,         \* tabs of one browser; each has a flight for its bootstrap
  Slots,        \* further flights
  Nobody,       \* no user
  MaxRequests,  \* how often a user may act
  MaxLost,      \* how many requests or answers the network may lose
  MaxExpired    \* how often a token, the cookie or a link may expire

VARIABLES
  pass,      \* the current password of each account, 0 before it exists
  google,    \* the accounts a Google sign-in has made
  cookie,    \* the user of the browser's refresh cookie, or Nobody
  tab,       \* per tab: memory token, what AuthProvider shows, page leaving
  flight,    \* the requests in flight
  links,     \* reset links in the mail: the user and the password they are of
  asked, lost, expired,   \* what the bounds count
  swapped,   \* history: the cookie went to another account than a tab shows or
             \* an unanswered request was made under
  ended,     \* history: how the last sign-out went, "no" since a sign-in
  overlap,   \* history: users with two resets between their read and write
  respent    \* history: users whose password an older link has replaced

vars == <<pass, google, cookie, tab, flight, links, asked, lost, expired, swapped,
          ended, overlap, respent>>
accounts == <<pass, google>>
counters == <<asked, lost, expired>>
history == <<swapped, ended, overlap, respent>>

Flights == Tabs \cup Slots
SignIns == {"login", "register", "google"}
Ops == SignIns \cup {"none", "boot", "api", "logout", "forgot", "reset"}
\* as: the account the request is for; asker: the one its tab showed;
\* with: the password typed, or the one a link was made of, or whether a Google
\* sign-in found an account; done: how often the server carried it out.
Idle == [op |-> "none", leg |-> "call", pc |-> "idle", tab |-> Nobody, left |-> FALSE,
         asker |-> Nobody, as |-> Nobody, with |-> 0, again |-> FALSE, done |-> 0, reply |-> "none"]
NoToken == [user |-> Nobody, live |-> FALSE]
FreshPage == [token |-> NoToken, shown |-> "checking", leaving |-> FALSE]

Init ==
  /\ pass = [u \in Users |-> IF u \in Registered THEN 1 ELSE 0]
  /\ google = {} /\ cookie = Nobody
  /\ tab = [t \in Tabs |-> FreshPage]
  /\ flight = [f \in Flights |-> Idle]
  /\ links = {} /\ asked = 0 /\ lost = 0 /\ expired = 0
  /\ swapped = FALSE /\ ended = "no" /\ overlap = {} /\ respent = {}

-----------------------------------------------------------------------------
(* What the user does.                                                      *)

Send(f, request) ==
  /\ flight[f].pc = "idle"
  /\ flight' = [flight EXCEPT ![f] = request]

UserSends(t, request) ==
  /\ asked < MaxRequests /\ asked' = asked + 1
  /\ ~tab[t].leaving
  /\ \E f \in Slots : Send(f, [request EXCEPT !.pc = "up", !.tab = t])
  /\ UNCHANGED <<accounts, cookie, tab, links, lost, expired>>

\* PublicRoute shows the forms only to a tab that is signed out.
SignIn(t, op, u, typed) ==
  /\ tab[t].shown = "out"
  /\ op = "login" => pass[u] > 0 /\ typed \in 1 .. pass[u]
  /\ op # "login" => typed = 0
  /\ UserSends(t, [Idle EXCEPT !.op = op, !.as = u, !.with = typed])
  /\ ended' = "no"
  /\ UNCHANGED <<swapped, overlap, respent>>

Forgot(t, u) ==
  /\ tab[t].shown = "out"
  /\ UserSends(t, [Idle EXCEPT !.op = "forgot", !.as = u])
  /\ UNCHANGED history

UseLink(t, link) ==
  /\ tab[t].shown = "out"
  /\ UserSends(t, [Idle EXCEPT !.op = "reset", !.as = link.user, !.with = link.pass])
  /\ UNCHANGED history

\* The request interceptor attaches the token in memory; one that has expired
\* gets the same kind of answer as none.
Bearer(token) == IF token.live THEN token.user ELSE Nobody

Ask(t) ==
  /\ tab[t].shown \in Users
  /\ UserSends(t, [Idle EXCEPT !.op = "api", !.asker = tab[t].shown,
                               !.as = Bearer(tab[t].token)])
  /\ UNCHANGED history

SignOut(t) ==
  /\ tab[t].shown \in Users
  /\ UserSends(t, [Idle EXCEPT !.op = "logout"])
  /\ UNCHANGED history

\* A page that goes takes its memory along.  The browser drops the answers the
\* page waits for; what the server has not looked at yet it still does.
Abandon(t) ==
  [f \in Flights |->
     IF flight[f].tab # t THEN flight[f]
     ELSE IF flight[f].pc = "down" \/ flight[f].leg = "refresh" THEN Idle
     ELSE [flight[f] EXCEPT !.left = TRUE]]

LoadPage(t) ==
  /\ tab' = [tab EXCEPT ![t] = FreshPage]
  /\ flight' = Abandon(t)
  /\ UNCHANGED <<accounts, cookie, links, lost, expired, history>>

Reload(t) == asked < MaxRequests /\ asked' = asked + 1 /\ LoadPage(t)

\* location.href = "/login" has taken effect.
Unload(t) == tab[t].leaving /\ LoadPage(t) /\ UNCHANGED asked

ExpireToken(t) ==
  /\ expired < MaxExpired /\ expired' = expired + 1
  /\ tab[t].token.live
  /\ tab' = [tab EXCEPT ![t].token.live = FALSE]
  /\ UNCHANGED <<accounts, cookie, flight, links, asked, lost, history>>

\* The cookie's maxAge is the life of the token it holds.
ExpireCookie ==
  /\ expired < MaxExpired /\ expired' = expired + 1
  /\ cookie # Nobody /\ cookie' = Nobody
  /\ UNCHANGED <<accounts, tab, flight, links, asked, lost, history>>

ExpireLink(link) ==
  /\ expired < MaxExpired /\ expired' = expired + 1
  /\ links' = links \ {link}
  /\ UNCHANGED <<accounts, google, cookie, tab, flight, asked, lost, history>>

\* AuthProvider's effect on mount: refresh with whatever cookie there is.
Bootstrap(t) ==
  /\ tab[t].shown = "checking"
  /\ Send(t, [Idle EXCEPT !.op = "boot", !.leg = "refresh", !.pc = "up", !.tab = t,
                          !.as = cookie])
  /\ UNCHANGED <<accounts, cookie, tab, links, counters, history>>

-----------------------------------------------------------------------------
(* The server.                                                              *)

Answer(f, reply) ==
  flight' = [flight EXCEPT ![f] =
    IF @.left THEN Idle ELSE [@ EXCEPT !.pc = "down", !.reply = reply]]

AtServer(f, op, pc) == flight[f].op = op /\ flight[f].pc = pc
ServerOnly == UNCHANGED <<cookie, tab, counters>>

\* verifyToken, and the handler behind it: it may refuse (403) or fail (5xx).
ServeApi(f) ==
  /\ AtServer(f, "api", "up") /\ flight[f].leg = "call"
  /\ \E reply \in (IF flight[f].as = Nobody THEN {"denied"} ELSE {"ok", "denied", "failed"}) :
       LET done == flight[f].done + (IF reply = "ok" THEN 1 ELSE 0) IN
       flight' = [flight EXCEPT ![f] =
         IF @.left THEN Idle ELSE [@ EXCEPT !.pc = "down", !.reply = reply, !.done = done]]
  /\ ServerOnly /\ UNCHANGED <<accounts, links, history>>

\* refresh: no cookie is a 401; the limiter may refuse (429) or be away (503).
ServeRefresh(f) ==
  /\ flight[f].leg = "refresh" /\ flight[f].pc = "up"
  /\ IF flight[f].as = Nobody THEN Answer(f, "denied")
     ELSE \E reply \in {"ok", "failed"} : Answer(f, reply)
  /\ ServerOnly /\ UNCHANGED <<accounts, links, history>>

ServeLogout(f) ==
  /\ AtServer(f, "logout", "up") /\ Answer(f, "ok")
  /\ ServerOnly /\ UNCHANGED <<accounts, links, history>>

\* The read every handler of an account starts with; Go names what lets it on.
ReadAccount(f, op, Go) ==
  /\ AtServer(f, op, "up")
  /\ IF Go THEN flight' = [flight EXCEPT ![f].pc = "saw"] ELSE Answer(f, "failed")
  /\ ServerOnly /\ UNCHANGED <<accounts, links, swapped, ended, respent>>

Exists(f) == pass[flight[f].as] > 0

LoginRead(f) ==
  /\ ReadAccount(f, "login", /\ flight[f].as \notin google
                             /\ flight[f].with = pass[flight[f].as])
  /\ UNCHANGED overlap

RegisterRead(f) == ReadAccount(f, "register", ~Exists(f)) /\ UNCHANGED overlap

\* An address that has an account with a password is refused.
GoogleRead(f) ==
  /\ AtServer(f, "google", "up")
  /\ IF Exists(f) /\ flight[f].as \notin google THEN Answer(f, "failed")
     ELSE flight' = [flight EXCEPT ![f].pc = "saw", ![f].with = IF Exists(f) THEN 1 ELSE 0]
  /\ ServerOnly /\ UNCHANGED <<accounts, links, history>>

\* The saves of a user that exists change activityStatus and the name alone.
SaveSeen(f) ==
  /\ \/ AtServer(f, "login", "saw")
     \/ AtServer(f, "google", "saw") /\ flight[f].with = 1
  /\ Answer(f, "ok")
  /\ ServerOnly /\ UNCHANGED <<accounts, links, history>>

\* The unique index refuses a second account of one address.
CreateAccount(f) ==
  /\ \/ AtServer(f, "register", "saw")
     \/ AtServer(f, "google", "saw") /\ flight[f].with = 0
  /\ IF Exists(f) THEN Answer(f, "failed") /\ UNCHANGED accounts
     ELSE /\ pass' = [pass EXCEPT ![flight[f].as] = 1]
          /\ google' = IF flight[f].op = "google" THEN google \cup {flight[f].as} ELSE google
          /\ Answer(f, "ok")
  /\ ServerOnly /\ UNCHANGED <<links, history>>

\* forgotPassword signs the link with the hash of the password it finds, and
\* answers alike whether there is an account or not.
ServeForgot(f) ==
  /\ AtServer(f, "forgot", "up")
  /\ links' = IF Exists(f)
              THEN links \cup {[user |-> flight[f].as, pass |-> pass[flight[f].as]]}
              ELSE links
  /\ Answer(f, "ok")
  /\ ServerOnly /\ UNCHANGED <<accounts, history>>

Resetting(u) == {f \in Flights : AtServer(f, "reset", "saw") /\ flight[f].as = u}

\* Mutant: the link is signed with the server's secret alone.
LinkHoldsUnsigned(f) == [user |-> flight[f].as, pass |-> flight[f].with] \in links

\* jwt.verify under the hash that has just been read, within 15 minutes.
LinkHolds(f) ==
  /\ [user |-> flight[f].as, pass |-> flight[f].with] \in links
  /\ flight[f].with = pass[flight[f].as]

\* A new password that is the old one is refused as well.
ResetRead(f) ==
  LET u == flight[f].as IN
  /\ \E fresh \in BOOLEAN : ReadAccount(f, "reset", LinkHolds(f) /\ fresh)
  /\ overlap' = IF flight'[f].pc = "saw" /\ Resetting(u) # {} THEN overlap \cup {u} ELSE overlap

ResetSave(f) ==
  LET u == flight[f].as IN
  /\ AtServer(f, "reset", "saw") /\ Answer(f, "ok")
  /\ pass' = [pass EXCEPT ![u] = @ + 1]
  /\ respent' = IF flight[f].with = pass[u] THEN respent ELSE respent \cup {u}
  /\ ServerOnly /\ UNCHANGED <<google, links, swapped, ended, overlap>>

\* The network loses a request or its answer: axios rejects without a status.
Lose(f) ==
  /\ lost < MaxLost /\ lost' = lost + 1
  /\ flight[f].pc \in {"up", "down"} /\ Answer(f, "failed")
  /\ UNCHANGED <<accounts, cookie, tab, links, asked, expired, history>>

-----------------------------------------------------------------------------
(* The answer reaches the page: one callback, one step.                     *)

\* syncFromClientSession: what the memory holds is what AuthProvider shows.
Shown(token) == IF token.user = Nobody THEN "out" ELSE token.user
SignedIn(u) == [token |-> [user |-> u, live |-> TRUE], shown |-> u]
SignedOut == [token |-> NoToken, shown |-> "out"]
Put(t, session, goes) ==
  tab' = [tab EXCEPT ![t] = [token |-> session.token, shown |-> session.shown,
                             leaving |-> @.leaving \/ goes]]

Arrives(f, ops) ==
  /\ flight[f].op \in ops /\ flight[f].pc = "down"
  /\ UNCHANGED <<accounts, links, counters, overlap, respent>>

Ok(f) == flight[f].reply = "ok"
Ends(f) == flight' = [flight EXCEPT ![f] = Idle]

\* setRefreshCookie on a session, and what that makes of the other tabs and of
\* requests that pages on their way out still wait for.
CookieOf(u) ==
  /\ cookie' = u
  /\ swapped' = \/ swapped
                \/ \E t \in Tabs : tab[t].shown \in Users \ {u}
                \/ \E f \in Flights : flight[f].asker \in Users \ {u}
NoCookie == UNCHANGED <<cookie, swapped>>

BootArrives(f) ==
  LET t == flight[f].tab IN
  /\ Arrives(f, {"boot"}) /\ Ends(f)
  /\ IF Ok(f) THEN CookieOf(flight[f].as) /\ Put(t, SignedIn(flight[f].as), FALSE)
     ELSE /\ NoCookie
          /\ Put(t, [token |-> tab[t].token, shown |-> Shown(tab[t].token)], FALSE)
  /\ UNCHANGED ended

\* Register goes on to the login page and leaves its token unused.
SignInArrives(f) ==
  LET t == flight[f].tab IN
  /\ Arrives(f, SignIns) /\ Ends(f)
  /\ IF Ok(f) THEN CookieOf(flight[f].as) ELSE NoCookie
  /\ IF Ok(f) /\ flight[f].op # "register"
     THEN Put(t, SignedIn(flight[f].as), FALSE) ELSE UNCHANGED tab
  /\ UNCHANGED ended

OthersArrive(f) ==
  /\ Arrives(f, {"forgot", "reset"}) /\ Ends(f)
  /\ NoCookie /\ UNCHANGED <<tab, ended>>

\* Mutant: any failed answer is tried again.
WorthRetryAny(f) == ~Ok(f) /\ ~flight[f].again

\* The response interceptor: a 401 or 403, once a request.
WorthRetry(f) == flight[f].reply = "denied" /\ ~flight[f].again

CallArrives(f) ==
  /\ Arrives(f, {"api"}) /\ flight[f].leg = "call"
  /\ IF WorthRetry(f)
     THEN flight' = [flight EXCEPT ![f] = [@ EXCEPT !.leg = "refresh", !.pc = "up",
                       !.again = TRUE, !.as = cookie, !.reply = "none"]]
     ELSE Ends(f)
  /\ NoCookie /\ UNCHANGED <<tab, ended>>

\* Each failed request refreshes by itself and goes again with the new token.
RefreshArrives(f) ==
  LET t == flight[f].tab IN
  /\ Arrives(f, {"api"}) /\ flight[f].leg = "refresh"
  /\ IF Ok(f)
     THEN /\ CookieOf(flight[f].as) /\ Put(t, SignedIn(flight[f].as), FALSE)
          /\ flight' = [flight EXCEPT ![f] = [@ EXCEPT !.leg = "call", !.pc = "up",
                                                       !.reply = "none"]]
     ELSE NoCookie /\ Put(t, SignedOut, tab[t].shown # "out") /\ Ends(f)
  /\ UNCHANGED ended

\* What may still bring the browser a cookie after f.
Pending(f) ==
  \E g \in Flights \ {f} :
    /\ flight[g].pc # "idle"
    /\ flight[g].op \in SignIns \/ (flight[g].leg = "refresh" /\ flight[g].as # Nobody)

\* Mutant: the cookie is cleared for another path than it was set for.
ClearedElsewhere(f) == cookie

\* clearRefreshCookie.
Cleared(f) == IF Ok(f) THEN Nobody ELSE cookie

\* logoutAuth clears the page's session however the request went.
LogoutArrives(f) ==
  /\ Arrives(f, {"logout"}) /\ Ends(f)
  /\ cookie' = Cleared(f)
  /\ Put(flight[f].tab, SignedOut, TRUE)
  /\ ended' = IF ~Ok(f) THEN "failed" ELSE IF Pending(f) THEN "crossed" ELSE "clean"
  /\ UNCHANGED swapped

-----------------------------------------------------------------------------

UserStep ==
  \/ \E t \in Tabs, op \in SignIns, u \in Users, typed \in 0 .. MaxRequests : SignIn(t, op, u, typed)
  \/ \E t \in Tabs, u \in Users : Forgot(t, u)
  \/ \E t \in Tabs, link \in links : UseLink(t, link)
  \/ \E t \in Tabs : Ask(t) \/ SignOut(t) \/ Reload(t) \/ ExpireToken(t)
  \/ ExpireCookie
  \/ \E link \in links : ExpireLink(link)

ServerStep(f) ==
  \/ ServeApi(f) \/ ServeRefresh(f) \/ ServeLogout(f) \/ ServeForgot(f)
  \/ LoginRead(f) \/ RegisterRead(f) \/ GoogleRead(f) \/ ResetRead(f)
  \/ SaveSeen(f) \/ CreateAccount(f) \/ ResetSave(f)

PageStep(f) ==
  \/ BootArrives(f) \/ SignInArrives(f) \/ OthersArrive(f)
  \/ CallArrives(f) \/ RefreshArrives(f) \/ LogoutArrives(f)

Next ==
  \/ UserStep
  \/ \E t \in Tabs : Bootstrap(t) \/ Unload(t)
  \/ \E f \in Flights : ServerStep(f) \/ PageStep(f) \/ Lose(f)

Spec == Init /\ [][Next]_vars

-----------------------------------------------------------------------------
(* Properties.                                                              *)

Account == Users \cup {Nobody}

\* Every variable keeps its shape.
TypeOK ==
  /\ pass \in [Users -> 0 .. MaxRequests + 1] /\ google \subseteq Users
  /\ cookie \in Account
  /\ tab \in [Tabs -> [token : [user : Account, live : BOOLEAN],
                       shown : Users \cup {"checking", "out"}, leaving : BOOLEAN]]
  /\ flight \in [Flights -> [op : Ops, leg : {"call", "refresh"},
        pc : {"idle", "up", "saw", "down"}, tab : Tabs \cup {Nobody}, left : BOOLEAN,
        asker : Account, as : Account, with : 0 .. MaxRequests + 1, again : BOOLEAN,
        done : 0 .. 2, reply : {"none", "ok", "denied", "failed"}]]
  /\ links \subseteq [user : Users, pass : 1 .. MaxRequests + 1]
  /\ asked \in 0 .. MaxRequests /\ lost \in 0 .. MaxLost /\ expired \in 0 .. MaxExpired
  /\ swapped \in BOOLEAN /\ ended \in {"no", "clean", "crossed", "failed"}
  /\ overlap \subseteq Users /\ respent \subseteq Users

\* A request is carried out at most once, through refusals, refreshes and lost
\* answers, and only for the account its page showed when the user asked: the
\* refresh between its two tries takes the cookie of the moment, so the one
\* exception is a browser whose cookie went to another account meanwhile.
RequestsHonest ==
  \A f \in Flights : flight[f].op = "api" =>
    /\ flight[f].done <= 1
    /\ flight[f].done = 1 /\ flight[f].pc = "down" => flight[f].as = flight[f].asker \/ swapped

\* After a sign-out that no sign-in or refresh was crossing, the browser has no
\* session until somebody signs in: no tab, however late its requests fail,
\* brings the cookie back.
SignedOutStays == ended = "clean" => cookie = Nobody

\* A reset link is worth one password: it never replaces a password other than
\* the one it was made of, unless two resets were both between read and save.
LinkSpentOnce == respent \subseteq overlap
=============================================================================
