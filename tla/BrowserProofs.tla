---------------------------- MODULE BrowserProofs ----------------------------
(***************************************************************************)
(* Proofs about the browser, for any number of users, tabs, flights, acts, *)
(* losses and expiries, of peers and calls.                                *)
(***************************************************************************)
EXTENDS MCBrowser, Integers, FiniteSetTheorems, NaturalsInduction, SequenceTheorems,
        WellFoundedInduction, TLAPS

(* The session.                                                            *)

FlightType ==
  [op : S!Ops, leg : {"call", "refresh"}, pc : {"idle", "up", "saw", "down"},
   tab : Tabs \cup {Nobody}, left : BOOLEAN, asker : S!Account, as : S!Account,
   with : 0 .. MaxRequests + 1, again : BOOLEAN, done : 0 .. 2,
   reply : {"none", "ok", "denied", "failed"}]
TabType ==
  [token : [user : S!Account, live : BOOLEAN], shown : Users \cup {"checking", "out"},
   leaving : BOOLEAN]

(* The flights that may still change the password of a user, of which each *)
(* has taken one act.                                                      *)
Makers == {"register", "google", "reset"}
Making(k, u) == k.op \in Makers /\ k.pc \in {"up", "saw"} /\ k.as = u
Outstanding(u) == {f \in S!Flights : Making(flight[f], u)}
Counted(u) ==
  /\ IsFiniteSet(Outstanding(u))
  /\ pass[u] + Cardinality(Outstanding(u)) <= asked + 1

(* What a flight is by its operation and its leg, and that a call which was *)
(* carried out has its answer and is not worth another try.                 *)
Shaped(k) ==
  /\ k.pc # "idle" => k.op # "none" /\ k.tab \in Tabs
  /\ k.op \in Makers \cup {"login", "forgot"} => k.as \in Users
  /\ k.leg = "refresh" => k.op \in {"boot", "api"}
  /\ k.leg = "refresh" /\ k.reply = "ok" => k.as # Nobody
  /\ k.op = "boot" => k.leg = "refresh"
  /\ k.pc = "saw" => k.op \in Makers \cup {"login"}
  /\ k.op = "reset" => k.with >= 1
  /\ k.op = "api" => /\ k.asker \in Users
                     /\ \/ k.done = 0
                        \/ /\ k.done = 1 /\ k.pc = "down" /\ k.leg = "call"
                           /\ k.reply \in {"ok", "failed"} /\ k.as # Nobody

(* A call carries the account of its page, or no account.                  *)
Faithful(k) == k.op = "api" /\ k.leg = "call" => k.as \in {k.asker, Nobody} \/ swapped

(* A flight that may bring the browser a cookie.                           *)
Brings(k) ==
  k.pc # "idle" /\ (k.op \in S!SignIns \/ (k.leg = "refresh" /\ k.as # Nobody))

Types ==
  /\ S!TypeOK
  /\ \A f \in S!Flights : Shaped(flight[f])
  /\ \A t \in Tabs : tab[t].shown \in Users => tab[t].token.user = tab[t].shown
Quieted == ended = "clean" => cookie = Nobody /\ \A g \in S!Flights : ~Brings(flight[g])
Apart ==
  /\ \A u \in Users : \A f, g \in S!Resetting(u) : f = g \/ u \in overlap
  /\ \A u \in Users : \A f \in S!Resetting(u) : flight[f].with = pass[u] \/ u \in overlap
  /\ S!LinkSpentOnce

SessionInv ==
  /\ Types
  /\ \A u \in Users : Counted(u)
  /\ \A f \in S!Flights : Faithful(flight[f])
  /\ Quieted
  /\ Apart

Replies == {"none", "ok", "denied", "failed"}

(* A step of one flight leaves the others alone.                           *)
One(f) ==
  /\ flight' \in [S!Flights -> FlightType]
  /\ \A g \in S!Flights \ {f} : flight'[g] = flight[g]
(* It stays what it was but for its pc, its reply and what it has done.    *)
Carried(f) ==
  /\ flight'[f].op = flight[f].op /\ flight'[f].leg = flight[f].leg
  /\ flight'[f].tab = flight[f].tab /\ flight'[f].asker = flight[f].asker
  /\ flight'[f].as = flight[f].as
Answered(f, reply) ==
  /\ Carried(f) /\ flight'[f].with = flight[f].with /\ flight'[f].done = flight[f].done
  /\ flight'[f].pc = "down" /\ flight'[f].reply = reply

(* What the types say of one flight.                                       *)
LEMMA FlightTyped ==
  ASSUME Types
  PROVE  /\ flight \in [S!Flights -> FlightType] /\ tab \in [Tabs -> TabType]
         /\ Tabs \subseteq S!Flights /\ Slots \subseteq S!Flights
         /\ MaxRequests \in Nat /\ MaxLost \in Nat /\ MaxExpired \in Nat
         /\ Nobody \notin Users
  BY SessionAssumption DEF Types, S!TypeOK, FlightType, TabType, S!Flights

(* An idle flight has its type and its shape, and brings nothing.          *)
LEMMA IdleTyped ==
  /\ S!Idle \in FlightType /\ Shaped(S!Idle) /\ Faithful(S!Idle) /\ ~Brings(S!Idle)
  /\ \A u \in Users : ~Making(S!Idle, u)
  /\ S!Idle.pc = "idle" /\ S!Idle.op = "none" /\ S!Idle.leg = "call"
<1>1. MaxRequests \in Nat
  BY SessionAssumption
<1> QED
  BY <1>1 DEF S!Idle, FlightType, S!Ops, S!SignIns, S!Account, Shaped, Faithful, Brings, Making, Makers

(* Send takes an idle flight for its request.                              *)
LEMMA SendEffect ==
  ASSUME Types, NEW f \in S!Flights, NEW k \in FlightType, S!Send(f, k)
  PROVE  One(f) /\ flight[f].pc = "idle" /\ flight'[f] = k
  BY FlightTyped DEF S!Send, One

(* An answer goes down to the page, or nowhere when the page has gone.     *)
LEMMA AnswerEffect ==
  ASSUME Types, NEW f \in S!Flights, NEW reply \in Replies, S!Answer(f, reply)
  PROVE  One(f) /\ (flight'[f] = S!Idle \/ Answered(f, reply))
<1> DEFINE n == [flight[f] EXCEPT !.pc = "down", !.reply = reply]
<1>1. flight[f] \in FlightType
  BY FlightTyped
<1>2. /\ n \in FlightType /\ n.op = flight[f].op /\ n.leg = flight[f].leg /\ n.tab = flight[f].tab
      /\ n.asker = flight[f].asker /\ n.as = flight[f].as /\ n.with = flight[f].with
      /\ n.done = flight[f].done /\ n.pc = "down" /\ n.reply = reply
  BY <1>1 DEF FlightType, Replies
<1>3. flight' = [flight EXCEPT ![f] = IF flight[f].left THEN S!Idle ELSE n]
  BY DEF S!Answer
<1> HIDE DEF n
<1> QED
  BY <1>2, <1>3, FlightTyped, IdleTyped DEF One, Answered, Carried

(* An arrival that ends its flight leaves it idle.                         *)
LEMMA EndsEffect ==
  ASSUME Types, NEW f \in S!Flights, S!Ends(f)
  PROVE  One(f) /\ flight'[f] = S!Idle
  BY FlightTyped, IdleTyped DEF S!Ends, One

(* What the user asks for goes up in a flight of its own and counts as one *)
(* act.                                                                    *)
Sent(f) ==
  /\ One(f) /\ flight[f].pc = "idle"
  /\ flight'[f].pc = "up" /\ flight'[f].leg = "call" /\ flight'[f].reply = "none"
  /\ flight'[f].op # "none" /\ flight'[f].op # "boot" /\ flight'[f].tab \in Tabs
  /\ flight'[f].op \in Makers \cup {"login", "forgot"} => flight'[f].as \in Users
  /\ flight'[f].op = "reset" => flight'[f].with >= 1
  /\ flight'[f].op = "api" =>
       /\ flight'[f].asker \in Users /\ flight'[f].as \in {flight'[f].asker, Nobody}
       /\ flight'[f].done = 0
  /\ flight'[f].op \in S!SignIns => ended' = "no"
  /\ ended' \in {"no", ended}
  /\ asked' = asked + 1 /\ asked' <= MaxRequests
  /\ UNCHANGED <<pass, google, cookie, tab, links, lost, expired, swapped, overlap, respent>>
Asking ==
  \/ \E t \in Tabs, op \in S!SignIns, u \in Users, typed \in 0 .. MaxRequests : S!SignIn(t, op, u, typed)
  \/ \E t \in Tabs, u \in Users : S!Forgot(t, u)
  \/ \E t \in Tabs, link \in links : S!UseLink(t, link)
  \/ \E t \in Tabs : S!Ask(t) \/ S!SignOut(t)

(* UserSends fills in the page and the pc of the request.                  *)
LEMMA UserSendsEffect ==
  ASSUME Types, NEW t \in Tabs, NEW k \in FlightType, S!UserSends(t, k)
  PROVE  /\ \E f \in S!Flights :
              /\ One(f) /\ flight[f].pc = "idle"
              /\ flight'[f].pc = "up" /\ flight'[f].tab = t
              /\ flight'[f].op = k.op /\ flight'[f].leg = k.leg /\ flight'[f].asker = k.asker
              /\ flight'[f].as = k.as /\ flight'[f].with = k.with /\ flight'[f].done = k.done
              /\ flight'[f].reply = k.reply
         /\ asked' = asked + 1 /\ asked' <= MaxRequests
         /\ UNCHANGED <<pass, google, cookie, tab, links, lost, expired>>
<1> DEFINE n == [k EXCEPT !.pc = "up", !.tab = t]
<1>1. /\ n \in FlightType /\ n.pc = "up" /\ n.tab = t
      /\ n.op = k.op /\ n.leg = k.leg /\ n.asker = k.asker /\ n.as = k.as /\ n.with = k.with
      /\ n.done = k.done /\ n.reply = k.reply
  BY DEF FlightType
<1>2. PICK f \in Slots : S!Send(f, n)
  BY DEF S!UserSends
<1> HIDE DEF n
<1>3. One(f) /\ flight[f].pc = "idle" /\ flight'[f] = n
  BY <1>1, <1>2, SendEffect, FlightTyped
<1>4. asked \in Nat /\ MaxRequests \in Nat
  BY FlightTyped DEF Types, S!TypeOK
<1> QED
  BY <1>1, <1>3, <1>4, FlightTyped DEF S!UserSends, S!accounts

(* Every act of the user that asks something of the server.                *)
LEMMA AskingEffect ==
  ASSUME Types, Asking
  PROVE  \E f \in S!Flights : Sent(f)
<1> USE DEF S!SignIns, Makers
<1>0. S!Idle \in FlightType /\ MaxRequests \in Nat
  BY IdleTyped, FlightTyped
<1>1. ASSUME NEW t \in Tabs, NEW op \in S!SignIns, NEW u \in Users, NEW typed \in 0 .. MaxRequests,
             S!SignIn(t, op, u, typed)
      PROVE  \E f \in S!Flights : Sent(f)
  <2> DEFINE k == [S!Idle EXCEPT !.op = op, !.as = u, !.with = typed]
  <2>0. typed \in 0 .. MaxRequests + 1 /\ op \in S!Ops /\ u \in S!Account
    BY <1>0 DEF S!Ops, S!Account
  <2>1. k \in FlightType
    BY <1>0, <2>0 DEF FlightType
  <2>3. k.op = op /\ k.as = u /\ k.leg = "call" /\ k.reply = "none"
    BY DEF S!Idle
  <2>2. S!UserSends(t, k) /\ ended' = "no" /\ UNCHANGED <<swapped, overlap, respent>>
    BY <1>1 DEF S!SignIn
  <2> HIDE DEF k
  <2> QED
    BY <2>0, <2>1, <2>2, <2>3, UserSendsEffect DEF Sent
<1>2. ASSUME NEW t \in Tabs, NEW u \in Users, S!Forgot(t, u)
      PROVE  \E f \in S!Flights : Sent(f)
  <2> DEFINE k == [S!Idle EXCEPT !.op = "forgot", !.as = u]
  <2>1. k \in FlightType /\ k.op = "forgot" /\ k.as = u /\ k.leg = "call" /\ k.reply = "none"
    BY <1>0 DEF FlightType, S!Idle, S!Ops, S!Account
  <2>2. S!UserSends(t, k) /\ UNCHANGED <<swapped, ended, overlap, respent>>
    BY <1>2 DEF S!Forgot, S!history
  <2> HIDE DEF k
  <2> QED
    BY <2>1, <2>2, UserSendsEffect DEF Sent
<1>3. ASSUME NEW t \in Tabs, NEW link \in links, S!UseLink(t, link)
      PROVE  \E f \in S!Flights : Sent(f)
  <2> DEFINE k == [S!Idle EXCEPT !.op = "reset", !.as = link.user, !.with = link.pass]
  <2>0. link.user \in Users /\ link.pass \in 1 .. MaxRequests + 1
    BY DEF Types, S!TypeOK
  <2>3. /\ link.pass \in 0 .. MaxRequests + 1 /\ link.pass >= 1
        /\ link.user \in S!Account /\ "reset" \in S!Ops
    BY <1>0, <2>0 DEF S!Ops, S!Account
  <2>1. k \in FlightType
    BY <1>0, <2>3 DEF FlightType
  <2>4. /\ k.op = "reset" /\ k.as = link.user /\ k.leg = "call"
        /\ k.reply = "none" /\ k.with >= 1
    BY <2>3 DEF S!Idle
  <2>2. S!UserSends(t, k) /\ UNCHANGED <<swapped, ended, overlap, respent>>
    BY <1>3 DEF S!UseLink, S!history
  <2> HIDE DEF k
  <2> QED
    BY <2>0, <2>1, <2>2, <2>4, UserSendsEffect DEF Sent
<1>4. ASSUME NEW t \in Tabs, S!Ask(t)
      PROVE  \E f \in S!Flights : Sent(f)
  <2> DEFINE k == [S!Idle EXCEPT !.op = "api", !.asker = tab[t].shown, !.as = S!Bearer(tab[t].token)]
  <2>0. /\ tab[t].shown \in Users
        /\ S!Bearer(tab[t].token) \in {tab[t].shown, Nobody}
    BY <1>4 DEF S!Ask, Types, S!Bearer
  <2>1. /\ k \in FlightType /\ k.op = "api" /\ k.asker \in Users /\ k.as \in {k.asker, Nobody}
        /\ k.leg = "call" /\ k.reply = "none" /\ k.done = 0
    BY <1>0, <2>0 DEF FlightType, S!Idle, S!Ops, S!Account
  <2>2. S!UserSends(t, k) /\ UNCHANGED <<swapped, ended, overlap, respent>>
    BY <1>4 DEF S!Ask, S!history
  <2> HIDE DEF k
  <2> QED
    BY <2>1, <2>2, UserSendsEffect DEF Sent
<1>5. ASSUME NEW t \in Tabs, S!SignOut(t)
      PROVE  \E f \in S!Flights : Sent(f)
  <2> DEFINE k == [S!Idle EXCEPT !.op = "logout"]
  <2>1. k \in FlightType /\ k.op = "logout" /\ k.leg = "call" /\ k.reply = "none"
    BY <1>0 DEF FlightType, S!Idle, S!Ops, S!Account
  <2>2. S!UserSends(t, k) /\ UNCHANGED <<swapped, ended, overlap, respent>>
    BY <1>5 DEF S!SignOut, S!history
  <2> HIDE DEF k
  <2> QED
    BY <2>1, <2>2, UserSendsEffect DEF Sent
<1> QED
  BY <1>1, <1>2, <1>3, <1>4, <1>5 DEF Asking

(* A page that goes leaves the flights of its calls to the server, and     *)
(* drops the others.                                                       *)
Dropped ==
  /\ flight' \in [S!Flights -> FlightType]
  /\ \A f \in S!Flights :
       \/ flight'[f] = flight[f]
       \/ flight'[f] = S!Idle
       \/ /\ Carried(f) /\ flight'[f].with = flight[f].with /\ flight'[f].pc = flight[f].pc
          /\ flight'[f].done = flight[f].done /\ flight'[f].reply = flight[f].reply

(* Reload and Unload keep the account store and the cookie.                *)
LEMMA LoadEffect ==
  ASSUME Types, NEW t \in Tabs, S!LoadPage(t)
  PROVE  /\ Dropped
         /\ tab' \in [Tabs -> TabType]
         /\ \A s \in Tabs : tab'[s].shown \in Users => tab'[s].token.user = tab'[s].shown
         /\ UNCHANGED <<pass, google, cookie, links, lost, expired, swapped, ended, overlap, respent>>
<1>1. \A f \in S!Flights :
         LET n == [flight[f] EXCEPT !.left = TRUE]
         IN /\ n \in FlightType
            /\ n.op = flight[f].op /\ n.leg = flight[f].leg /\ n.tab = flight[f].tab
            /\ n.asker = flight[f].asker /\ n.as = flight[f].as /\ n.with = flight[f].with
            /\ n.pc = flight[f].pc /\ n.done = flight[f].done /\ n.reply = flight[f].reply
  <2> TAKE f \in S!Flights
  <2>1. flight[f] \in FlightType
    BY FlightTyped
  <2> QED
    BY <2>1 DEF FlightType
<1>2. flight' = S!Abandon(t)
  BY DEF S!LoadPage
<1>3. \A f \in S!Flights :
         /\ S!Abandon(t)[f] \in FlightType
         /\ S!Abandon(t)[f] \in {flight[f], S!Idle, [flight[f] EXCEPT !.left = TRUE]}
  <2> TAKE f \in S!Flights
  <2>1. flight[f] \in FlightType
    BY FlightTyped
  <2> QED
    BY <1>1, <2>1, IdleTyped DEF S!Abandon
<1>4. flight' \in [S!Flights -> FlightType]
  BY <1>2, <1>3 DEF S!Abandon
<1>5. Dropped
  <2>1. ASSUME NEW f \in S!Flights, flight'[f] # flight[f], flight'[f] # S!Idle
        PROVE  /\ Carried(f) /\ flight'[f].with = flight[f].with /\ flight'[f].pc = flight[f].pc
               /\ flight'[f].done = flight[f].done /\ flight'[f].reply = flight[f].reply
    <3>1. flight'[f] = [flight[f] EXCEPT !.left = TRUE]
      BY <1>2, <1>3, <2>1
    <3> QED
      BY <1>1, <3>1 DEF Carried
  <2> QED
    BY <1>4, <2>1 DEF Dropped
<1>6. S!FreshPage \in TabType /\ S!FreshPage.shown \notin Users
  BY SessionAssumption DEF S!FreshPage, S!NoToken, TabType, S!Account
<1>7. tab' = [tab EXCEPT ![t] = S!FreshPage]
  BY DEF S!LoadPage
<1> QED
  BY <1>5, <1>6, <1>7, FlightTyped DEF S!LoadPage, S!accounts, S!history, Types

(* A page asks for a session with the cookie it finds.                     *)
LEMMA BootstrapEffect ==
  ASSUME Types, NEW t \in Tabs, S!Bootstrap(t)
  PROVE  /\ One(t) /\ flight[t].pc = "idle"
         /\ flight'[t].op = "boot" /\ flight'[t].leg = "refresh" /\ flight'[t].pc = "up"
         /\ flight'[t].tab = t /\ flight'[t].as = cookie /\ flight'[t].reply = "none"
         /\ UNCHANGED <<pass, google, cookie, tab, links, asked, lost, expired, swapped, ended,
                        overlap, respent>>
<1> DEFINE k == [S!Idle EXCEPT !.op = "boot", !.leg = "refresh", !.pc = "up", !.tab = t, !.as = cookie]
<1>1. cookie \in S!Account /\ "boot" \in S!Ops
  BY DEF Types, S!TypeOK, S!Ops
<1>2. k \in FlightType
  BY <1>1, IdleTyped DEF FlightType
<1>3. /\ k.op = "boot" /\ k.leg = "refresh" /\ k.pc = "up" /\ k.tab = t /\ k.as = cookie
      /\ k.reply = "none"
  BY DEF S!Idle
<1>4. S!Send(t, k)
  BY DEF S!Bootstrap
<1> HIDE DEF k
<1> QED
  BY <1>2, <1>3, <1>4, SendEffect, FlightTyped DEF S!Bootstrap, S!accounts, S!counters, S!history

(* A step of the server, or a loss, takes one flight on.                   *)
Served(f) ==
  /\ One(f) /\ Shaped(flight'[f]) /\ flight[f].pc # "idle"
  /\ \/ flight'[f] = S!Idle
     \/ /\ Carried(f) /\ flight'[f].pc \in {"saw", "down"}
        /\ flight'[f].pc = "saw" => flight[f].pc = "up"
        /\ flight'[f].op = "reset" => flight'[f].with = flight[f].with
  /\ UNCHANGED <<cookie, tab, asked, expired, swapped, ended>>

(* The answer of a flight which has not been carried out.                  *)
LEMMA AnswerServes ==
  ASSUME Types, NEW f \in S!Flights, NEW reply \in Replies, S!Answer(f, reply),
         flight[f].pc # "idle",
         flight[f].op = "api" => flight[f].done = 0 \/ reply = "failed",
         flight[f].leg = "refresh" /\ reply = "ok" => flight[f].as # Nobody,
         UNCHANGED <<cookie, tab, asked, expired, swapped, ended>>
  PROVE  Served(f) /\ flight'[f].pc \in {"idle", "down"}
<1>1. One(f) /\ (flight'[f] = S!Idle \/ Answered(f, reply))
  BY AnswerEffect
<1>2. Shaped(flight[f])
  BY DEF Types
<1>3. CASE flight'[f] = S!Idle
  BY <1>1, <1>3, IdleTyped DEF Served
<1>4. CASE Answered(f, reply)
  <2>1. Shaped(flight'[f])
    BY <1>2, <1>4 DEF Shaped, Answered, Carried, Makers
  <2> QED
    BY <1>1, <1>4, <2>1 DEF Served, Answered
<1> QED
  BY <1>1, <1>3, <1>4

(* The read of a handler lets the flight go on.                            *)
LEMMA SeesServes ==
  ASSUME Types, NEW f \in S!Flights, flight[f].pc = "up",
         flight[f].op \in Makers \cup {"login"},
         flight' = [flight EXCEPT ![f].pc = "saw"],
         UNCHANGED <<cookie, tab, asked, expired, swapped, ended>>
  PROVE  Served(f) /\ flight'[f].pc = "saw"
<1> DEFINE n == [flight[f] EXCEPT !.pc = "saw"]
<1>1. flight[f] \in FlightType /\ Shaped(flight[f])
  BY FlightTyped DEF Types
<1>2. /\ n \in FlightType /\ n.op = flight[f].op /\ n.leg = flight[f].leg /\ n.tab = flight[f].tab
      /\ n.asker = flight[f].asker /\ n.as = flight[f].as /\ n.with = flight[f].with
      /\ n.done = flight[f].done /\ n.pc = "saw" /\ n.reply = flight[f].reply
  BY <1>1 DEF FlightType
<1>3. flight' = [flight EXCEPT ![f] = n]
  OBVIOUS
<1> HIDE DEF n
<1>4. flight'[f] = n /\ One(f)
  BY <1>2, <1>3, FlightTyped DEF One
<1>5. Shaped(flight'[f])
  BY <1>1, <1>2, <1>4 DEF Shaped, Makers
<1> QED
  BY <1>2, <1>4, <1>5 DEF Served, Carried

(* What a step of the server does to the accounts and the mail.            *)
Stored(f) ==
  /\ \/ pass' = pass
     \/ \E u \in Users : /\ Making(flight[f], u) /\ flight'[f].pc \in {"idle", "down"}
                         /\ pass' = [pass EXCEPT ![u] = pass[u] + 1]
  /\ google' \subseteq Users /\ overlap' \subseteq Users /\ respent' \subseteq Users
  /\ links' \subseteq links \cup {[user |-> u, pass |-> pass[u]] : u \in {v \in Users : pass[v] > 0}}
  /\ lost' \in 0 .. MaxLost

(* Handlers that only read, or answer without an account.                  *)
LEMMA ReadsServe ==
  ASSUME Types, NEW f \in S!Flights,
         \/ S!ServeApi(f) \/ S!ServeRefresh(f) \/ S!ServeLogout(f)
         \/ S!LoginRead(f) \/ S!RegisterRead(f)
  PROVE  Served(f) /\ UNCHANGED <<pass, google, links, lost, overlap, respent>>
<1> USE DEF S!AtServer, S!ServerOnly, S!accounts, S!history, S!counters, Makers, Replies
<1>0. flight[f] \in FlightType /\ Shaped(flight[f])
  BY FlightTyped DEF Types
<1>1. CASE S!ServeApi(f)
  <2> DEFINE d(reply) == flight[f].done + (IF reply = "ok" THEN 1 ELSE 0)
             k(reply) == [flight[f] EXCEPT !.pc = "down", !.reply = reply, !.done = d(reply)]
  <2>1. PICK reply \in (IF flight[f].as = Nobody THEN {"denied"} ELSE {"ok", "denied", "failed"}) :
          flight' = [flight EXCEPT ![f] = IF flight[f].left THEN S!Idle ELSE k(reply)]
    BY <1>1 DEF S!ServeApi
  <2> DEFINE n == k(reply)
  <2>2. flight[f].op = "api" /\ flight[f].pc = "up" /\ flight[f].leg = "call" /\ flight[f].done = 0
    BY <1>0, <1>1 DEF S!ServeApi, Shaped
  <2>3. /\ d(reply) \in {0, 1} /\ d(reply) \in 0 .. 2 /\ (d(reply) = 1 => reply = "ok")
        /\ reply \in {"ok", "denied", "failed"} /\ (reply = "ok" => flight[f].as # Nobody)
    BY <2>2
  <2>4. flight' = [flight EXCEPT ![f] = IF flight[f].left THEN S!Idle ELSE n]
    BY <2>1
  <2>5. /\ n \in FlightType /\ n.op = flight[f].op /\ n.leg = flight[f].leg /\ n.tab = flight[f].tab
        /\ n.asker = flight[f].asker /\ n.as = flight[f].as /\ n.pc = "down" /\ n.done = d(reply)
        /\ n.reply = reply
    BY <1>0, <2>3 DEF FlightType
  <2> HIDE DEF n, k, d
  <2>6. One(f) /\ (flight'[f] = S!Idle \/ flight'[f] = n)
    BY <2>4, <2>5, FlightTyped, IdleTyped DEF One
  <2>7. Shaped(n)
    BY <1>0, <2>2, <2>3, <2>5 DEF Shaped
  <2> QED
    BY <1>1, <2>2, <2>5, <2>6, <2>7, IdleTyped DEF Served, Carried, S!ServeApi
<1>2. CASE S!ServeRefresh(f)
  <2>1. /\ flight[f].leg = "refresh" /\ flight[f].pc = "up"
        /\ \E reply \in {"denied", "ok", "failed"} :
             S!Answer(f, reply) /\ (reply = "ok" => flight[f].as # Nobody)
    BY <1>2 DEF S!ServeRefresh
  <2>2. flight[f].op = "api" => flight[f].done = 0
    BY <1>0, <2>1 DEF Shaped
  <2> QED
    BY <1>2, <2>1, <2>2, AnswerServes DEF S!ServeRefresh
<1>3. CASE S!ServeLogout(f)
  BY <1>0, <1>3, AnswerServes DEF S!ServeLogout, Shaped
<1>4. ASSUME NEW op \in {"login", "register"}, NEW Go \in BOOLEAN, S!ReadAccount(f, op, Go)
      PROVE  Served(f)
  <2>1. flight[f].op = op /\ flight[f].pc = "up" /\ flight[f].leg = "call"
    BY <1>0, <1>4 DEF S!ReadAccount, Shaped, FlightType
  <2>2. UNCHANGED <<cookie, tab, asked, expired, swapped, ended>>
    BY <1>4 DEF S!ReadAccount
  <2>3. CASE Go
    BY <1>4, <2>1, <2>2, <2>3, SeesServes DEF S!ReadAccount
  <2>4. CASE ~Go
    BY <1>4, <2>1, <2>2, <2>4, AnswerServes DEF S!ReadAccount
  <2> QED
    BY <2>3, <2>4
<1>5. CASE S!LoginRead(f)
  BY <1>4, <1>5 DEF S!LoginRead, S!ReadAccount
<1>6. CASE S!RegisterRead(f)
  BY <1>4, <1>6 DEF S!RegisterRead, S!ReadAccount, S!Exists
<1> QED
  BY <1>1, <1>2, <1>3, <1>5, <1>6 DEF S!ServeApi, S!ServeRefresh, S!ServeLogout

(* Handlers that change an account or the mail, and losses.                *)
LEMMA WritesServe ==
  ASSUME Types, NEW f \in S!Flights,
         \/ S!GoogleRead(f) \/ S!SaveSeen(f) \/ S!CreateAccount(f) \/ S!ServeForgot(f)
         \/ S!ResetRead(f) \/ S!ResetSave(f) \/ S!Lose(f)
  PROVE  Served(f) /\ Stored(f)
<1> USE DEF S!AtServer, S!ServerOnly, S!accounts, S!history, S!counters, Makers, Replies
<1>0. flight[f] \in FlightType /\ Shaped(flight[f]) /\ lost \in 0 .. MaxLost /\ MaxLost \in Nat
      /\ pass \in [Users -> 0 .. MaxRequests + 1]
      /\ google \subseteq Users /\ overlap \subseteq Users /\ respent \subseteq Users
  BY FlightTyped DEF Types, S!TypeOK
<1>1. CASE S!GoogleRead(f)
  <2> DEFINE w == IF S!Exists(f) THEN 1 ELSE 0
             n == [flight[f] EXCEPT !.pc = "saw", !.with = w]
  <2>1. /\ flight[f].op = "google" /\ flight[f].pc = "up"
        /\ UNCHANGED <<cookie, tab, asked, expired, swapped, ended>>
        /\ UNCHANGED <<pass, google, links, lost, overlap, respent>>
        /\ S!Answer(f, "failed") \/ flight' = [flight EXCEPT ![f] = n]
    BY <1>1 DEF S!GoogleRead
  <2>2. CASE S!Answer(f, "failed")
    BY <1>0, <2>1, <2>2, AnswerServes DEF Stored
  <2>3. CASE flight' = [flight EXCEPT ![f] = n]
    <3>1. w \in 0 .. MaxRequests + 1
      BY FlightTyped
    <3> HIDE DEF w
    <3>2. /\ n \in FlightType /\ n.op = flight[f].op /\ n.leg = flight[f].leg /\ n.tab = flight[f].tab
          /\ n.asker = flight[f].asker /\ n.as = flight[f].as /\ n.pc = "saw" /\ n.done = flight[f].done
          /\ n.reply = flight[f].reply
      BY <1>0, <3>1 DEF FlightType
    <3> HIDE DEF n
    <3>3. One(f) /\ flight'[f] = n
      BY <2>3, <3>2, FlightTyped DEF One
    <3>4. Shaped(n)
      BY <1>0, <2>1, <3>2 DEF Shaped
    <3> QED
      BY <1>0, <2>1, <3>2, <3>3, <3>4 DEF Served, Stored, Carried
  <2> QED
    BY <2>1, <2>2, <2>3
<1>2. CASE S!SaveSeen(f)
  <2>1. /\ flight[f].op \in {"login", "google"} /\ flight[f].pc = "saw" /\ S!Answer(f, "ok")
        /\ UNCHANGED <<cookie, tab, asked, expired, swapped, ended>>
        /\ UNCHANGED <<pass, google, links, lost, overlap, respent>>
    BY <1>2 DEF S!SaveSeen
  <2>2. flight[f].leg # "refresh"
    BY <1>0, <2>1 DEF Shaped
  <2> QED
    BY <1>0, <2>1, <2>2, AnswerServes DEF Stored
<1>3. CASE S!CreateAccount(f)
  <2>1. /\ flight[f].op \in {"register", "google"} /\ flight[f].pc = "saw"
        /\ flight[f].leg # "refresh" /\ flight[f].as \in Users
        /\ UNCHANGED <<cookie, tab, asked, expired, swapped, ended>>
        /\ UNCHANGED <<links, lost, overlap, respent>>
    BY <1>0, <1>3 DEF S!CreateAccount, Shaped
  <2>2. CASE S!Exists(f)
    BY <1>0, <1>3, <2>1, <2>2, AnswerServes DEF S!CreateAccount, Stored
  <2>3. CASE ~S!Exists(f)
    <3>1. pass[flight[f].as] = 0
      BY <1>0, <2>1, <2>3, FlightTyped DEF S!Exists
    <3>2. /\ S!Answer(f, "ok") /\ google' \subseteq Users
          /\ pass' = [pass EXCEPT ![flight[f].as] = 1]
      BY <1>0, <1>3, <2>1, <2>3 DEF S!CreateAccount
    <3>3. pass' = [pass EXCEPT ![flight[f].as] = pass[flight[f].as] + 1]
      BY <3>1, <3>2
    <3>4. Served(f) /\ flight'[f].pc \in {"idle", "down"}
      BY <2>1, <3>2, AnswerServes
    <3> QED
      BY <1>0, <2>1, <3>2, <3>3, <3>4 DEF Stored, Making
  <2> QED
    BY <2>2, <2>3
<1>4. CASE S!ServeForgot(f)
  <2>1. /\ flight[f].op = "forgot" /\ flight[f].pc = "up" /\ S!Answer(f, "ok")
        /\ flight[f].leg # "refresh" /\ flight[f].as \in Users
        /\ UNCHANGED <<cookie, tab, asked, expired, swapped, ended>>
        /\ UNCHANGED <<pass, google, lost, overlap, respent>>
    BY <1>0, <1>4 DEF S!ServeForgot, Shaped
  <2>2. links' \subseteq links \cup {[user |-> u, pass |-> pass[u]] : u \in {v \in Users : pass[v] > 0}}
    BY <1>4, <2>1 DEF S!ServeForgot, S!Exists
  <2> QED
    BY <1>0, <2>1, <2>2, AnswerServes DEF Stored
<1>5. CASE S!ResetRead(f)
  <2>1. PICK Go \in BOOLEAN : S!ReadAccount(f, "reset", Go)
    BY <1>5 DEF S!ResetRead, S!ReadAccount, S!LinkHolds
  <2>2. /\ flight[f].op = "reset" /\ flight[f].pc = "up" /\ flight[f].leg # "refresh"
        /\ flight[f].as \in Users
        /\ UNCHANGED <<cookie, tab, asked, expired, swapped, ended>>
        /\ UNCHANGED <<pass, google, links, lost, respent>>
    BY <1>0, <2>1 DEF S!ReadAccount, Shaped
  <2>3. overlap' \subseteq Users
    BY <1>0, <1>5, <2>2 DEF S!ResetRead
  <2>4. CASE Go
    BY <1>0, <2>1, <2>2, <2>3, <2>4, SeesServes DEF S!ReadAccount, Stored
  <2>5. CASE ~Go
    BY <1>0, <2>1, <2>2, <2>3, <2>5, AnswerServes DEF S!ReadAccount, Stored
  <2> QED
    BY <2>4, <2>5
<1>6. CASE S!ResetSave(f)
  <2>1. /\ flight[f].op = "reset" /\ flight[f].pc = "saw" /\ flight[f].leg # "refresh"
        /\ flight[f].as \in Users /\ S!Answer(f, "ok")
        /\ UNCHANGED <<cookie, tab, asked, expired, swapped, ended>>
        /\ UNCHANGED <<google, links, lost, overlap>>
    BY <1>0, <1>6 DEF S!ResetSave, Shaped
  <2>2. pass' = [pass EXCEPT ![flight[f].as] = pass[flight[f].as] + 1] /\ respent' \subseteq Users
    BY <1>0, <1>6, <2>1 DEF S!ResetSave
  <2>3. Served(f) /\ flight'[f].pc \in {"idle", "down"}
    BY <2>1, AnswerServes
  <2> QED
    BY <1>0, <2>1, <2>2, <2>3 DEF Stored, Making
<1>7. CASE S!Lose(f)
  <2>1. /\ flight[f].pc # "idle" /\ S!Answer(f, "failed") /\ lost' \in 0 .. MaxLost
        /\ UNCHANGED <<cookie, tab, asked, expired, swapped, ended>>
        /\ UNCHANGED <<pass, google, links, overlap, respent>>
    BY <1>0, <1>7 DEF S!Lose
  <2> QED
    BY <1>0, <2>1, AnswerServes DEF Stored
<1> QED
  BY <1>1, <1>2, <1>3, <1>4, <1>5, <1>6, <1>7

(* Every step of the server, or loss, of a flight.                         *)
LEMMA ServerEffect ==
  ASSUME Types, NEW f \in S!Flights, S!ServerStep(f) \/ S!Lose(f)
  PROVE  Served(f) /\ Stored(f)
<1>1. UNCHANGED <<pass, google, links, lost, overlap, respent>> => Stored(f)
  BY DEF Stored, Types, S!TypeOK
<1> QED
  BY <1>1, ReadsServe, WritesServe DEF S!ServerStep

(* An answer that reaches its page ends its flight, or takes its call on   *)
(* to a refresh, or from there to its second try.                          *)
Retries(f) ==
  /\ flight'[f].op = "api" /\ flight'[f].pc = "up" /\ flight'[f].reply = "none"
  /\ flight'[f].done = 0 /\ flight'[f].tab = flight[f].tab /\ flight'[f].asker = flight[f].asker
  /\ \/ flight[f].leg = "call" /\ flight'[f].leg = "refresh" /\ flight'[f].as = cookie /\ cookie' = cookie
     \/ /\ flight[f].leg = "refresh" /\ flight'[f].leg = "call" /\ flight[f].reply = "ok"
        /\ flight'[f].as = flight[f].as /\ S!CookieOf(flight[f].as)
Paged(f) ==
  /\ One(f) /\ flight[f].pc = "down" /\ Shaped(flight'[f])
  /\ flight'[f] = S!Idle \/ Retries(f)
  /\ tab' \in [Tabs -> TabType]
  /\ \A t \in Tabs : tab'[t].shown \in Users => tab'[t].token.user = tab'[t].shown
  /\ \/ cookie' = cookie
     \/ cookie' = Nobody
     \/ Brings(flight[f]) /\ cookie' \in Users
  /\ swapped' \in BOOLEAN /\ (swapped => swapped')
  /\ \/ ended' = ended
     \/ /\ flight[f].op = "logout" /\ flight'[f] = S!Idle /\ ended' \in {"clean", "crossed", "failed"}
        /\ ended' = "clean" =>
             cookie' = Nobody /\ \A g \in S!Flights \ {f} : ~Brings(flight[g])
  /\ UNCHANGED <<pass, google, links, asked, lost, expired, overlap, respent>>

(* Put keeps the pages typed, and what they show the user of their token.  *)
LEMMA PutEffect ==
  ASSUME Types, NEW t \in Tabs, NEW token \in [user : S!Account, live : BOOLEAN],
         NEW shown \in Users \cup {"checking", "out"}, NEW goes \in BOOLEAN,
         shown \in Users => token.user = shown,
         S!Put(t, [token |-> token, shown |-> shown], goes)
  PROVE  /\ tab' \in [Tabs -> TabType]
         /\ \A s \in Tabs : tab'[s].shown \in Users => tab'[s].token.user = tab'[s].shown
<1> DEFINE p == [token |-> token, shown |-> shown, leaving |-> tab[t].leaving \/ goes]
<1>0. tab \in [Tabs -> TabType]
  BY FlightTyped
<1>1. p \in TabType /\ p.shown = shown /\ p.token = token
  BY <1>0 DEF TabType
<1>2. tab' = [tab EXCEPT ![t] = p]
  BY DEF S!Put
<1> HIDE DEF p
<1> QED
  BY <1>0, <1>1, <1>2 DEF Types

(* Every answer that reaches its page.                                     *)
LEMMA PageEffect ==
  ASSUME Types, NEW f \in S!Flights, S!PageStep(f)
  PROVE  Paged(f)
<1> USE DEF Makers
<1>0. /\ flight[f] \in FlightType /\ Shaped(flight[f]) /\ tab \in [Tabs -> TabType]
      /\ swapped \in BOOLEAN /\ cookie \in S!Account
  BY FlightTyped DEF Types, S!TypeOK
<1>1. /\ flight[f].pc = "down" /\ flight[f].tab \in Tabs
      /\ UNCHANGED <<pass, google, links, asked, lost, expired, overlap, respent>>
  BY <1>0 DEF S!PageStep, S!BootArrives, S!SignInArrives, S!OthersArrive, S!CallArrives,
         S!RefreshArrives, S!LogoutArrives, S!Arrives, S!accounts, S!counters, Shaped
<1>t. \A t \in Tabs : tab[t].shown \in Users => tab[t].token.user = tab[t].shown
  BY DEF Types
<1>2. ASSUME S!CookieOf(flight[f].as), flight[f].as \in Users
      PROVE  /\ cookie' \in Users /\ swapped' \in BOOLEAN /\ (swapped => swapped')
  <2>1. /\ cookie' = flight[f].as
        /\ swapped' = \/ swapped
                      \/ \E t \in Tabs : tab[t].shown \in Users \ {flight[f].as}
                      \/ \E g \in S!Flights : flight[g].asker \in Users \ {flight[f].as}
    BY <1>2 DEF S!CookieOf
  <2> QED
    BY <1>2, <2>1
<1>3. ASSUME flight[f].as \in Users, S!Put(flight[f].tab, S!SignedIn(flight[f].as), FALSE)
      PROVE  /\ tab' \in [Tabs -> TabType]
             /\ \A s \in Tabs : tab'[s].shown \in Users => tab'[s].token.user = tab'[s].shown
  <2> DEFINE token == [user |-> flight[f].as, live |-> TRUE]
  <2>1. token \in [user : S!Account, live : BOOLEAN] /\ token.user = flight[f].as
    BY <1>3 DEF S!Account
  <2>2. S!Put(flight[f].tab, [token |-> token, shown |-> flight[f].as], FALSE)
    BY <1>3 DEF S!SignedIn
  <2> HIDE DEF token
  <2> QED
    BY <1>1, <1>3, <2>1, <2>2, PutEffect
<1>4. ASSUME NEW goes \in BOOLEAN, S!Put(flight[f].tab, S!SignedOut, goes)
      PROVE  /\ tab' \in [Tabs -> TabType]
             /\ \A s \in Tabs : tab'[s].shown \in Users => tab'[s].token.user = tab'[s].shown
  <2>1. S!NoToken \in [user : S!Account, live : BOOLEAN] /\ "out" \notin Users
    BY SessionAssumption DEF S!NoToken, S!Account
  <2>2. S!Put(flight[f].tab, [token |-> S!NoToken, shown |-> "out"], goes)
    BY <1>4 DEF S!SignedOut
  <2> QED
    BY <1>1, <2>1, <2>2, PutEffect
<1>5. ASSUME S!Ends(f)
      PROVE  One(f) /\ flight'[f] = S!Idle /\ Shaped(flight'[f])
  BY <1>5, EndsEffect, IdleTyped
<1>6. CASE S!BootArrives(f)
  <2>1. /\ S!Ends(f) /\ ended' = ended /\ flight[f].op = "boot" /\ flight[f].leg = "refresh"
    BY <1>0, <1>6 DEF S!BootArrives, S!Arrives, Shaped
  <2>2. CASE flight[f].reply = "ok"
    <3>1. flight[f].as \in Users
      BY <1>0, <2>1, <2>2 DEF Shaped, FlightType, S!Account
    <3>2. S!CookieOf(flight[f].as) /\ S!Put(flight[f].tab, S!SignedIn(flight[f].as), FALSE)
      BY <1>6, <2>2 DEF S!BootArrives, S!Ok
    <3>3. Brings(flight[f])
      BY <1>1, <2>1, <3>1, SessionAssumption DEF Brings
    <3> QED
      BY <1>1, <1>2, <1>3, <1>5, <2>1, <3>1, <3>2, <3>3 DEF Paged
  <2>3. CASE flight[f].reply # "ok"
    <3> DEFINE token == tab[flight[f].tab].token
    <3>1. token \in [user : S!Account, live : BOOLEAN]
      BY <1>0, <1>1 DEF TabType
    <3>2. S!Shown(token) \in Users \cup {"checking", "out"} /\ (S!Shown(token) \in Users => token.user = S!Shown(token))
      BY <3>1, SessionAssumption DEF S!Shown, S!Account
    <3>3. S!Put(flight[f].tab, [token |-> token, shown |-> S!Shown(token)], FALSE)
          /\ UNCHANGED <<cookie, swapped>>
      BY <1>6, <2>3 DEF S!BootArrives, S!Ok, S!NoCookie
    <3> HIDE DEF token
    <3>4. /\ tab' \in [Tabs -> TabType]
          /\ \A s \in Tabs : tab'[s].shown \in Users => tab'[s].token.user = tab'[s].shown
      BY <1>1, <3>1, <3>2, <3>3, PutEffect
    <3> QED
      BY <1>0, <1>1, <1>5, <2>1, <3>3, <3>4 DEF Paged
  <2> QED
    BY <2>2, <2>3
<1>7. CASE S!SignInArrives(f)
  <2>1. S!Ends(f) /\ ended' = ended /\ flight[f].op \in S!SignIns
    BY <1>7 DEF S!SignInArrives, S!Arrives
  <2>2. flight[f].as \in Users /\ Brings(flight[f])
    BY <1>0, <1>1, <2>1 DEF Shaped, S!SignIns, Brings
  <2>3. \/ S!CookieOf(flight[f].as)
        \/ UNCHANGED <<cookie, swapped>>
    BY <1>7 DEF S!SignInArrives, S!NoCookie
  <2>4. tab' = tab \/ S!Put(flight[f].tab, S!SignedIn(flight[f].as), FALSE)
    BY <1>7 DEF S!SignInArrives
  <2>5. /\ tab' \in [Tabs -> TabType]
        /\ \A s \in Tabs : tab'[s].shown \in Users => tab'[s].token.user = tab'[s].shown
    BY <1>0, <1>t, <1>3, <2>2, <2>4
  <2>6. /\ cookie' = cookie \/ cookie' \in Users
        /\ swapped' \in BOOLEAN /\ (swapped => swapped')
    BY <1>0, <1>2, <2>2, <2>3
  <2> QED
    BY <1>1, <1>5, <2>1, <2>2, <2>5, <2>6 DEF Paged
<1>8. CASE S!OthersArrive(f)
  <2>1. S!Ends(f) /\ UNCHANGED <<cookie, swapped, tab, ended>>
    BY <1>8 DEF S!OthersArrive, S!NoCookie
  <2> QED
    BY <1>0, <1>t, <1>1, <1>5, <2>1 DEF Paged
<1>9. CASE S!CallArrives(f)
  <2>1. UNCHANGED <<cookie, swapped, tab, ended>> /\ flight[f].op = "api" /\ flight[f].leg = "call"
    BY <1>9 DEF S!CallArrives, S!NoCookie, S!Arrives
  <2>2. CASE ~S!WorthRetry(f)
    BY <1>0, <1>t, <1>1, <1>5, <1>9, <2>1, <2>2 DEF Paged, S!CallArrives
  <2>3. CASE S!WorthRetry(f)
    <3> DEFINE n == [flight[f] EXCEPT !.leg = "refresh", !.pc = "up", !.again = TRUE, !.as = cookie,
                                      !.reply = "none"]
    <3>1. flight' = [flight EXCEPT ![f] = n]
      BY <1>9, <2>3 DEF S!CallArrives
    <3>2. /\ n \in FlightType /\ n.op = flight[f].op /\ n.leg = "refresh" /\ n.tab = flight[f].tab
          /\ n.asker = flight[f].asker /\ n.as = cookie /\ n.pc = "up" /\ n.done = flight[f].done
          /\ n.reply = "none"
      BY <1>0 DEF FlightType
    <3> HIDE DEF n
    <3>3. One(f) /\ flight'[f] = n
      BY <3>1, <3>2, FlightTyped DEF One
    <3>4. flight[f].done = 0
      BY <1>0, <1>1, <2>1, <2>3 DEF Shaped, S!WorthRetry
    <3>5. Shaped(n)
      BY <1>0, <1>1, <2>1, <3>2, <3>4 DEF Shaped
    <3>6. Retries(f)
      BY <2>1, <3>2, <3>3, <3>4 DEF Retries
    <3> QED
      BY <1>0, <1>t, <1>1, <2>1, <3>3, <3>5, <3>6 DEF Paged
  <2> QED
    BY <2>2, <2>3
<1>10. CASE S!RefreshArrives(f)
  <2>1. ended' = ended /\ flight[f].op = "api" /\ flight[f].leg = "refresh"
    BY <1>10 DEF S!RefreshArrives, S!Arrives
  <2>2. CASE flight[f].reply # "ok"
    <3>1. /\ S!Ends(f) /\ UNCHANGED <<cookie, swapped>>
          /\ S!Put(flight[f].tab, S!SignedOut, tab[flight[f].tab].shown # "out")
      BY <1>10, <2>2 DEF S!RefreshArrives, S!Ok, S!NoCookie
    <3> QED
      BY <1>0, <1>1, <1>4, <1>5, <2>1, <3>1 DEF Paged
  <2>3. CASE flight[f].reply = "ok"
    <3> DEFINE n == [flight[f] EXCEPT !.leg = "call", !.pc = "up", !.reply = "none"]
    <3>1. /\ flight' = [flight EXCEPT ![f] = n]
          /\ S!CookieOf(flight[f].as) /\ S!Put(flight[f].tab, S!SignedIn(flight[f].as), FALSE)
      BY <1>10, <2>3 DEF S!RefreshArrives, S!Ok
    <3>2. /\ n \in FlightType /\ n.op = flight[f].op /\ n.leg = "call" /\ n.tab = flight[f].tab
          /\ n.asker = flight[f].asker /\ n.as = flight[f].as /\ n.pc = "up" /\ n.done = flight[f].done
          /\ n.reply = "none"
      BY <1>0 DEF FlightType
    <3>a. flight[f].as \in Users
      BY <1>0, <2>1, <2>3 DEF Shaped, FlightType, S!Account
    <3> HIDE DEF n
    <3>3. One(f) /\ flight'[f] = n
      BY <3>1, <3>2, FlightTyped DEF One
    <3>4. flight[f].done = 0
      BY <1>0, <1>1, <2>1 DEF Shaped
    <3>5. Shaped(n)
      BY <1>0, <1>1, <2>1, <3>2, <3>4 DEF Shaped
    <3>6. Retries(f)
      BY <2>1, <2>3, <3>1, <3>2, <3>3, <3>4 DEF Retries
    <3>7. Brings(flight[f])
      BY <1>1, <2>1, <3>a, SessionAssumption DEF Brings
    <3> QED
      BY <1>1, <1>2, <1>3, <2>1, <3>1, <3>3, <3>5, <3>6, <3>7, <3>a DEF Paged
  <2> QED
    BY <2>2, <2>3
<1>11. CASE S!LogoutArrives(f)
  <2>1. /\ S!Ends(f) /\ swapped' = swapped /\ flight[f].op = "logout"
        /\ S!Put(flight[f].tab, S!SignedOut, TRUE)
    BY <1>11 DEF S!LogoutArrives, S!Arrives
  <2>2. cookie' \in {cookie, Nobody} /\ ended' \in {"clean", "crossed", "failed"}
    BY <1>11 DEF S!LogoutArrives, S!Cleared
  <2>3. ended' = "clean" => cookie' = Nobody /\ \A g \in S!Flights \ {f} : ~Brings(flight[g])
    BY <1>11 DEF S!LogoutArrives, S!Cleared, S!Pending, Brings
  <2> QED
    BY <1>0, <1>1, <1>4, <1>5, <2>1, <2>2, <2>3 DEF Paged
<1> QED
  BY <1>6, <1>7, <1>8, <1>9, <1>10, <1>11 DEF S!PageStep

(* The steps of the session.                                               *)
Expires ==
  /\ UNCHANGED <<pass, google, flight, asked, lost, swapped, ended, overlap, respent>>
  /\ tab' \in [Tabs -> TabType]
  /\ \A t \in Tabs : tab'[t].shown \in Users => tab'[t].token.user = tab'[t].shown
  /\ cookie' \in {cookie, Nobody} /\ links' \subseteq links /\ expired' \in 0 .. MaxExpired
Loads ==
  /\ Dropped
  /\ tab' \in [Tabs -> TabType]
  /\ \A s \in Tabs : tab'[s].shown \in Users => tab'[s].token.user = tab'[s].shown
  /\ asked' \in {asked, asked + 1} /\ asked' \in 0 .. MaxRequests
  /\ UNCHANGED <<pass, google, cookie, links, lost, expired, swapped, ended, overlap, respent>>
Boots(t) ==
  /\ One(t) /\ flight[t].pc = "idle"
  /\ flight'[t].op = "boot" /\ flight'[t].leg = "refresh" /\ flight'[t].pc = "up"
  /\ flight'[t].tab = t /\ flight'[t].as = cookie /\ flight'[t].reply = "none"
  /\ UNCHANGED <<pass, google, cookie, tab, links, asked, lost, expired, swapped, ended, overlap,
                 respent>>

(* Every step is one of these, of one flight or of one page.               *)
LEMMA SessionSteps ==
  ASSUME Types, S!Next
  PROVE  \/ \E f \in S!Flights : Sent(f) \/ S!ServerStep(f) \/ S!Lose(f) \/ Paged(f)
         \/ \E t \in Tabs : Boots(t)
         \/ Loads \/ Expires
<1>0. /\ asked \in 0 .. MaxRequests /\ expired \in 0 .. MaxExpired /\ MaxRequests \in Nat
      /\ MaxExpired \in Nat /\ tab \in [Tabs -> TabType]
      /\ \A t \in Tabs : tab[t].shown \in Users => tab[t].token.user = tab[t].shown
  BY FlightTyped DEF Types, S!TypeOK
<1>1. CASE Asking
  BY <1>1, AskingEffect
<1>2. ASSUME NEW t \in Tabs, S!Reload(t) \/ S!Unload(t) PROVE Loads
  BY <1>0, <1>2, LoadEffect DEF S!Reload, S!Unload, Loads
<1>3. ASSUME NEW t \in Tabs, S!ExpireToken(t) PROVE Expires
  <2> DEFINE p == [tab[t] EXCEPT !.token.live = FALSE]
  <2>1. p \in TabType /\ p.shown = tab[t].shown /\ p.token.user = tab[t].token.user
    BY <1>0 DEF TabType
  <2>2. tab' = [tab EXCEPT ![t] = p]
    BY <1>3 DEF S!ExpireToken
  <2> HIDE DEF p
  <2>3. /\ tab' \in [Tabs -> TabType]
        /\ \A s \in Tabs : tab'[s].shown \in Users => tab'[s].token.user = tab'[s].shown
    BY <1>0, <2>1, <2>2
  <2>4. expired' \in 0 .. MaxExpired
    BY <1>0, <1>3 DEF S!ExpireToken
  <2> QED
    BY <1>3, <2>3, <2>4 DEF S!ExpireToken, Expires, S!accounts, S!history
<1>4. CASE S!ExpireCookie
  BY <1>0, <1>4 DEF S!ExpireCookie, Expires, S!accounts, S!history
<1>5. ASSUME NEW link \in links, S!ExpireLink(link) PROVE Expires
  BY <1>0, <1>5 DEF S!ExpireLink, Expires, S!accounts, S!history
<1>6. ASSUME NEW t \in Tabs, S!Bootstrap(t) PROVE Boots(t)
  BY <1>6, BootstrapEffect DEF Boots
<1> QED
  BY <1>1, <1>2, <1>3, <1>4, <1>5, <1>6, PageEffect, Zenon
    DEF S!Next, S!UserStep, Asking

(* Acts are counted before what they may change is.                        *)
LEMMA CountedStep ==
  ASSUME SessionInv, S!Next, NEW u \in Users
  PROVE  Counted(u)'
<1>0. /\ Types /\ IsFiniteSet(Outstanding(u)) /\ pass[u] \in Nat /\ asked \in Nat
      /\ pass[u] + Cardinality(Outstanding(u)) <= asked + 1
      /\ Cardinality(Outstanding(u)) \in Nat
      /\ \A v \in Users : pass[v] \in Nat
  <2>1. Types /\ Counted(u)
    BY DEF SessionInv
  <2>2. MaxRequests \in Nat /\ pass \in [Users -> 0 .. MaxRequests + 1] /\ asked \in 0 .. MaxRequests
    BY <2>1, FlightTyped DEF Types, S!TypeOK
  <2> QED
    BY <2>1, <2>2, FS_CardinalityType DEF Counted
<1>1. ASSUME NEW T, T \subseteq Outstanding(u), Outstanding(u)' \subseteq T,
             pass'[u] \in Nat, asked' \in Nat, asked' >= asked,
             pass'[u] + Cardinality(T) <= asked + 1
      PROVE  Counted(u)'
  <2>1. IsFiniteSet(T)
    BY <1>0, <1>1, FS_Subset
  <2>2. /\ IsFiniteSet(Outstanding(u)') /\ Cardinality(Outstanding(u)') <= Cardinality(T)
        /\ Cardinality(Outstanding(u)') \in Nat /\ Cardinality(T) \in Nat
    BY <1>1, <2>1, FS_Subset, FS_CardinalityType
  <2> QED
    BY <1>0, <1>1, <2>2 DEF Counted
<1>2. ASSUME Outstanding(u)' \subseteq Outstanding(u), pass'[u] = pass[u],
             asked' \in {asked, asked + 1}
      PROVE  Counted(u)'
  BY <1>0, <1>1, <1>2
<1>3. ASSUME NEW f \in S!Flights, Sent(f) PROVE Counted(u)'
  <2>1. Outstanding(u)' \subseteq Outstanding(u) \cup {f}
    BY <1>3 DEF Outstanding, Sent, One
  <2>a. IsFiniteSet(Outstanding(u))
    BY <1>0
  <2>b. /\ IsFiniteSet(Outstanding(u) \cup {f})
        /\ Cardinality(Outstanding(u) \cup {f}) = IF f \in Outstanding(u) THEN Cardinality(Outstanding(u))
                                                 ELSE Cardinality(Outstanding(u)) + 1
    BY <2>a, FS_AddElement, Zenon
  <2>2. /\ IsFiniteSet(Outstanding(u) \cup {f})
        /\ Cardinality(Outstanding(u) \cup {f}) <= Cardinality(Outstanding(u)) + 1
        /\ Cardinality(Outstanding(u) \cup {f}) \in Nat
    BY <1>0, <2>b
  <2>3. /\ IsFiniteSet(Outstanding(u)') /\ Cardinality(Outstanding(u)') \in Nat
        /\ Cardinality(Outstanding(u)') <= Cardinality(Outstanding(u) \cup {f})
    BY <2>1, <2>2, FS_Subset, FS_CardinalityType
  <2> QED
    BY <1>0, <1>3, <2>2, <2>3 DEF Counted, Sent
<1>4. ASSUME NEW f \in S!Flights, S!ServerStep(f) \/ S!Lose(f) PROVE Counted(u)'
  <2>1. Served(f) /\ Stored(f)
    BY <1>0, <1>4, ServerEffect
  <2>2. Outstanding(u)' \subseteq Outstanding(u)
    BY <2>1, IdleTyped DEF Served, One, Carried, Outstanding, Making
  <2>3. CASE pass' = pass
    BY <1>2, <2>1, <2>2, <2>3 DEF Served
  <2>4. ASSUME NEW v \in Users, Making(flight[f], v), flight'[f].pc \in {"idle", "down"},
               pass' = [pass EXCEPT ![v] = pass[v] + 1]
        PROVE  Counted(u)'
    <3>1. CASE v # u
      <4>1. pass'[u] = pass[u]
        BY <2>4, <3>1, <1>0 DEF Types, S!TypeOK
      <4> QED
        BY <1>2, <2>1, <2>2, <4>1 DEF Served
    <3>2. CASE v = u
      <4>1. f \in Outstanding(u) /\ Outstanding(u)' \subseteq Outstanding(u) \ {f}
        BY <2>2, <2>4, <3>2 DEF Outstanding, Making
      <4>2. pass'[u] = pass[u] + 1
        BY <2>4, <3>2, <1>0 DEF Types, S!TypeOK
      <4>3. Cardinality(Outstanding(u) \ {f}) = Cardinality(Outstanding(u)) - 1
        BY <1>0, <4>1, FS_RemoveElement
      <4>4. asked' = asked
        BY <2>1 DEF Served
      <4>5. pass'[u] \in Nat /\ pass'[u] + Cardinality(Outstanding(u) \ {f}) <= asked + 1
        BY <1>0, <4>2, <4>3
      <4> QED
        BY <1>0, <1>1, <4>1, <4>4, <4>5
    <3> QED
      BY <3>1, <3>2
  <2> QED
    BY <2>1, <2>3, <2>4 DEF Stored
<1>5. ASSUME NEW f \in S!Flights, Paged(f) PROVE Counted(u)'
  <2>1. Outstanding(u)' \subseteq Outstanding(u)
    BY <1>5, IdleTyped DEF Paged, One, Outstanding, Making, Makers, Retries
  <2> QED
    BY <1>2, <1>5, <2>1 DEF Paged
<1>6. ASSUME NEW t \in Tabs, Boots(t) PROVE Counted(u)'
  <2>1. Outstanding(u)' \subseteq Outstanding(u)
    BY <1>6 DEF Boots, One, Outstanding, Making, Makers
  <2> QED
    BY <1>2, <1>6, <2>1 DEF Boots
<1>7. CASE Loads
  <2>1. Outstanding(u)' \subseteq Outstanding(u)
    BY <1>7, IdleTyped DEF Loads, Dropped, Carried, Outstanding, Making
  <2> QED
    BY <1>2, <1>7, <2>1 DEF Loads
<1>8. CASE Expires
  BY <1>2, <1>8 DEF Expires, Outstanding
<1> QED
  BY <1>0, <1>3, <1>4, <1>5, <1>6, <1>7, <1>8, SessionSteps

(* Every step keeps the types; no password outgrows the acts.              *)
LEMMA TypesStep ==
  ASSUME SessionInv, S!Next
  PROVE  Types'
<1>0. /\ Types /\ MaxRequests \in Nat /\ MaxExpired \in Nat /\ MaxLost \in Nat
      /\ asked \in 0 .. MaxRequests /\ lost \in 0 .. MaxLost /\ expired \in 0 .. MaxExpired
      /\ pass \in [Users -> 0 .. MaxRequests + 1]
      /\ links \subseteq [user : Users, pass : 1 .. MaxRequests + 1]
      /\ swapped \in BOOLEAN /\ ended \in {"no", "clean", "crossed", "failed"}
      /\ google \subseteq Users /\ overlap \subseteq Users /\ respent \subseteq Users
      /\ cookie \in S!Account /\ Users \subseteq S!Account /\ Nobody \in S!Account
  BY FlightTyped DEF SessionInv, Types, S!TypeOK, S!Account
<1>1. /\ asked' \in 0 .. MaxRequests /\ lost' \in 0 .. MaxLost /\ expired' \in 0 .. MaxExpired
      /\ swapped' \in BOOLEAN /\ ended' \in {"no", "clean", "crossed", "failed"}
      /\ google' \subseteq Users /\ overlap' \subseteq Users /\ respent' \subseteq Users
      /\ cookie' \in S!Account
  BY <1>0, SessionSteps, ServerEffect DEF Sent, Served, Stored, Paged, Boots, Loads, Expires
<1>2. pass' \in [Users -> Nat]
  <2>1. pass \in [Users -> Nat]
    BY <1>0
  <2> QED
    BY <1>0, <2>1, SessionSteps, ServerEffect DEF Sent, Stored, Paged, Boots, Loads, Expires
<1>3. \A u \in Users : pass'[u] <= MaxRequests + 1
  <2> TAKE u \in Users
  <2>1. /\ IsFiniteSet(Outstanding(u)')
        /\ pass'[u] + Cardinality(Outstanding(u)') <= asked' + 1
    BY CountedStep DEF Counted
  <2>2. Cardinality(Outstanding(u)') \in Nat
    BY <2>1, FS_CardinalityType
  <2> QED
    BY <1>0, <1>1, <1>2, <2>1, <2>2
<1>4. pass' \in [Users -> 0 .. MaxRequests + 1]
  BY <1>0, <1>2, <1>3
<1>5. links' \subseteq [user : Users, pass : 1 .. MaxRequests + 1]
  <2>1. \A u \in {v \in Users : pass[v] > 0} : [user |-> u, pass |-> pass[u]] \in [user : Users, pass : 1 .. MaxRequests + 1]
    BY <1>0
  <2>2. \/ links' \subseteq links
        \/ links' \subseteq links \cup {[user |-> u, pass |-> pass[u]] : u \in {v \in Users : pass[v] > 0}}
    BY <1>0, SessionSteps, ServerEffect DEF Sent, Stored, Paged, Boots, Loads, Expires
  <2> QED
    BY <1>0, <2>1, <2>2
<1>6. flight' \in [S!Flights -> FlightType] /\ \A f \in S!Flights : Shaped(flight'[f])
  <2>0. flight \in [S!Flights -> FlightType] /\ \A f \in S!Flights : Shaped(flight[f])
    BY <1>0, FlightTyped DEF Types
  <2>1. ASSUME NEW f \in S!Flights, Sent(f) PROVE Shaped(flight'[f]) /\ One(f)
    BY <2>1 DEF Sent, Shaped, Makers
  <2>2. ASSUME NEW f \in S!Flights, S!ServerStep(f) \/ S!Lose(f) PROVE Shaped(flight'[f]) /\ One(f)
    BY <1>0, <2>2, ServerEffect DEF Served
  <2>3. ASSUME NEW f \in S!Flights, Paged(f) PROVE Shaped(flight'[f]) /\ One(f)
    BY <2>3 DEF Paged
  <2>4. ASSUME NEW t \in Tabs, Boots(t) PROVE Shaped(flight'[t]) /\ One(t) /\ t \in S!Flights
    BY <2>4, <1>0, FlightTyped DEF Boots, Shaped, Makers
  <2>5. CASE \E f \in S!Flights : Shaped(flight'[f]) /\ One(f)
    BY <2>0, <2>5 DEF One
  <2>6. CASE Loads
    <3>1. flight' \in [S!Flights -> FlightType]
      BY <2>6 DEF Loads, Dropped
    <3>2. ASSUME NEW f \in S!Flights PROVE Shaped(flight'[f])
      BY <2>0, <2>6, IdleTyped DEF Loads, Dropped, Carried, Shaped, Makers
    <3> QED
      BY <3>1, <3>2
  <2>7. CASE Expires
    BY <2>0, <2>7 DEF Expires
  <2> QED
    BY <1>0, <2>1, <2>2, <2>3, <2>4, <2>5, <2>6, <2>7, SessionSteps
<1>7. /\ tab' \in [Tabs -> TabType]
      /\ \A t \in Tabs : tab'[t].shown \in Users => tab'[t].token.user = tab'[t].shown
  <2>1. /\ tab \in [Tabs -> TabType]
        /\ \A t \in Tabs : tab[t].shown \in Users => tab[t].token.user = tab[t].shown
    BY <1>0, FlightTyped DEF Types
  <2> QED
    BY <1>0, <2>1, SessionSteps, ServerEffect DEF Sent, Served, Paged, Boots, Loads, Expires
<1> QED
  BY <1>1, <1>4, <1>5, <1>6, <1>7 DEF Types, S!TypeOK, FlightType, TabType, S!Account

(* A call keeps the account of its page, or the cookie has been another's. *)
LEMMA FaithfulStep ==
  ASSUME SessionInv, S!Next, NEW g \in S!Flights
  PROVE  Faithful(flight[g])'
<1>0. Types /\ Faithful(flight[g]) /\ swapped \in BOOLEAN /\ Shaped(flight[g])
  BY DEF SessionInv, Types, S!TypeOK
<1>1. ASSUME NEW f \in S!Flights, Sent(f) PROVE Faithful(flight[g])'
  BY <1>0, <1>1 DEF Sent, One, Faithful
<1>2. ASSUME NEW f \in S!Flights, S!ServerStep(f) \/ S!Lose(f) PROVE Faithful(flight[g])'
  <2>1. Served(f)
    BY <1>0, <1>2, ServerEffect
  <2> QED
    BY <1>0, <2>1, IdleTyped DEF Served, One, Carried, Faithful
<1>3. ASSUME NEW f \in S!Flights, Paged(f) PROVE Faithful(flight[g])'
  <2>1. CASE g # f
    BY <1>0, <1>3, <2>1 DEF Paged, One, Faithful
  <2>2. CASE g = f /\ flight'[f] = S!Idle
    BY <2>2, IdleTyped DEF Faithful
  <2>3. CASE g = f /\ Retries(f)
    <3>1. CASE flight'[f].leg = "refresh"
      BY <2>3, <3>1 DEF Faithful
    <3>2. CASE flight[f].leg = "refresh" /\ S!CookieOf(flight[f].as)
      <4>1. flight'[f].as = flight[f].as /\ flight'[f].asker = flight[f].asker
        BY <2>3, <3>2 DEF Retries
      <4>2. flight[f].asker \in Users
        <5>1. Shaped(flight'[f]) /\ flight'[f].op = "api"
          BY <1>3, <2>3 DEF Paged, Retries
        <5> QED
          BY <4>1, <5>1 DEF Shaped
      <4>3. flight[f].asker # flight[f].as => swapped'
        BY <3>2, <4>2 DEF S!CookieOf
      <4> QED
        BY <2>3, <4>1, <4>3 DEF Faithful
    <3> QED
      BY <2>3, <3>1, <3>2 DEF Retries
  <2> QED
    BY <1>3, <2>1, <2>2, <2>3 DEF Paged
<1>4. ASSUME NEW t \in Tabs, Boots(t) PROVE Faithful(flight[g])'
  BY <1>0, <1>4 DEF Boots, One, Faithful
<1>5. CASE Loads
  BY <1>0, <1>5, IdleTyped DEF Loads, Dropped, Carried, Faithful
<1>6. CASE Expires
  BY <1>0, <1>6 DEF Expires, Faithful
<1> QED
  BY <1>0, <1>1, <1>2, <1>3, <1>4, <1>5, <1>6, SessionSteps

(* After a clean sign-out nothing under way brings a cookie: a refresh that *)
(* starts then has none to send.                                            *)
LEMMA QuietedStep ==
  ASSUME SessionInv, S!Next
  PROVE  Quieted'
<1> SUFFICES ASSUME ended' = "clean"
             PROVE  cookie' = Nobody /\ \A g \in S!Flights : ~Brings(flight'[g])
  BY DEF Quieted, Brings
<1>0. Types /\ (ended = "clean" => cookie = Nobody /\ \A g \in S!Flights : ~Brings(flight[g]))
  BY DEF SessionInv, Quieted
<1>n. Nobody \notin Users
  BY SessionAssumption
<1>1. ASSUME NEW f \in S!Flights, Sent(f)
      PROVE  cookie' = Nobody /\ \A g \in S!Flights : ~Brings(flight'[g])
  <2>1. ended = "clean" /\ flight'[f].op \notin S!SignIns /\ flight'[f].leg = "call"
    BY <1>1 DEF Sent
  <2> QED
    BY <1>0, <1>1, <2>1 DEF Sent, One, Brings
<1>2. ASSUME NEW f \in S!Flights, S!ServerStep(f) \/ S!Lose(f)
      PROVE  cookie' = Nobody /\ \A g \in S!Flights : ~Brings(flight'[g])
  <2>1. Served(f)
    BY <1>0, <1>2, ServerEffect
  <2> QED
    BY <1>0, <2>1, IdleTyped DEF Served, One, Carried, Brings
<1>3. ASSUME NEW f \in S!Flights, Paged(f)
      PROVE  cookie' = Nobody /\ \A g \in S!Flights : ~Brings(flight'[g])
  <2>1. CASE ended = "clean"
    <3>1. ~Brings(flight[f]) /\ cookie = Nobody /\ \A g \in S!Flights : ~Brings(flight[g])
      BY <1>0, <2>1
    <3>2. cookie' = Nobody
      BY <1>3, <3>1 DEF Paged
    <3>3. ~Brings(flight'[f])
      <4>1. CASE Retries(f)
        BY <3>1, <4>1 DEF Retries, Brings, S!SignIns
      <4> QED
        BY <1>3, <4>1, IdleTyped DEF Paged
    <3> QED
      BY <1>3, <3>1, <3>2, <3>3 DEF Paged, One
  <2>2. CASE ended # "clean"
    <3>1. /\ flight'[f] = S!Idle /\ cookie' = Nobody /\ \A g \in S!Flights \ {f} : ~Brings(flight[g])
      BY <1>3, <2>2 DEF Paged
    <3> QED
      BY <1>3, <3>1, IdleTyped DEF Paged, One
  <2> QED
    BY <2>1, <2>2
<1>4. ASSUME NEW t \in Tabs, Boots(t)
      PROVE  cookie' = Nobody /\ \A g \in S!Flights : ~Brings(flight'[g])
  <2>1. ended = "clean" /\ cookie' = Nobody /\ ~Brings(flight'[t])
    BY <1>0, <1>4 DEF Boots, Brings, S!SignIns
  <2> QED
    BY <1>0, <1>4, <2>1 DEF Boots, One
<1>5. CASE Loads
  BY <1>0, <1>5, IdleTyped DEF Loads, Dropped, Carried, Brings
<1>6. CASE Expires
  BY <1>0, <1>6 DEF Expires
<1> QED
  BY <1>0, <1>1, <1>2, <1>3, <1>4, <1>5, <1>6, SessionSteps

(* Only the read of a reset lets a reset go on to its save.                *)
LEMMA OnlyReads ==
  ASSUME Types, NEW f \in S!Flights, S!ServerStep(f) \/ S!Lose(f),
         flight'[f].pc = "saw", flight[f].op = "reset"
  PROVE  S!ResetRead(f)
<1>0. Shaped(flight[f])
  BY DEF Types
<1>1. \A reply \in Replies : ~S!Answer(f, reply)
  BY AnswerEffect, IdleTyped DEF Answered
<1> QED
  BY <1>0, <1>1 DEF S!ServerStep, S!Lose, S!ServeApi, S!ServeRefresh, S!ServeLogout, S!ServeForgot,
       S!LoginRead, S!RegisterRead, S!ReadAccount, S!GoogleRead, S!SaveSeen, S!CreateAccount,
       S!ResetSave, S!AtServer, Shaped, Replies

(* Two resets between their read and their save are noted, and a save that *)
(* finds another password than its link was made of is one of the two.     *)
LEMMA ApartStep ==
  ASSUME SessionInv, S!Next
  PROVE  Apart'
<1>0. Types /\ Apart /\ \A f \in S!Flights : Shaped(flight[f])
  BY DEF SessionInv, Types
<1>t. pass \in [Users -> 0 .. MaxRequests + 1] /\ MaxRequests \in Nat
      /\ overlap \subseteq Users /\ flight \in [S!Flights -> FlightType]
  BY <1>0, FlightTyped DEF Types, S!TypeOK
<1>1. ASSUME \A u \in Users : \A f \in S!Resetting(u)' :
               f \in S!Resetting(u) /\ flight'[f].with = flight[f].with,
             UNCHANGED <<pass, overlap, respent>>
      PROVE  Apart'
  <2>1. \A u \in Users : \A f, g \in S!Resetting(u)' : f = g \/ u \in overlap'
    BY <1>0, <1>1 DEF Apart
  <2>2. \A u \in Users : \A f \in S!Resetting(u)' : flight'[f].with = pass'[u] \/ u \in overlap'
    BY <1>0, <1>1 DEF Apart
  <2>3. respent' \subseteq overlap'
    BY <1>0, <1>1 DEF Apart, S!LinkSpentOnce
  <2> QED
    BY <2>1, <2>2, <2>3 DEF Apart, S!LinkSpentOnce
<1>2. ASSUME NEW f \in S!Flights, Sent(f) PROVE Apart'
  BY <1>1, <1>2 DEF Sent, One, S!Resetting, S!AtServer
<1>3. ASSUME NEW f \in S!Flights, Paged(f) PROVE Apart'
  BY <1>1, <1>3, IdleTyped DEF Paged, One, Retries, S!Resetting, S!AtServer
<1>4. ASSUME NEW t \in Tabs, Boots(t) PROVE Apart'
  BY <1>1, <1>4 DEF Boots, One, S!Resetting, S!AtServer
<1>5. CASE Loads
  BY <1>1, <1>5, IdleTyped DEF Loads, Dropped, Carried, S!Resetting, S!AtServer
<1>6. CASE Expires
  BY <1>1, <1>6 DEF Expires, S!Resetting, S!AtServer
<1>7. ASSUME NEW f \in S!Flights, S!ServerStep(f) \/ S!Lose(f) PROVE Apart'
  <2>0. Served(f) /\ Stored(f) /\ Shaped(flight[f])
    BY <1>0, <1>7, ServerEffect
  <2>1. CASE S!ResetRead(f)
    <3> DEFINE u == flight[f].as
    <3>1. /\ UNCHANGED <<pass, respent>> /\ u \in Users
          /\ flight[f].op = "reset" /\ flight[f].pc = "up"
          /\ overlap' = IF flight'[f].pc = "saw" /\ S!Resetting(u) # {} THEN overlap \cup {u} ELSE overlap
      BY <2>0, <2>1 DEF S!ResetRead, S!ReadAccount, S!AtServer, S!accounts, Shaped, Makers
    <3>2. flight'[f].pc = "saw" => flight[f].with = pass[u] /\ flight'[f].with = flight[f].with
      <4>1. \A Go \in BOOLEAN : S!ReadAccount(f, "reset", Go) /\ flight'[f].pc = "saw" => Go
        BY <1>0, AnswerEffect, IdleTyped DEF S!ReadAccount, Answered, Replies
      <4>2. PICK fresh \in BOOLEAN : S!ReadAccount(f, "reset", S!LinkHolds(f) /\ fresh)
        BY <2>1 DEF S!ResetRead
      <4>3. (S!LinkHolds(f) /\ fresh) \in BOOLEAN
        BY DEF S!LinkHolds
      <4>4. flight'[f].pc = "saw" => S!LinkHolds(f)
        BY <4>1, <4>2, <4>3
      <4> QED
        BY <2>0, <3>1, <4>4, IdleTyped DEF S!LinkHolds, Served, Carried
    <3>3. \A v \in Users : S!Resetting(v)' \subseteq S!Resetting(v) \cup (IF v = u /\ flight'[f].pc = "saw" THEN {f} ELSE {})
      BY <2>0, IdleTyped DEF Served, One, Carried, S!Resetting, S!AtServer
    <3>4. \A v \in Users : \A g \in S!Resetting(v)' : g # f => flight'[g].with = flight[g].with
      BY <2>0 DEF Served, One, S!Resetting
    <3> HIDE DEF u
    <3>5. \A v \in Users : \A g, h \in S!Resetting(v)' : g = h \/ v \in overlap'
      BY <1>0, <3>1, <3>3 DEF Apart
    <3>6. \A v \in Users : \A g \in S!Resetting(v)' : flight'[g].with = pass'[v] \/ v \in overlap'
      <4> TAKE v \in Users
      <4> TAKE g \in S!Resetting(v)'
      <4>1. CASE g = f
        BY <2>0, <3>1, <3>2, <3>3, <4>1 DEF S!Resetting, S!AtServer
      <4>2. CASE g # f
        BY <1>0, <3>1, <3>3, <3>4, <4>2 DEF Apart
      <4> QED
        BY <4>1, <4>2
    <3>7. respent' \subseteq overlap'
      BY <1>0, <3>1 DEF Apart, S!LinkSpentOnce
    <3> QED
      BY <3>5, <3>6, <3>7 DEF Apart, S!LinkSpentOnce
  <2>2. CASE ~S!ResetRead(f)
    <3>1. flight'[f].pc = "saw" => flight[f].op # "reset"
      BY <1>0, <1>7, <2>2, OnlyReads
    <3>2. \A v \in Users : \A g \in S!Resetting(v)' :
            g # f /\ g \in S!Resetting(v) /\ flight'[g].with = flight[g].with
      BY <2>0, <3>1, IdleTyped DEF Served, One, Carried, S!Resetting, S!AtServer
    <3>3. CASE S!ResetSave(f)
      <4> DEFINE u == flight[f].as
      <4>1. /\ f \in S!Resetting(u) /\ u \in Users /\ overlap' = overlap
            /\ pass' = [pass EXCEPT ![u] = pass[u] + 1]
            /\ respent' = IF flight[f].with = pass[u] THEN respent ELSE respent \cup {u}
        BY <2>0, <3>3 DEF S!ResetSave, S!Resetting, S!AtServer, Shaped, Makers
      <4> HIDE DEF u
      <4>2. respent' \subseteq overlap'
        BY <1>0, <4>1 DEF Apart, S!LinkSpentOnce
      <4>3. \A v \in Users : \A g \in S!Resetting(v)' : v = u => v \in overlap
        BY <1>0, <3>2, <4>1 DEF Apart
      <4>4. \A v \in Users : \A g \in S!Resetting(v)' : flight'[g].with = pass'[v] \/ v \in overlap'
        BY <1>0, <1>t, <3>2, <4>1, <4>3 DEF Apart
      <4>5. \A v \in Users : \A g, h \in S!Resetting(v)' : g = h \/ v \in overlap'
        BY <1>0, <3>2, <4>1 DEF Apart
      <4> QED
        BY <4>2, <4>4, <4>5 DEF Apart, S!LinkSpentOnce
    <3>4. CASE S!CreateAccount(f)
      <4>1. /\ UNCHANGED <<overlap, respent>>
            /\ pass' = pass \/ (pass' = [pass EXCEPT ![flight[f].as] = 1] /\ ~(pass[flight[f].as] > 0))
        BY <3>4 DEF S!CreateAccount, S!Exists, S!accounts, S!history
      <4>2. \A v \in Users : \A g \in S!Resetting(v) : flight[g].with >= 1
        BY <1>0 DEF S!Resetting, S!AtServer, Shaped
      <4>3. \A v \in Users : \A g \in S!Resetting(v) : v \in overlap \/ pass[v] > 0
        BY <1>0, <1>t, <4>2 DEF Apart
      <4>4. \A v \in Users : \A g \in S!Resetting(v)' : flight'[g].with = pass'[v] \/ v \in overlap'
        BY <1>0, <1>t, <3>2, <4>1, <4>3 DEF Apart
      <4>5. \A v \in Users : \A g, h \in S!Resetting(v)' : g = h \/ v \in overlap'
        BY <1>0, <3>2, <4>1 DEF Apart
      <4>6. respent' \subseteq overlap'
        BY <1>0, <4>1 DEF Apart, S!LinkSpentOnce
      <4> QED
        BY <4>4, <4>5, <4>6 DEF Apart, S!LinkSpentOnce
    <3>5. CASE ~S!ResetSave(f) /\ ~S!CreateAccount(f)
      <4>1. UNCHANGED <<pass, overlap, respent>>
        BY <1>7, <2>2, <3>5 DEF S!ServerStep, S!Lose, S!ServeApi, S!ServeRefresh, S!ServeLogout,
             S!ServeForgot, S!LoginRead, S!RegisterRead, S!ReadAccount, S!GoogleRead, S!SaveSeen,
             S!accounts, S!history
      <4> QED
        BY <1>1, <3>2, <4>1
    <3> QED
      BY <3>3, <3>4, <3>5
  <2> QED
    BY <2>1, <2>2
<1> QED
  BY <1>0, <1>2, <1>3, <1>4, <1>5, <1>6, <1>7, SessionSteps

(* At the start nothing is in flight.                                      *)
LEMMA SessionInit == S!Init => SessionInv
<1> SUFFICES ASSUME S!Init PROVE SessionInv
  OBVIOUS
<1>0. MaxRequests \in Nat /\ MaxLost \in Nat /\ MaxExpired \in Nat /\ Nobody \notin Users
  BY SessionAssumption
<1>1. /\ \A f \in S!Flights : flight[f] = S!Idle
      /\ \A t \in Tabs : tab[t] = S!FreshPage
      /\ \A u \in Users : pass[u] \in {0, 1}
  BY DEF S!Init
<1>2. flight \in [S!Flights -> FlightType] /\ \A f \in S!Flights : Shaped(flight[f]) /\ Faithful(flight[f])
  BY <1>1, IdleTyped DEF S!Init
<1>3. /\ tab \in [Tabs -> TabType]
      /\ \A t \in Tabs : tab[t].shown \in Users => tab[t].token.user = tab[t].shown
  BY SessionAssumption DEF S!Init, S!FreshPage, S!NoToken, TabType, S!Account
<1>a. pass \in [Users -> 0 .. MaxRequests + 1]
  BY <1>0 DEF S!Init
<1>b. asked \in 0 .. MaxRequests /\ lost \in 0 .. MaxLost /\ expired \in 0 .. MaxExpired
  BY <1>0 DEF S!Init
<1>c. S!TypeOK
  BY <1>2, <1>3, <1>a, <1>b DEF S!TypeOK, S!Init, FlightType, TabType, S!Account
<1>4. Types
  BY <1>2, <1>3, <1>c DEF Types
<1>5. \A u \in Users : Counted(u)
  <2> TAKE u \in Users
  <2>1. Outstanding(u) = {}
    BY <1>1, IdleTyped DEF Outstanding
  <2> QED
    BY <1>1, <2>1, FS_EmptySet DEF Counted, S!Init
<1>6. Quieted /\ Apart
  BY <1>1, IdleTyped DEF Quieted, Apart, S!Init, S!Resetting, S!AtServer, S!LinkSpentOnce
<1> QED
  BY <1>2, <1>4, <1>5, <1>6 DEF SessionInv

(* The invariant of the session holds through every step.                  *)
LEMMA SessionStep == SessionInv /\ [S!Next]_sessionVars => SessionInv'
<1>1. ASSUME SessionInv, S!Next PROVE SessionInv'
  BY <1>1, CountedStep, TypesStep, FaithfulStep, QuietedStep, ApartStep DEF SessionInv, S!Flights
<1>2. ASSUME SessionInv, UNCHANGED sessionVars PROVE SessionInv'
  BY <1>2 DEF SessionInv, sessionVars, Types, Counted, Faithful, Quieted, Apart, S!TypeOK,
       Outstanding, S!Resetting, S!AtServer, S!LinkSpentOnce
<1> QED
  BY <1>1, <1>2

(* A request was carried out once at most, for the account of its page.    *)
LEMMA SessionHonest == SessionInv => S!TypeOK /\ S!RequestsHonest
  BY DEF SessionInv, Types, Shaped, Faithful, S!RequestsHonest

-----------------------------------------------------------------------------
(* The call history.                                                       *)

CallType ==
  [dir : {"incoming", "outgoing"}, read : BOOLEAN, status : {"pending", "completed"} \cup B!Unreads]
EventType == [kind : {"sync", "log"}, call : Nat]

(* The calls with an event on its way, and those of them it will count.    *)
Announced == {inbox[i].call : i \in 1 .. Len(inbox)}
Due == {c \in B!Unread : c \in Announced /\ c \notin processed}

(* While nothing has crossed it, the badge misses exactly what is still on *)
(* its way; a count or a marking that nothing has crossed will be exact.   *)
BadgeInv ==
  /\ marks.sent <= opens
  /\ \A c \in B!Ids : B!Pending(c) => ~calls[c].read /\ c \notin processed /\ c \notin Announced
  /\ fetch.pc = "served" /\ fetch.clean =>
       inbox = <<>> /\ marks.sent = 0 /\ fetch.found = Cardinality(B!Unread)
  /\ marks.sent > 0 /\ marks.clean => marks.sent = 1 /\ badge = 0 /\ inbox = <<>>
  /\ marks.sent = 0 /\ ~off =>
       /\ badge + Cardinality(Due) = Cardinality(B!Unread)
       /\ \A c \in Announced : B!Counts(c) => c \in B!Unread

(* A page that was served begins where its request was, and what is shown  *)
(* is one run of records that ends at the cursor.                          *)
From == IF pageRequest.reset THEN askedFrom ELSE modal.cursor - 1
HistoryInv ==
  LET n == Len(modal.list)
  IN /\ \A i \in 1 .. n : modal.list[i] = modal.list[n] + (n - i)
     /\ n > 0 => modal.cursor = modal.list[n] /\ (~modal.more <=> modal.list[n] = 1)
     /\ n = 0 => modal.cursor = 0
     /\ pageRequest.pc # "none" /\ ~pageRequest.reset => n > 0 /\ modal.more
     /\ pageRequest.pc = "served" =>
          /\ Len(pageRequest.ids) = (IF From > Limit THEN Limit ELSE From)
          /\ \A i \in 1 .. Len(pageRequest.ids) : pageRequest.ids[i] = From + 1 - i
          /\ pageRequest.more <=> From > Limit
     /\ askedFrom # 0 /\ ~(pageRequest.pc = "served" /\ pageRequest.reset) =>
          n > 0 /\ modal.list[1] = askedFrom

BookInv == B!TypeOK /\ BadgeInv /\ HistoryInv

Below == {p \in Nat \X Nat : p[1] < p[2]}

(* A set of numbers has a smallest one.                                    *)
LEMMA Smallest ==
  ASSUME NEW N \in SUBSET Nat, N # {}
  PROVE  \E m \in N : \A n \in N : m <= n
<1>1. IsWellFoundedOn(Below, Nat)
  BY NatLessThanWellFounded DEF OpToRel, Below
<1>2. \A m, n \in Nat : m < n => <<m, n>> \in Below
  BY DEF Below
<1>3. PICK m \in N : \A n \in N : <<n, m>> \notin Below
  BY <1>1, WFMin
<1>4. \A n \in N : n \in Nat /\ ~(n < m)
  BY <1>2, <1>3
<1> QED
  BY <1>4

(* A page none of whose records is shown is taken whole.                   *)
LEMMA AllFresh ==
  ASSUME NEW ids \in Seq(Nat), \A i \in 1 .. Len(ids) : ~B!Contains(modal.list, ids[i])
  PROVE  B!Fresh(ids) = ids
<1> DEFINE D == 0 .. Len(ids)
           Step(F, n) == IF n = 0 THEN <<>>
                         ELSE IF B!Contains(modal.list, ids[n]) THEN F[n - 1]
                         ELSE Append(F[n - 1], ids[n])
           G == [n \in D |-> SubSeq(ids, 1, n)]
           Solves(F) == F = [n \in D |-> Step(F, n)]
           fresh == CHOOSE F : Solves(F)
<1>1. Len(ids) \in Nat
  BY LenProperties
<1>2. ASSUME NEW n \in D PROVE G[n] = Step(G, n)
  <2>1. n \in Nat /\ n <= Len(ids) /\ G[n] = SubSeq(ids, 1, n)
    BY <1>1
  <2>2. CASE n = 0
    BY <2>1, <2>2, SubSeqEmpty
  <2>3. CASE n # 0
    <3>1. n \in 1 .. Len(ids) /\ 1 \in 1 .. Len(ids) /\ n \in 1 .. Len(ids) /\ n - 1 \in D
      BY <2>1, <2>3
    <3>2. SubSeq(ids, 1, n) = SubSeq(ids, 1, n - 1) \o <<ids[n]>>
      BY <3>1, SubSeqRecursiveSecond
    <3>3. SubSeq(ids, 1, n - 1) \in Seq(Nat) /\ ids[n] \in Nat
      <4>1. \A i \in 1 .. n - 1 : ids[i] \in Nat
        BY <1>1, <3>1, ElementOfSeq
      <4> QED
        BY <3>1, <4>1, SubSeqProperties, ElementOfSeq
    <3>4. Append(SubSeq(ids, 1, n - 1), ids[n]) = SubSeq(ids, 1, n - 1) \o <<ids[n]>>
      BY <3>3, AppendIsConcat
    <3>5. G[n - 1] = SubSeq(ids, 1, n - 1)
      BY <3>1
    <3> QED
      BY <2>1, <2>3, <3>1, <3>2, <3>4, <3>5
  <2> QED
    BY <2>2, <2>3
<1>3. Solves(G)
  BY <1>2, Zenon
<1>4. Solves(fresh)
  <2> HIDE DEF Solves, G
  <2> QED
    BY <1>3
<1>5. \A n \in D : fresh[n] = Step(fresh, n)
  <2> HIDE DEF fresh, Step
  <2> QED
    BY <1>4
<1>6. fresh[Len(ids)] = G[Len(ids)]
  <2> DEFINE N == {n \in D : fresh[n] # G[n]}
  <2> HIDE DEF fresh, G, Step
  <2>1. SUFFICES ASSUME N # {} PROVE FALSE
    BY <1>1
  <2>2. N \in SUBSET Nat
    BY <1>1
  <2>3. PICK m \in N : \A n \in N : m <= n
    BY <2>1, <2>2, Smallest
  <2>4. m \in D /\ fresh[m] # G[m] /\ (m # 0 => m - 1 \in D /\ fresh[m - 1] = G[m - 1])
    BY <1>1, <2>3
  <2>5. Step(fresh, m) = Step(G, m)
    BY <2>4 DEF Step
  <2> QED
    BY <1>2, <1>5, <2>4, <2>5
<1>7. B!Fresh(ids) = fresh[Len(ids)]
  BY DEF B!Fresh
<1>8. G[Len(ids)] = SubSeq(ids, 1, Len(ids))
  BY <1>1
<1>9. SubSeq(ids, 1, Len(ids)) = ids
  BY SubSeqFull
<1> QED
  BY <1>6, <1>7, <1>8, <1>9

(* A page that arrives is put below the list, or in its place, as it is:   *)
(* it holds nothing the list already has.                                  *)
LEMMA PageArrivesEffect ==
  ASSUME B!TypeOK, HistoryInv, B!PageArrives
  PROVE  /\ pageRequest.pc = "served"
         /\ modal'.open = modal.open /\ modal'.more = pageRequest.more
         /\ modal'.list = IF pageRequest.reset THEN pageRequest.ids
                          ELSE modal.list \o pageRequest.ids
         /\ modal'.cursor = IF pageRequest.ids # <<>> THEN pageRequest.ids[Len(pageRequest.ids)]
                            ELSE IF pageRequest.reset THEN 0 ELSE modal.cursor
         /\ modal' \in [open : BOOLEAN, list : Seq(B!Ids), cursor : 0 .. Len(calls), more : BOOLEAN]
<1> DEFINE ids == pageRequest.ids
           list == modal.list
<1>1. /\ list \in Seq(B!Ids) /\ ids \in Seq(B!Ids) /\ Len(calls) \in Nat
      /\ modal.cursor \in 0 .. Len(calls) /\ modal.open \in BOOLEAN
      /\ pageRequest.more \in BOOLEAN /\ pageRequest.reset \in BOOLEAN
      /\ Len(list) \in Nat /\ Len(ids) \in Nat /\ B!Ids = 1 .. Len(calls)
  BY DEF B!TypeOK, B!Ids
<1>2. pageRequest.pc = "served"
  BY DEF B!PageArrives
<1>3. B!Merged = IF pageRequest.reset THEN ids ELSE list \o ids
  <2>1. CASE pageRequest.reset
    BY <2>1 DEF B!Merged
  <2>2. CASE ~pageRequest.reset
    <3>1. /\ Len(list) > 0 /\ modal.cursor = list[Len(list)]
          /\ \A i \in 1 .. Len(list) : list[i] = list[Len(list)] + (Len(list) - i)
          /\ \A i \in 1 .. Len(ids) : ids[i] = modal.cursor - i
      BY <1>1, <1>2, <2>2 DEF HistoryInv, From
    <3>2. ASSUME NEW i \in 1 .. Len(ids), NEW j \in 1 .. Len(list) PROVE list[j] # ids[i]
      <4>1. list[j] = modal.cursor + (Len(list) - j) /\ ids[i] = modal.cursor - i
        BY <3>1
      <4> QED
        BY SMTT(30), <1>1, <4>1
    <3>3. \A i \in 1 .. Len(ids) : ~B!Contains(modal.list, ids[i])
      BY <3>2 DEF B!Contains
    <3>4. B!Fresh(ids) = ids
      <4>1. B!Ids \subseteq Nat
        BY <1>1
      <4>2. ids \in Seq(Nat)
        BY <1>1, <4>1, SeqMonotonic
      <4> QED
        BY <3>3, <4>2, AllFresh
    <3> QED
      BY <2>2, <3>4 DEF B!Merged
  <2> QED
    BY <1>1, <2>1, <2>2
<1>4. B!Merged \in Seq(B!Ids)
  BY <1>1, <1>3, ConcatProperties
<1>5. PICK merged : merged = B!Merged
  OBVIOUS
<1>6. modal' = [modal EXCEPT !.list = merged, !.more = pageRequest.more,
                             !.cursor = IF ids # <<>> THEN ids[Len(ids)]
                                        ELSE IF pageRequest.reset THEN 0 ELSE @]
  BY <1>5 DEF B!PageArrives, B!Last
<1>7. ids # <<>> => ids[Len(ids)] \in B!Ids
  <2> SUFFICES ASSUME ids # <<>> PROVE ids[Len(ids)] \in B!Ids
    OBVIOUS
  <2>1. Len(ids) \in 1 .. Len(ids)
    BY <1>1, EmptySeq
  <2> QED
    BY <1>1, <2>1, ElementOfSeq
<1>8. modal \in [open : BOOLEAN, list : Seq(B!Ids), cursor : 0 .. Len(calls), more : BOOLEAN]
  BY DEF B!TypeOK
<1> DEFINE last == IF ids # <<>> THEN ids[Len(ids)] ELSE IF pageRequest.reset THEN 0 ELSE modal.cursor
<1>9. last \in 0 .. Len(calls)
  BY <1>1, <1>7
<1>10. modal' = [modal EXCEPT !.list = merged, !.more = pageRequest.more, !.cursor = last]
  BY <1>6, <1>8
<1> QED
  <2> HIDE DEF last
  <2>1. /\ modal'.open = modal.open /\ modal'.more = pageRequest.more
        /\ modal'.list = merged /\ modal'.cursor = last
    BY <1>8, <1>10
  <2>2. modal' \in [open : BOOLEAN, list : Seq(B!Ids), cursor : 0 .. Len(calls), more : BOOLEAN]
    BY <1>1, <1>4, <1>5, <1>8, <1>9, <1>10
  <2> QED
    BY <1>2, <1>3, <1>5, <2>1, <2>2 DEF last

FetchType == [pc : {"none", "asked", "served"}, found : Nat, clean : BOOLEAN]
MarksType == [sent : 0 .. MaxOpens, clean : BOOLEAN]
ModalType(m) == [open : BOOLEAN, list : Seq(1 .. m), cursor : 0 .. m, more : BOOLEAN]
PageType(m) ==
  [pc : {"none", "asked", "served"}, reset : BOOLEAN, ids : Seq(1 .. m), more : BOOLEAN]

(* The call history counts as everybody does.                              *)
LEMMA SameCardinality == B!Cardinality(B!Unread) = Cardinality(B!Unread)
BY DEF B!Cardinality, Cardinality

(* A count that was not asked for, or not answered yet.                    *)
LEMMA NoFetchTyped == B!NoFetch \in FetchType /\ B!Asked \in FetchType
<1>1. B!NoFetch \in FetchType
  BY DEF B!NoFetch, FetchType
<1> QED
  BY <1>1 DEF B!Asked, FetchType

(* What crosses a count or a marking under way spoils it.                  *)
LEMMA CrossEffect ==
  ASSUME B!TypeOK, B!Cross
  PROVE  /\ fetch' \in FetchType /\ marks' \in MarksType
         /\ fetch'.pc = fetch.pc /\ marks'.sent = marks.sent
         /\ fetch'.pc = "served" => ~fetch'.clean
         /\ marks'.clean <=> marks.sent = 0
<1>1. fetch \in FetchType /\ marks \in MarksType
  BY DEF B!TypeOK, FetchType, MarksType
<1> QED
  BY <1>1 DEF B!Cross, FetchType, MarksType

BookTypes ==
  /\ calls \in Seq(CallType)
  /\ inbox \in Seq([kind : {"sync", "log"}, call : 1 .. Len(calls)])
  /\ conn \in BOOLEAN /\ badge \in Nat /\ processed \subseteq 1 .. Len(calls)
  /\ fetch \in FetchType /\ marks \in MarksType /\ off \in BOOLEAN
  /\ modal \in ModalType(Len(calls)) /\ pageRequest \in PageType(Len(calls))
  /\ askedFrom \in 0 .. Len(calls) /\ opens \in 0 .. MaxOpens /\ troubles \in 0 .. MaxTroubles

(* The types are those of the parts, now and after a step.                 *)
LEMMA BookTyped == (B!TypeOK <=> BookTypes) /\ (B!TypeOK' <=> BookTypes')
<1>1. B!TypeOK <=> BookTypes
  BY DEF B!TypeOK, BookTypes, CallType, FetchType, MarksType, ModalType, PageType, B!Ids
<1> QED
  BY <1>1, PTL

(* A new record changes no other part, whose types know of one record more. *)
LEMMA StartTypes ==
  ASSUME B!TypeOK, NEW dir \in {"incoming", "outgoing"}, B!Start(dir)
  PROVE  /\ B!TypeOK' /\ Len(calls') = Len(calls) + 1
         /\ \A c \in B!Ids : calls'[c] = calls[c]
         /\ calls'[Len(calls) + 1] = [dir |-> dir, status |-> "pending", read |-> FALSE]
         /\ UNCHANGED <<inbox, conn, badge, processed, fetch, marks, off, modal, pageRequest,
                        askedFrom, opens, troubles>>
<1>1. /\ calls' = Append(calls, [dir |-> dir, status |-> "pending", read |-> FALSE])
      /\ UNCHANGED <<inbox, conn, badge, processed, fetch, marks, off, modal, pageRequest,
                     askedFrom, opens, troubles>>
  BY DEF B!Start, B!NewCall, B!count, B!book, B!bounds
<1>2. /\ calls' \in Seq(CallType) /\ Len(calls') = Len(calls) + 1 /\ Len(calls) \in Nat
      /\ \A c \in 1 .. Len(calls) : calls'[c] = calls[c]
      /\ calls'[Len(calls) + 1] = [dir |-> dir, status |-> "pending", read |-> FALSE]
  <2>1. [dir |-> dir, status |-> "pending", read |-> FALSE] \in CallType
    BY DEF CallType
  <2>2. calls \in Seq(CallType)
    BY BookTyped DEF BookTypes
  <2> QED
    BY <1>1, <2>1, <2>2, AppendProperties, LenProperties
<1>3. 1 .. Len(calls) \subseteq 1 .. Len(calls')
  BY <1>2
<1>4. inbox' \in Seq([kind : {"sync", "log"}, call : 1 .. Len(calls')])
  <2>1. [kind : {"sync", "log"}, call : 1 .. Len(calls)]
          \subseteq [kind : {"sync", "log"}, call : 1 .. Len(calls')]
    BY <1>3
  <2>2. inbox \in Seq([kind : {"sync", "log"}, call : 1 .. Len(calls')])
    BY <2>1, BookTyped, SeqMonotonic DEF BookTypes
  <2> QED
    BY <1>1, <2>2
<1>5. modal' \in ModalType(Len(calls'))
  <2>1. modal \in ModalType(Len(calls))
    BY BookTyped DEF BookTypes
  <2>2. modal.list \in Seq(1 .. Len(calls'))
    <3>1. modal.list \in Seq(1 .. Len(calls))
      BY <2>1 DEF ModalType
    <3> QED
      BY <1>3, <3>1, SeqMonotonic
  <2> QED
    BY <1>1, <1>2, <2>1, <2>2 DEF ModalType
<1>6. pageRequest' \in PageType(Len(calls'))
  <2>1. pageRequest \in PageType(Len(calls))
    BY BookTyped DEF BookTypes
  <2>2. pageRequest.ids \in Seq(1 .. Len(calls'))
    <3>1. pageRequest.ids \in Seq(1 .. Len(calls))
      BY <2>1 DEF PageType
    <3> QED
      BY <1>3, <3>1, SeqMonotonic
  <2> QED
    BY <1>1, <1>2, <2>1, <2>2 DEF PageType
<1>7. /\ conn' \in BOOLEAN /\ badge' \in Nat /\ fetch' \in FetchType /\ marks' \in MarksType
      /\ off' \in BOOLEAN /\ opens' \in 0 .. MaxOpens /\ troubles' \in 0 .. MaxTroubles
  BY <1>1, BookTyped DEF BookTypes
<1>8. processed' \subseteq 1 .. Len(calls') /\ askedFrom' \in 0 .. Len(calls')
  BY <1>1, <1>2, <1>3, BookTyped DEF BookTypes
<1>9. B!TypeOK'
  BY <1>2, <1>4, <1>5, <1>6, <1>7, <1>8, BookTyped DEF BookTypes
<1> QED
  BY <1>1, <1>2, <1>9 DEF B!Ids

(* A call ends: only its status changes.                                   *)
LEMMA EndEffect ==
  ASSUME B!TypeOK, NEW c \in B!Ids, NEW status \in {"missed", "completed", "unreachable"},
         B!End(c, status)
  PROVE  /\ calls' \in Seq(CallType) /\ Len(calls') = Len(calls)
         /\ calls'[c].status = status
         /\ \A d \in B!Ids : calls'[d].dir = calls[d].dir /\ calls'[d].read = calls[d].read
         /\ \A d \in B!Ids \ {c} : calls'[d] = calls[d]
<1>1. calls \in Seq(CallType) /\ c \in 1 .. Len(calls)
  BY BookTyped DEF BookTypes, B!Ids
<1>2. calls[c] \in CallType
  BY <1>1, ElementOfSeq
<1> DEFINE n == [calls[c] EXCEPT !.status = status]
<1>3. n \in CallType /\ n.status = status /\ n.dir = calls[c].dir /\ n.read = calls[c].read
  BY <1>2 DEF CallType, B!Unreads
<1>4. calls' = [calls EXCEPT ![c] = n]
  BY DEF B!End
<1>5. /\ calls' \in Seq(CallType) /\ Len(calls') = Len(calls)
      /\ \A d \in 1 .. Len(calls) : calls'[d] = IF d = c THEN n ELSE calls[d]
  <2> HIDE DEF n
  <2> QED
    BY <1>1, <1>3, <1>4, ExceptSeq
<1> HIDE DEF n
<1> QED
  BY <1>1, <1>3, <1>5 DEF B!Ids

(* Everything is marked as read that counts as unread.                     *)
LEMMA MarkAllEffect ==
  ASSUME B!TypeOK, B!MarkAll
  PROVE  /\ calls' \in Seq(CallType) /\ Len(calls') = Len(calls)
         /\ \A d \in B!Ids : calls'[d].dir = calls[d].dir /\ calls'[d].status = calls[d].status
         /\ \A d \in B!Ids : calls'[d].read <=> calls[d].read \/ d \in B!Unread
<1> DEFINE n(d) == IF d \in B!Unread THEN [calls[d] EXCEPT !.read = TRUE] ELSE calls[d]
<1>1. calls \in Seq(CallType) /\ Len(calls) \in Nat /\ B!Ids = 1 .. Len(calls)
  BY BookTyped DEF BookTypes, B!Ids
<1>2. ASSUME NEW d \in B!Ids
      PROVE  /\ n(d) \in CallType
             /\ n(d).dir = calls[d].dir /\ n(d).status = calls[d].status
             /\ n(d).read <=> calls[d].read \/ d \in B!Unread
  <2>1. calls[d] \in CallType
    BY <1>1, ElementOfSeq
  <2> QED
    BY <2>1 DEF CallType
<1>3. calls' = [d \in 1 .. Len(calls) |-> n(d)]
  BY <1>1 DEF B!MarkAll
<1> HIDE DEF n
<1>4. calls' \in Seq(CallType) /\ Len(calls') = Len(calls)
  BY <1>1, <1>2, <1>3
<1> QED
  BY <1>1, <1>2, <1>3, <1>4

(* A call that ends for all to see sends its events, if the page hears.    *)
LEMMA FinalizeEffect ==
  ASSUME B!TypeOK, NEW c \in B!Ids, NEW status \in {"missed", "completed"}, NEW logged \in BOOLEAN,
         B!Finalize(c, status, logged)
  PROVE  /\ inbox' \in Seq([kind : {"sync", "log"}, call : 1 .. Len(calls)])
         /\ ~conn => inbox' = inbox
         /\ conn => inbox' # <<>> /\ Announced' = Announced \cup {c}
<1> DEFINE E == [kind : {"sync", "log"}, call : 1 .. Len(calls)]
           sync == <<[kind |-> "sync", call |-> c]>>
           logs == B!LogEvents(c, logged)
           new == sync \o logs
<1>1. inbox \in Seq(E) /\ c \in 1 .. Len(calls)
  BY BookTyped DEF BookTypes, B!Ids
<1>2. sync \in Seq(E) /\ Len(sync) = 1 /\ sync[1].call = c
  BY <1>1
<1>3. logs \in Seq(E) /\ Len(logs) \in 0 .. 1 /\ \A i \in 1 .. Len(logs) : logs[i].call = c
  <2>1. CASE logged
    BY <1>1, <2>1 DEF B!LogEvents
  <2>2. CASE ~logged
    BY <2>2 DEF B!LogEvents
  <2> QED
    BY <2>1, <2>2
<1> HIDE DEF sync, logs
<1>4. inbox' = IF conn THEN (inbox \o sync) \o logs ELSE inbox
  BY DEF B!Finalize, sync, logs
<1>5. /\ inbox \o sync \in Seq(E) /\ Len(inbox \o sync) = Len(inbox) + 1 /\ Len(inbox) \in Nat
      /\ \A i \in 1 .. Len(inbox) : (inbox \o sync)[i] = inbox[i]
      /\ (inbox \o sync)[Len(inbox) + 1] = sync[1]
  <2>1. Len(inbox) \in Nat
    BY <1>1, LenProperties
  <2>2. /\ inbox \o sync \in Seq(E) /\ Len(inbox \o sync) = Len(inbox) + Len(sync)
        /\ \A i \in 1 .. Len(inbox) + Len(sync) :
             (inbox \o sync)[i] = IF i <= Len(inbox) THEN inbox[i] ELSE sync[i - Len(inbox)]
    BY <1>1, <1>2, ConcatProperties
  <2> QED
    BY <1>2, <2>1, <2>2
<1> DEFINE mid == inbox \o sync
<1> HIDE DEF mid
<1>6. /\ mid \o logs \in Seq(E) /\ Len(mid \o logs) = Len(mid) + Len(logs)
      /\ \A i \in 1 .. Len(mid) : (mid \o logs)[i] = mid[i]
      /\ \A i \in 1 .. Len(logs) : (mid \o logs)[Len(mid) + i] = logs[i]
  <2>1. mid \in Seq(E) /\ Len(mid) \in Nat
    BY <1>5 DEF mid
  <2>2. /\ mid \o logs \in Seq(E) /\ Len(mid \o logs) = Len(mid) + Len(logs)
        /\ \A i \in 1 .. Len(mid) + Len(logs) :
             (mid \o logs)[i] = IF i <= Len(mid) THEN mid[i] ELSE logs[i - Len(mid)]
    BY <1>3, <2>1, ConcatProperties
  <2> QED
    BY <1>3, <2>1, <2>2
<1>7. ASSUME conn PROVE inbox' # <<>> /\ Announced' = Announced \cup {c}
  <2>1. inbox' = mid \o logs
    BY <1>4, <1>7 DEF mid
  <2>2. Len(inbox') > 0 /\ Len(mid) = Len(inbox) + 1 /\ Len(inbox') = Len(mid) + Len(logs)
    BY <1>3, <1>5, <1>6, <2>1 DEF mid
  <2>3. ASSUME NEW i \in 1 .. Len(inbox') PROVE inbox'[i].call \in Announced \cup {c}
    <3>1. CASE i <= Len(inbox)
      <4>1. inbox'[i] = inbox[i]
        BY <1>3, <1>5, <1>6, <2>1, <2>2, <3>1 DEF mid
      <4> QED
        BY <1>5, <3>1, <4>1 DEF Announced
    <3>2. CASE i = Len(inbox) + 1
      BY <1>2, <1>5, <1>6, <2>1, <2>2, <3>2 DEF mid
    <3>3. CASE i > Len(mid)
      <4>1. i - Len(mid) \in 1 .. Len(logs)
        BY <1>3, <1>5, <2>2, <3>3
      <4>2. inbox'[i] = logs[i - Len(mid)]
        BY <1>3, <1>5, <1>6, <2>1, <2>2, <4>1
      <4> QED
        BY <1>3, <4>1, <4>2
    <3> QED
      BY <1>5, <2>2, <3>1, <3>2, <3>3
  <2>4. ASSUME NEW i \in 1 .. Len(inbox) PROVE i \in 1 .. Len(inbox') /\ inbox'[i] = inbox[i]
    BY <1>3, <1>5, <1>6, <2>1, <2>2 DEF mid
  <2>5. Len(inbox) + 1 \in 1 .. Len(inbox') /\ inbox'[Len(inbox) + 1].call = c
    BY <1>2, <1>3, <1>5, <1>6, <2>1, <2>2 DEF mid
  <2>6. inbox' # <<>>
    BY <2>2
  <2>7. Announced \subseteq Announced'
    BY <2>4 DEF Announced
  <2>8. c \in Announced'
    BY <2>5 DEF Announced
  <2>9. Announced' \subseteq Announced \cup {c}
    BY <2>3 DEF Announced
  <2> QED
    BY <2>6, <2>7, <2>8, <2>9
<1> QED
  BY <1>1, <1>4, <1>5, <1>6, <1>7 DEF mid

(* The first event is taken from those on their way.                       *)
LEMMA DeliverEffect ==
  ASSUME B!TypeOK, B!Deliver
  PROVE  LET c == Head(inbox).call
         IN /\ inbox' \in Seq([kind : {"sync", "log"}, call : 1 .. Len(calls)])
            /\ c \in B!Ids /\ c \in Announced
            /\ Announced = Announced' \cup {c}
            /\ B!Counts(c) => badge' = badge + 1 /\ processed' = processed \cup {c}
            /\ ~B!Counts(c) => badge' = badge /\ processed' = processed
<1> DEFINE E == [kind : {"sync", "log"}, call : 1 .. Len(calls)]
           c == Head(inbox).call
<1>1. inbox \in Seq(E) /\ inbox # <<>> /\ inbox' = Tail(inbox)
  BY BookTyped DEF BookTypes, B!Deliver
<1>2. /\ Head(inbox) \in E /\ inbox' \in Seq(E) /\ Len(inbox') = Len(inbox) - 1
      /\ \A i \in 1 .. Len(inbox') : inbox'[i] = inbox[i + 1]
      /\ Head(inbox) = inbox[1]
      /\ Len(inbox) \in Nat /\ Len(inbox) > 0
  <2>1. Len(inbox) \in Nat \ {0}
    BY <1>1, EmptySeq
  <2>2. /\ Head(inbox) \in E /\ inbox' \in Seq(E) /\ Len(inbox') = Len(inbox) - 1
        /\ \A i \in 1 .. Len(inbox') : inbox'[i] = inbox[i + 1]
    BY <1>1, HeadTailProperties
  <2>3. Head(inbox) = inbox[1]
    BY DEF Head
  <2> QED
    BY <2>1, <2>2, <2>3
<1>3. c \in B!Ids
  BY <1>2 DEF B!Ids
<1>4. c \in Announced
  BY <1>2 DEF Announced
<1>5. Announced' \subseteq Announced
  <2> SUFFICES ASSUME NEW i \in 1 .. Len(inbox') PROVE inbox'[i].call \in Announced
    BY DEF Announced
  <2>1. i + 1 \in 1 .. Len(inbox) /\ inbox'[i] = inbox[i + 1]
    BY <1>2
  <2> QED
    BY <2>1 DEF Announced
<1>6. Announced \subseteq Announced' \cup {c}
  <2> SUFFICES ASSUME NEW i \in 1 .. Len(inbox), i # 1 PROVE inbox[i].call \in Announced'
    BY ZenonT(40), <1>2 DEF Announced
  <2>1. i - 1 \in 1 .. Len(inbox') /\ inbox'[i - 1] = inbox[i]
    BY <1>2
  <2> QED
    BY <2>1 DEF Announced
<1>7. /\ B!Counts(c) => badge' = badge + 1 /\ processed' = processed \cup {c}
      /\ ~B!Counts(c) => badge' = badge /\ processed' = processed
  BY DEF B!Deliver, B!Counted
<1> QED
  BY <1>2, <1>3, <1>4, <1>5, <1>6, <1>7

(* The steps that leave the records and the events alone, and what is      *)
(* shown: only counts, markings and the connection change.                 *)
Counting ==
  \/ B!Drop \/ B!Connect \/ B!Refresh \/ B!CountMissed \/ B!Hydrate \/ B!HydrateFails \/ B!MarkFails

(* These steps keep the types and leave the records and the modal alone.   *)
LEMMA CountingTypes ==
  ASSUME B!TypeOK, Counting
  PROVE  /\ B!TypeOK' /\ UNCHANGED <<calls, modal, pageRequest, askedFrom, processed, opens>>
         /\ Cardinality(B!Unread) \in Nat
<1>1. UNCHANGED <<calls, modal, pageRequest, askedFrom, processed, opens>>
  BY DEF Counting, B!Drop, B!Connect, B!Refresh, B!CountMissed, B!Hydrate, B!HydrateFails,
         B!MarkFails, B!book, B!bounds, B!Trouble
<1>2. BookTypes
  BY BookTyped
<1>3. inbox' \in {inbox, <<>>} /\ conn' \in BOOLEAN
  BY <1>2 DEF BookTypes, Counting, B!Drop, B!Connect, B!Refresh, B!CountMissed, B!Hydrate,
         B!HydrateFails, B!MarkFails
<1>4. troubles' \in 0 .. MaxTroubles
  <2>1. MaxTroubles \in Nat /\ troubles \in 0 .. MaxTroubles
    BY <1>2, BookAssumption DEF BookTypes
  <2>2. troubles' = troubles \/ B!Trouble
    BY DEF Counting, B!Drop, B!Connect, B!Refresh, B!CountMissed, B!Hydrate, B!HydrateFails,
           B!MarkFails, B!bounds
  <2> QED
    BY <2>1, <2>2 DEF B!Trouble
<1>5. Cardinality(B!Unread) \in Nat
  <2>1. B!Unread \subseteq 1 .. Len(calls) /\ Len(calls) \in Nat
    BY <1>2 DEF B!Unread, B!Ids, BookTypes
  <2>2. IsFiniteSet(1 .. Len(calls))
    BY <2>1, FS_Interval
  <2>3. IsFiniteSet(B!Unread)
    BY <2>1, <2>2, FS_Subset
  <2> QED
    BY <2>3, FS_CardinalityType
<1>6. fetch' \in FetchType
  <2>1. fetch \in FetchType
    BY <1>2 DEF BookTypes
  <2>2. CASE B!CountMissed
    <3> DEFINE whole == inbox = <<>> /\ marks.sent = 0
    <3>1. whole \in BOOLEAN
      OBVIOUS
    <3>2. fetch' = [pc |-> "served", found |-> Cardinality(B!Unread), clean |-> whole]
      BY <2>2, SameCardinality, Zenon DEF B!CountMissed
    <3> HIDE DEF whole
    <3> QED
      BY <1>5, <3>1, <3>2 DEF FetchType
  <2>3. CASE B!Connect \/ B!Refresh
    BY <2>1, <2>3, NoFetchTyped DEF B!Connect, B!Refresh, B!Ask
  <2>4. CASE B!Hydrate \/ B!HydrateFails
    BY <2>4, NoFetchTyped DEF B!Hydrate, B!HydrateFails
  <2>5. CASE B!Drop \/ B!MarkFails
    BY <2>1, <2>5 DEF B!Drop, B!MarkFails
  <2> QED
    BY <2>2, <2>3, <2>4, <2>5 DEF Counting
<1>7. marks' \in MarksType
  <2>1. marks \in MarksType /\ MaxOpens \in Nat
    BY <1>2, BookAssumption DEF BookTypes
  <2>2. CASE B!Hydrate
    BY <2>1, <2>2 DEF B!Hydrate, MarksType
  <2>3. CASE B!MarkFails
    BY <2>1, <2>3 DEF B!MarkFails, MarksType
  <2> QED
    BY <2>1, <2>2, <2>3 DEF Counting, B!Drop, B!Connect, B!Refresh, B!CountMissed, B!HydrateFails
<1>8. badge' \in Nat /\ off' \in BOOLEAN
  <2>1. badge \in Nat /\ off \in BOOLEAN /\ fetch \in FetchType
    BY <1>2 DEF BookTypes
  <2>2. CASE B!Hydrate
    BY <2>1, <2>2 DEF B!Hydrate, FetchType
  <2> QED
    BY <2>1, <2>2 DEF Counting, B!Drop, B!Connect, B!Refresh, B!CountMissed, B!HydrateFails, B!MarkFails
<1>9. inbox' \in Seq([kind : {"sync", "log"}, call : 1 .. Len(calls')])
  <2>1. inbox \in Seq([kind : {"sync", "log"}, call : 1 .. Len(calls)])
    BY <1>2 DEF BookTypes
  <2>2. <<>> \in Seq([kind : {"sync", "log"}, call : 1 .. Len(calls)])
    BY EmptySeq
  <2> QED
    BY <1>1, <1>3, <2>1, <2>2
<1>10. BookTypes'
  BY <1>1, <1>2, <1>3, <1>4, <1>6, <1>7, <1>8, <1>9 DEF BookTypes
<1> QED
  BY <1>1, <1>5, <1>10, BookTyped

(* The steps of the modal keep the types.                                  *)
Paging == B!Close \/ B!Scroll \/ B!ServePage \/ B!PageArrives \/ B!PageFails

(* The server answers with a page of the records below the cursor, and     *)
(* says whether there are more.                                            *)
LEMMA ServePageEffect ==
  ASSUME B!TypeOK, B!ServePage
  PROVE  LET older == B!Older(IF pageRequest.reset THEN 0 ELSE modal.cursor)
             size == IF older > Limit THEN Limit ELSE older
         IN /\ older \in 0 .. Len(calls)
            /\ pageRequest.pc = "asked" /\ pageRequest' \in PageType(Len(calls))
            /\ pageRequest'.pc = "served" /\ pageRequest'.reset = pageRequest.reset
            /\ pageRequest'.more <=> older > Limit
            /\ Len(pageRequest'.ids) = size
            /\ \A i \in 1 .. size : pageRequest'.ids[i] = older + 1 - i
            /\ askedFrom' = IF pageRequest.reset THEN Len(calls) ELSE askedFrom
<1> DEFINE older == B!Older(IF pageRequest.reset THEN 0 ELSE modal.cursor)
           size == IF older > Limit THEN Limit ELSE older
           ids == [i \in 1 .. size |-> older + 1 - i]
<1>1. /\ pageRequest \in PageType(Len(calls)) /\ modal.cursor \in 0 .. Len(calls)
      /\ Len(calls) \in Nat
  BY BookTyped DEF BookTypes, ModalType
<1>2. older \in 0 .. Len(calls)
  BY <1>1 DEF B!Older
<1>3. Limit \in Nat \ {0}
  BY BookAssumption
<1> HIDE DEF older
<1>4. size \in 0 .. Len(calls) /\ size <= older
  BY <1>1, <1>2, <1>3
<1>5. ids \in Seq(1 .. Len(calls)) /\ Len(ids) = size /\ \A i \in 1 .. size : ids[i] = older + 1 - i
  <2>1. \A i \in 1 .. size : older + 1 - i \in 1 .. Len(calls)
    BY <1>1, <1>2, <1>4
  <2> HIDE DEF size
  <2> QED
    BY <1>4, <2>1
<1> DEFINE further == older > Limit
<1>6. pageRequest' = [pageRequest EXCEPT !.pc = "served", !.more = further, !.ids = ids]
  BY DEF B!ServePage, older
<1> HIDE DEF ids, size
<1>7. /\ pageRequest' \in PageType(Len(calls))
      /\ pageRequest'.pc = "served" /\ pageRequest'.reset = pageRequest.reset
      /\ pageRequest'.more <=> older > Limit
      /\ pageRequest'.ids = ids
  <2>1. further \in BOOLEAN /\ (further <=> older > Limit)
    OBVIOUS
  <2> HIDE DEF further
  <2> QED
    BY <1>1, <1>5, <1>6, <2>1 DEF PageType
<1>8. pageRequest.pc = "asked" /\ askedFrom' = IF pageRequest.reset THEN Len(calls) ELSE askedFrom
  BY DEF B!ServePage
<1> QED
  BY <1>2, <1>5, <1>7, <1>8 DEF size, older

(* These steps keep the types and leave the records, events and counts     *)
(* alone.                                                                  *)
LEMMA PagingTypes ==
  ASSUME B!TypeOK, HistoryInv, Paging
  PROVE  B!TypeOK' /\ UNCHANGED <<calls, inbox, conn, badge, processed, fetch, marks, off, opens>>
<1>1. UNCHANGED <<calls, inbox, conn, badge, processed, fetch, marks, off, opens>>
  BY DEF Paging, B!Close, B!Scroll, B!ServePage, B!PageArrives, B!PageFails, B!count, B!bounds
<1>2. BookTypes
  BY BookTyped
<1>3. troubles' \in 0 .. MaxTroubles
  <2>1. MaxTroubles \in Nat /\ troubles \in 0 .. MaxTroubles
    BY <1>2, BookAssumption DEF BookTypes
  <2>2. troubles' = troubles \/ B!Trouble
    BY DEF Paging, B!Close, B!Scroll, B!ServePage, B!PageArrives, B!PageFails, B!bounds
  <2> QED
    BY <2>1, <2>2 DEF B!Trouble
<1>4. modal' \in ModalType(Len(calls))
  <2>1. modal \in ModalType(Len(calls))
    BY <1>2 DEF BookTypes
  <2>2. CASE B!Close
    BY <2>1, <2>2 DEF B!Close, ModalType
  <2>3. CASE B!PageArrives
    BY <2>3, PageArrivesEffect DEF ModalType, B!Ids
  <2> QED
    BY <2>1, <2>2, <2>3 DEF Paging, B!Scroll, B!ServePage, B!PageFails
<1>5. pageRequest' \in PageType(Len(calls)) /\ askedFrom' \in 0 .. Len(calls)
  <2>1. Len(calls) \in Nat /\ pageRequest \in PageType(Len(calls)) /\ askedFrom \in 0 .. Len(calls)
    BY <1>2 DEF BookTypes
  <2>2. B!NoPage \in PageType(Len(calls))
    BY <2>1, EmptySeq DEF B!NoPage, PageType
  <2>3. CASE B!Scroll
    <3>1. pageRequest' = [B!NoPage EXCEPT !.pc = "asked", !.reset = FALSE] /\ askedFrom' = askedFrom
      BY <2>3 DEF B!Scroll, B!AskPage
    <3> QED
      BY <2>1, <2>2, <3>1 DEF PageType
  <2>4. CASE B!ServePage
    <3>1. pageRequest' \in PageType(Len(calls)) /\ askedFrom' \in {Len(calls), askedFrom}
      BY <2>4, ServePageEffect
    <3> QED
      BY <2>1, <3>1
  <2>5. CASE B!PageArrives \/ B!PageFails
    <3>1. pageRequest' = B!NoPage /\ askedFrom' \in {0, askedFrom}
      BY <2>5 DEF B!PageArrives, B!PageFails
    <3> QED
      BY <2>1, <2>2, <3>1
  <2>6. CASE B!Close
    BY <2>1, <2>6 DEF B!Close
  <2> QED
    BY <2>3, <2>4, <2>5, <2>6 DEF Paging
<1>6. BookTypes'
  BY <1>1, <1>2, <1>3, <1>4, <1>5 DEF BookTypes
<1> QED
  BY <1>1, <1>6, BookTyped

(* The end of a call, its news, a marking and an opening keep the types.   *)
LEMMA FinalizeTypes ==
  ASSUME B!TypeOK, NEW c \in B!Ids, NEW status \in {"missed", "completed"}, NEW logged \in BOOLEAN,
         B!Finalize(c, status, logged)
  PROVE  B!TypeOK'
<1>1. UNCHANGED <<conn, badge, processed, modal, pageRequest, askedFrom, opens, troubles>>
  BY DEF B!Finalize, B!book, B!bounds
<1>2. BookTypes
  BY BookTyped
<1>3. calls' \in Seq(CallType) /\ Len(calls') = Len(calls)
  BY EndEffect DEF B!Finalize
<1>4. inbox' \in Seq([kind : {"sync", "log"}, call : 1 .. Len(calls)])
  BY FinalizeEffect
<1>5. fetch' \in FetchType /\ marks' \in MarksType
  BY CrossEffect DEF B!Finalize
<1>6. off' \in BOOLEAN
  BY DEF B!Finalize
<1>7. BookTypes'
  BY <1>1, <1>2, <1>3, <1>4, <1>5, <1>6 DEF BookTypes
<1> QED
  BY <1>7, BookTyped

(* A call that ends without a missed-call event keeps the types.           *)
LEMMA EndSilentlyTypes ==
  ASSUME B!TypeOK, NEW c \in B!Ids, B!EndSilently(c)
  PROVE  B!TypeOK'
<1>1. UNCHANGED <<inbox, conn, badge, processed, modal, pageRequest, askedFrom, opens, troubles>>
  BY DEF B!EndSilently, B!book, B!bounds
<1>2. BookTypes
  BY BookTyped
<1>3. calls' \in Seq(CallType) /\ Len(calls') = Len(calls)
  BY EndEffect DEF B!EndSilently
<1>4. fetch' \in FetchType /\ marks' \in MarksType
  BY CrossEffect DEF B!EndSilently
<1>5. off' \in BOOLEAN
  BY DEF B!EndSilently
<1>6. BookTypes'
  BY <1>1, <1>2, <1>3, <1>4, <1>5 DEF BookTypes
<1> QED
  BY <1>6, BookTyped

(* An event that arrives keeps the types.                                  *)
LEMMA DeliverTypes ==
  ASSUME B!TypeOK, B!Deliver
  PROVE  B!TypeOK'
<1>1. UNCHANGED <<calls, conn, off, modal, pageRequest, askedFrom, opens, troubles>>
  BY DEF B!Deliver, B!book, B!bounds
<1>2. BookTypes
  BY BookTyped
<1>3. inbox' \in Seq([kind : {"sync", "log"}, call : 1 .. Len(calls)])
  BY DeliverEffect
<1>4. badge' \in Nat /\ processed' \subseteq 1 .. Len(calls)
  <2>1. badge' \in {badge, badge + 1} /\ processed' \in {processed, processed \cup {Head(inbox).call}}
        /\ Head(inbox).call \in 1 .. Len(calls)
    BY DeliverEffect DEF B!Ids
  <2>2. badge \in Nat /\ processed \subseteq 1 .. Len(calls)
    BY <1>2 DEF BookTypes
  <2> QED
    BY <2>1, <2>2
<1>5. fetch' \in FetchType /\ marks' \in MarksType
  BY CrossEffect DEF B!Deliver
<1>6. BookTypes'
  BY <1>1, <1>2, <1>3, <1>4, <1>5 DEF BookTypes
<1> QED
  BY <1>6, BookTyped

(* A marking that the server has done keeps the types and is one less on   *)
(* its way.                                                                *)
LEMMA MarkAllTypes ==
  ASSUME B!TypeOK, B!MarkAll
  PROVE  /\ B!TypeOK' /\ marks' \in MarksType /\ marks.sent > 0
         /\ marks'.sent = marks.sent - 1 /\ (marks'.clean <=> marks.sent = 1)
<1>1. UNCHANGED <<inbox, conn, badge, processed, modal, pageRequest, askedFrom, opens, troubles>>
  BY DEF B!MarkAll, B!book, B!bounds
<1>2. BookTypes
  BY BookTyped
<1>3. calls' \in Seq(CallType) /\ Len(calls') = Len(calls)
  BY MarkAllEffect
<1>4. fetch' \in FetchType
  <2>1. fetch \in FetchType
    BY <1>2 DEF BookTypes
  <2> QED
    BY <2>1 DEF B!MarkAll, FetchType
<1>5. /\ marks' \in MarksType /\ marks.sent > 0
      /\ marks'.sent = marks.sent - 1 /\ (marks'.clean <=> marks.sent = 1)
  <2>1. marks \in MarksType /\ MaxOpens \in Nat
    BY <1>2, BookAssumption DEF BookTypes
  <2> DEFINE single == marks.sent = 1
             less == marks.sent - 1
  <2>2. single \in BOOLEAN
    OBVIOUS
  <2>3. marks' = [sent |-> less, clean |-> single]
    BY Zenon DEF B!MarkAll
  <2>4. marks.sent > 0 /\ less \in 0 .. MaxOpens
    BY <2>1 DEF B!MarkAll, MarksType
  <2>5. marks' \in MarksType /\ marks'.sent = less /\ marks'.clean = single
    <3> HIDE DEF less, single
    <3> QED
      BY <2>2, <2>3, <2>4 DEF MarksType
  <2> QED
    BY <2>4, <2>5
<1>6. off' \in BOOLEAN
  BY DEF B!MarkAll
<1>7. BookTypes'
  BY <1>1, <1>2, <1>3, <1>4, <1>5, <1>6 DEF BookTypes
<1> QED
  BY <1>5, <1>7, BookTyped

(* Opening the modal sends a marking and asks for the newest page.         *)
LEMMA OpenTypes ==
  ASSUME B!TypeOK, marks.sent <= opens, B!Open
  PROVE  /\ B!TypeOK'
         /\ marks'.sent = marks.sent + 1 /\ (marks'.clean <=> inbox = <<>> /\ marks.sent = 0)
         /\ fetch'.pc = fetch.pc /\ (fetch'.pc = "served" => ~fetch'.clean)
         /\ modal'.list = modal.list /\ modal'.cursor = modal.cursor /\ modal'.more = modal.more
         /\ IF B!Fetching THEN pageRequest' = pageRequest
            ELSE pageRequest'.pc = "asked" /\ pageRequest'.reset
<1>1. UNCHANGED <<calls, inbox, conn, processed, off, askedFrom, troubles>>
  BY DEF B!Open
<1>2. BookTypes
  BY BookTyped
<1>3. fetch' \in FetchType /\ fetch'.pc = fetch.pc /\ (fetch'.pc = "served" => ~fetch'.clean)
  <2>1. fetch \in FetchType
    BY <1>2 DEF BookTypes
  <2> QED
    BY <2>1 DEF B!Open, FetchType
<1>4. /\ marks' \in MarksType /\ opens' \in 0 .. MaxOpens
      /\ marks'.sent = marks.sent + 1 /\ (marks'.clean <=> inbox = <<>> /\ marks.sent = 0)
  <2>1. marks \in MarksType /\ opens \in 0 .. MaxOpens /\ MaxOpens \in Nat
    BY <1>2, BookAssumption DEF BookTypes
  <2> DEFINE still == inbox = <<>> /\ marks.sent = 0
             more == marks.sent + 1
  <2>2. still \in BOOLEAN
    OBVIOUS
  <2>3. marks' = [sent |-> more, clean |-> still]
    BY Zenon DEF B!Open
  <2>4. more \in 0 .. MaxOpens /\ opens' \in 0 .. MaxOpens
    BY <2>1 DEF B!Open, MarksType
  <2>5. marks' \in MarksType /\ marks'.sent = more /\ marks'.clean = still
    <3> HIDE DEF more, still
    <3> QED
      BY <2>2, <2>3, <2>4 DEF MarksType
  <2> QED
    BY <2>4, <2>5
<1>5. /\ modal' \in ModalType(Len(calls))
      /\ modal'.list = modal.list /\ modal'.cursor = modal.cursor /\ modal'.more = modal.more
  <2>1. modal \in ModalType(Len(calls))
    BY <1>2 DEF BookTypes
  <2> QED
    BY <2>1 DEF B!Open, ModalType
<1>6. /\ pageRequest' \in PageType(Len(calls))
      /\ IF B!Fetching THEN pageRequest' = pageRequest
         ELSE pageRequest'.pc = "asked" /\ pageRequest'.reset
  <2>1. B!NoPage \in PageType(Len(calls)) /\ pageRequest \in PageType(Len(calls))
    BY <1>2, EmptySeq DEF B!NoPage, PageType, BookTypes
  <2>2. CASE B!Fetching
    BY <2>1, <2>2 DEF B!Open
  <2>3. CASE ~B!Fetching
    <3>1. pageRequest' = [B!NoPage EXCEPT !.pc = "asked", !.reset = TRUE]
      BY <2>3 DEF B!Open, B!AskPage
    <3> QED
      BY <2>1, <2>3, <3>1 DEF PageType
  <2> QED
    BY <2>2, <2>3
<1>7. badge' = 0
  BY DEF B!Open
<1>8. BookTypes'
  BY <1>1, <1>2, <1>3, <1>4, <1>5, <1>6, <1>7 DEF BookTypes
<1> QED
  BY <1>3, <1>4, <1>5, <1>6, <1>8, BookTyped

(* What is shown stays one run of records, whichever page arrives.         *)
LEMMA HistoryStep ==
  ASSUME B!TypeOK, marks.sent <= opens, HistoryInv, B!Next
  PROVE  HistoryInv'
<1>1. CASE UNCHANGED <<modal, pageRequest, askedFrom>>
  BY <1>1 DEF HistoryInv, From
<1>2. CASE B!Open
  <2>1. askedFrom' = askedFrom
    BY <1>2 DEF B!Open
  <2> QED
    BY <1>2, <2>1, OpenTypes DEF HistoryInv, From, B!Fetching
<1>3. CASE B!Close
  <2>1. modal \in ModalType(Len(calls))
    BY BookTyped DEF BookTypes
  <2>2. /\ modal'.list = modal.list /\ modal'.cursor = modal.cursor /\ modal'.more = modal.more
        /\ UNCHANGED <<pageRequest, askedFrom>>
    BY <1>3, <2>1 DEF B!Close, ModalType
  <2> QED
    BY <2>2 DEF HistoryInv, From
<1>4. CASE B!Scroll
  <2>1. /\ UNCHANGED <<modal, askedFrom>> /\ pageRequest.pc = "none"
        /\ modal.more /\ (modal.cursor # 0 \/ modal.list # <<>>)
        /\ pageRequest' = [B!NoPage EXCEPT !.pc = "asked", !.reset = FALSE]
    BY <1>4 DEF B!Scroll, B!Fetching, B!AskPage
  <2>2. pageRequest'.pc = "asked" /\ ~pageRequest'.reset
    BY <2>1 DEF B!NoPage
  <2>3. Len(modal.list) \in Nat /\ (modal.list # <<>> => Len(modal.list) > 0)
    <3>1. modal.list \in Seq(1 .. Len(calls))
      BY BookTyped DEF BookTypes, ModalType
    <3> QED
      BY <3>1, EmptySeq, LenProperties
  <2> QED
    BY <2>1, <2>2, <2>3 DEF HistoryInv, From
<1>5. CASE B!ServePage
  <2> DEFINE older == B!Older(IF pageRequest.reset THEN 0 ELSE modal.cursor)
             size == IF older > Limit THEN Limit ELSE older
  <2>1. modal' = modal
    BY <1>5 DEF B!ServePage
  <2>2. /\ older \in 0 .. Len(calls) /\ pageRequest.pc = "asked"
        /\ pageRequest'.pc = "served" /\ pageRequest'.reset = pageRequest.reset
        /\ pageRequest'.more <=> older > Limit
        /\ Len(pageRequest'.ids) = size
        /\ \A i \in 1 .. size : pageRequest'.ids[i] = older + 1 - i
        /\ askedFrom' = IF pageRequest.reset THEN Len(calls) ELSE askedFrom
    BY <1>5, ServePageEffect
  <2>3. From' = older
    <3>1. CASE pageRequest.reset
      BY <2>2, <3>1 DEF From, B!Older
    <3>2. CASE ~pageRequest.reset
      <4>1. Len(modal.list) > 0 /\ modal.cursor = modal.list[Len(modal.list)]
        BY <2>2, <3>2 DEF HistoryInv
      <4>2. modal.list \in Seq(1 .. Len(calls)) /\ Len(calls) \in Nat
        BY BookTyped DEF BookTypes, ModalType
      <4>3. modal.cursor # 0
        BY <4>1, <4>2, ElementOfSeq, LenProperties
      <4> QED
        BY <2>1, <2>2, <3>2, <4>3 DEF From, B!Older
    <3> QED
      BY <3>1, <3>2
  <2> HIDE DEF older
  <2>4. /\ Len(pageRequest'.ids) = (IF From' > Limit THEN Limit ELSE From')
        /\ \A i \in 1 .. Len(pageRequest'.ids) : pageRequest'.ids[i] = From' + 1 - i
        /\ pageRequest'.more <=> From' > Limit
    BY <2>2, <2>3
  <2>5. askedFrom' # 0 /\ ~pageRequest'.reset => Len(modal.list) > 0 /\ modal.list[1] = askedFrom'
    BY <2>2 DEF HistoryInv
  <2>6. ~pageRequest'.reset => Len(modal.list) > 0 /\ modal.more
    BY <2>2 DEF HistoryInv
  <2> QED
    BY <2>1, <2>2, <2>4, <2>5, <2>6 DEF HistoryInv
<1>6. CASE B!PageArrives
  <2> DEFINE list == modal.list
             ids == pageRequest.ids
             n == Len(list)
             k == Len(ids)
  <2>1. /\ pageRequest.pc = "served" /\ modal'.more = pageRequest.more
        /\ modal'.list = IF pageRequest.reset THEN ids ELSE list \o ids
        /\ modal'.cursor = IF ids # <<>> THEN ids[k] ELSE IF pageRequest.reset THEN 0 ELSE modal.cursor
    BY <1>6, PageArrivesEffect
  <2>2. pageRequest'.pc = "none" /\ askedFrom' = askedFrom
    BY <1>6 DEF B!PageArrives, B!NoPage
  <2>3. /\ list \in Seq(1 .. Len(calls)) /\ ids \in Seq(1 .. Len(calls)) /\ Len(calls) \in Nat
        /\ askedFrom \in Nat /\ Limit \in Nat \ {0}
    BY BookTyped, BookAssumption DEF BookTypes, ModalType, PageType
  <2>4. n \in Nat /\ k \in Nat /\ (ids # <<>> <=> k > 0)
    BY <2>3, EmptySeq, LenProperties
  <2>5. /\ k = (IF From > Limit THEN Limit ELSE From)
        /\ \A i \in 1 .. k : ids[i] = From + 1 - i
        /\ pageRequest.more <=> From > Limit
    BY <2>1 DEF HistoryInv
  <2> DEFINE c == modal.cursor
  <2> HIDE DEF n, k, ids, list, c
  <2>6. CASE pageRequest.reset
    <3>1. From = askedFrom /\ modal'.list = ids /\ modal'.cursor = IF k > 0 THEN ids[k] ELSE 0
      BY <2>1, <2>4, <2>6 DEF From
    <3>0. \A i \in 1 .. k : ids[i] = askedFrom + 1 - i
      BY <2>5, <3>1
    <3>2. k > 0 => ids[k] = askedFrom + 1 - k /\ ids[1] = askedFrom
      BY <2>3, <2>4, <3>0
    <3>3. \A i \in 1 .. k : ids[i] = ids[k] + (k - i)
      <4> SUFFICES ASSUME NEW i \in 1 .. k PROVE ids[i] = ids[k] + (k - i)
        OBVIOUS
      <4>1. ids[i] = askedFrom + 1 - i
        BY <3>0
      <4>2. ids[k] = askedFrom + 1 - k
        BY <2>4, <3>2
      <4> QED
        BY <2>3, <2>4, <4>1, <4>2
    <3>4. k > 0 => (~modal'.more <=> ids[k] = 1)
      BY <2>1, <2>3, <2>4, <2>5, <3>1, <3>2
    <3>5. askedFrom # 0 => k > 0
      BY <2>3, <2>5, <3>1
    <3> QED
      BY <2>2, <3>1, <3>2, <3>3, <3>4, <3>5 DEF HistoryInv, k, ids
  <2>7. CASE ~pageRequest.reset
    <3>1. /\ n > 0 /\ modal.more /\ c = list[n] /\ list[n] # 1
          /\ \A i \in 1 .. n : list[i] = c + (n - i)
          /\ askedFrom # 0 => list[1] = askedFrom
          /\ From = c - 1
      BY <2>1, <2>7 DEF HistoryInv, From, list, n, c
    <3>2. c \in Nat /\ c > 1
      <4>1. list[n] \in 1 .. Len(calls)
        BY <2>3, <2>4, <3>1, ElementOfSeq DEF n
      <4> QED
        BY <2>3, <3>1, <4>1
    <3>3. k > 0 /\ k <= c - 1 /\ (k = c - 1 <=> ~(c - 1 > Limit)) /\ ids[k] = c - k
      <4>1. k = (IF c - 1 > Limit THEN Limit ELSE c - 1)
        BY <2>5, <3>1
      <4>2. k > 0 /\ k <= c - 1 /\ (k = c - 1 <=> ~(c - 1 > Limit))
        BY <2>3, <3>2, <4>1
      <4>3. ids[k] = (c - 1) + 1 - k
        BY <2>4, <2>5, <3>1, <4>2
      <4> QED
        BY <2>4, <3>1, <3>2, <4>2, <4>3
    <3>4. /\ modal'.list = list \o ids /\ modal'.cursor = c - k
      BY <2>1, <2>4, <2>7, <3>3 DEF c
    <3>5. /\ Len(list \o ids) = n + k
          /\ \A i \in 1 .. n + k : (list \o ids)[i] = IF i <= n THEN list[i] ELSE ids[i - n]
      BY <2>3, ConcatProperties DEF n, k
    <3>6. \A i \in 1 .. n + k : modal'.list[i] = (c - k) + (n + k - i)
      <4> SUFFICES ASSUME NEW i \in 1 .. n + k PROVE modal'.list[i] = (c - k) + (n + k - i)
        OBVIOUS
      <4>1. CASE i <= n
        <5>1. modal'.list[i] = list[i] /\ i \in 1 .. n
          BY <2>4, <3>4, <3>5, <4>1
        <5> QED
          BY <2>4, <3>1, <3>2, <5>1
      <4>2. CASE i > n
        <5>1. modal'.list[i] = ids[i - n] /\ i - n \in 1 .. k
          BY <2>4, <3>4, <3>5, <4>2
        <5>2. ids[i - n] = From + 1 - (i - n)
          BY <2>5, <5>1
        <5> QED
          BY <2>4, <3>1, <3>2, <5>1, <5>2
      <4> QED
        BY <2>4, <4>1, <4>2
    <3>7. modal'.list[n + k] = c - k /\ modal'.list[1] = list[1] /\ Len(modal'.list) = n + k /\ n + k > 0
      <4>1. n + k \in 1 .. n + k /\ 1 \in 1 .. n + k /\ 1 <= n
        BY <2>4, <3>1, <3>3
      <4>2. modal'.list[n + k] = (c - k) + (n + k - (n + k))
        BY <3>6, <4>1
      <4>3. modal'.list[1] = list[1] /\ Len(modal'.list) = n + k
        BY <3>4, <3>5, <4>1
      <4> QED
        BY <2>4, <3>2, <4>1, <4>2, <4>3
    <3>8. ~modal'.more <=> c - k = 1
      <4>1. modal'.more <=> c - 1 > Limit
        BY <2>1, <2>5, <3>1
      <4>2. k = c - 1 <=> c - k = 1
        BY <2>4, <3>2
      <4> QED
        BY <3>3, <4>1, <4>2
    <3> QED
      <4> DEFINE m == n + k
                 last == c - k
      <4>1. /\ \A i \in 1 .. m : modal'.list[i] = last + (m - i)
            /\ modal'.list[m] = last /\ Len(modal'.list) = m /\ m > 0
        <5>1. \A i \in 1 .. m : modal'.list[i] = last + (m - i)
          <6> SUFFICES ASSUME NEW i \in 1 .. n + k PROVE modal'.list[i] = (c - k) + ((n + k) - i)
            OBVIOUS
          <6>1. modal'.list[i] = (c - k) + (n + k - i)
            BY <3>6
          <6> QED
            BY <2>4, <3>2, <6>1
        <5> QED
          BY <3>7, <5>1, Zenon
      <4>2. modal'.cursor = last /\ (~modal'.more <=> last = 1)
        BY <3>4, <3>8
      <4>3. askedFrom' # 0 => modal'.list[1] = askedFrom'
        BY <2>2, <3>1, <3>7
      <4> HIDE DEF m, last
      <4> QED
        BY <2>2, <4>1, <4>2, <4>3 DEF HistoryInv
  <2> QED
    BY <2>6, <2>7
<1>7. CASE B!PageFails
  <2>1. /\ modal' = modal /\ pageRequest'.pc = "none"
        /\ askedFrom' = IF pageRequest.reset /\ pageRequest.pc = "served" THEN 0 ELSE askedFrom
    BY <1>7 DEF B!PageFails, B!NoPage
  <2> QED
    BY <2>1 DEF HistoryInv, From
<1> QED
  BY <1>1, <1>2, <1>3, <1>4, <1>5, <1>6, <1>7
     DEF B!Next, B!Server, B!Badge, B!Modal, B!Start, B!Finalize, B!EndSilently, B!Deliver, B!Drop,
         B!Connect, B!Refresh, B!CountMissed, B!Hydrate, B!HydrateFails, B!MarkAll, B!MarkFails,
         B!book

(* The records counted are finitely many.                                  *)
LEMMA BookFinite ==
  ASSUME B!TypeOK
  PROVE  /\ IsFiniteSet(B!Unread) /\ Cardinality(B!Unread) \in Nat
         /\ IsFiniteSet(Due) /\ Cardinality(Due) \in Nat
         /\ Announced \subseteq B!Ids
<1>1. Len(calls) \in Nat /\ inbox \in Seq([kind : {"sync", "log"}, call : 1 .. Len(calls)])
  BY BookTyped, LenProperties DEF BookTypes
<1>2. B!Unread \subseteq 1 .. Len(calls) /\ Due \subseteq 1 .. Len(calls)
  BY DEF B!Unread, B!Ids, Due
<1>3. IsFiniteSet(1 .. Len(calls))
  BY <1>1, FS_Interval
<1>4. IsFiniteSet(B!Unread) /\ IsFiniteSet(Due)
  BY <1>2, <1>3, FS_Subset
<1>5. \A i \in 1 .. Len(inbox) : inbox[i].call \in 1 .. Len(calls)
  <2> SUFFICES ASSUME NEW i \in 1 .. Len(inbox) PROVE inbox[i].call \in 1 .. Len(calls)
    OBVIOUS
  <2>1. inbox[i] \in [kind : {"sync", "log"}, call : 1 .. Len(calls)]
    BY <1>1, ElementOfSeq
  <2> QED
    BY <2>1
<1> QED
  BY <1>4, <1>5, FS_CardinalityType DEF Announced, B!Ids

(* A new call is pending, unread and unheard of.                           *)
LEMMA StartBadge ==
  ASSUME B!TypeOK, BadgeInv, NEW dir \in {"incoming", "outgoing"}, B!Start(dir)
  PROVE  BadgeInv'
<1>1. /\ Len(calls') = Len(calls) + 1
      /\ \A c \in B!Ids : calls'[c] = calls[c]
      /\ calls'[Len(calls) + 1] = [dir |-> dir, status |-> "pending", read |-> FALSE]
      /\ UNCHANGED <<inbox, conn, badge, processed, fetch, marks, off, modal, pageRequest,
                     askedFrom, opens, troubles>>
  BY StartTypes
<1>2. Announced \subseteq B!Ids /\ processed \subseteq B!Ids /\ Len(calls) \in Nat
  BY BookFinite, BookTyped, LenProperties DEF BookTypes, B!Ids
<1>3. B!Ids' = B!Ids \cup {Len(calls) + 1} /\ Len(calls) + 1 \notin B!Ids
  BY <1>1, <1>2 DEF B!Ids
<1>4. Announced' = Announced
  BY <1>1 DEF Announced
<1>5. B!Unread' = B!Unread
  BY <1>1, <1>3 DEF B!Unread, B!Unreads
<1>6. Due' = Due
  BY <1>1, <1>4, <1>5 DEF Due
<1>7. \A c \in B!Ids' : B!Pending(c)' => ~calls'[c].read /\ c \notin processed' /\ c \notin Announced'
  <2>1. \A c \in B!Ids : B!Pending(c)' <=> B!Pending(c)
    BY <1>1 DEF B!Pending
  <2>2. \A c \in B!Ids : B!Pending(c) => ~calls[c].read /\ c \notin processed /\ c \notin Announced
    BY DEF BadgeInv
  <2>3. /\ ~calls'[Len(calls) + 1].read
        /\ Len(calls) + 1 \notin processed' /\ Len(calls) + 1 \notin Announced'
    BY <1>1, <1>2, <1>3, <1>4
  <2> QED
    BY <1>1, <1>3, <1>4, <2>1, <2>2, <2>3
<1>8. \A c \in Announced : B!Counts(c)' <=> B!Counts(c)
  BY <1>1, <1>2 DEF B!Counts
<1>9. /\ fetch.pc = "served" /\ fetch.clean =>
           inbox = <<>> /\ marks.sent = 0 /\ fetch.found = Cardinality(B!Unread)
      /\ marks.sent > 0 /\ marks.clean => marks.sent = 1 /\ badge = 0 /\ inbox = <<>>
      /\ marks.sent <= opens
      /\ marks.sent = 0 /\ ~off =>
           /\ badge + Cardinality(Due) = Cardinality(B!Unread)
           /\ \A c \in Announced : B!Counts(c) => c \in B!Unread
  BY DEF BadgeInv
<1> QED
  BY <1>1, <1>4, <1>5, <1>6, <1>7, <1>8, <1>9 DEF BadgeInv

(* The end of a call leaves what is unread and what is due the same, or    *)
(* adds the call to both, or is one the badge is known to miss.            *)
LEMMA EndBadge ==
  ASSUME B!TypeOK, BadgeInv, NEW c \in B!Ids, NEW status \in {"missed", "completed", "unreachable"},
         B!Pending(c), B!End(c, status), B!Cross,
         UNCHANGED <<badge, processed, opens>>,
         Announced' = Announced \/ Announced' = Announced \cup {c},
         off => off', c \in B!Unread' /\ c \notin Announced' => off'
  PROVE  BadgeInv'
<1>1. /\ Len(calls') = Len(calls) /\ calls'[c].status = status
      /\ \A d \in B!Ids : calls'[d].dir = calls[d].dir /\ calls'[d].read = calls[d].read
      /\ \A d \in B!Ids \ {c} : calls'[d] = calls[d]
  BY EndEffect
<1>2. B!Ids' = B!Ids
  BY <1>1 DEF B!Ids
<1>3. ~calls[c].read /\ c \notin processed /\ c \notin Announced /\ c \notin B!Unread
  BY DEF BadgeInv, B!Pending, B!Unread, B!Unreads
<1>4. c \notin Due
  BY <1>3 DEF Due
<1>5. /\ fetch'.pc = "served" => ~fetch'.clean
      /\ marks'.clean <=> marks.sent = 0
      /\ marks'.sent = marks.sent /\ marks.sent \in Nat
  BY CrossEffect DEF MarksType
<1>6. \A d \in B!Ids' : B!Pending(d)' => ~calls'[d].read /\ d \notin processed' /\ d \notin Announced'
  <2>1. ~B!Pending(c)'
    BY <1>1 DEF B!Pending
  <2>2. \A d \in B!Ids \ {c} : B!Pending(d)' <=> B!Pending(d)
    BY <1>1 DEF B!Pending
  <2>3. \A d \in B!Ids : B!Pending(d) => ~calls[d].read /\ d \notin processed /\ d \notin Announced
    BY DEF BadgeInv
  <2> QED
    BY <1>1, <1>2, <2>1, <2>2, <2>3
<1>7. ASSUME marks.sent = 0, ~off'
      PROVE  /\ badge' + Cardinality(Due') = Cardinality(B!Unread')
             /\ \A d \in Announced' : B!Counts(d)' => d \in B!Unread'
  <2>1. /\ badge + Cardinality(Due) = Cardinality(B!Unread)
        /\ \A d \in Announced : B!Counts(d) => d \in B!Unread
    BY <1>7 DEF BadgeInv
  <2>2. /\ IsFiniteSet(B!Unread) /\ Cardinality(B!Unread) \in Nat
        /\ IsFiniteSet(Due) /\ Cardinality(Due) \in Nat /\ Announced \subseteq B!Ids
        /\ badge \in Nat
    BY BookFinite, BookTyped DEF BookTypes
  <2>3. B!Unread' \ {c} = B!Unread
    BY <1>1, <1>2, <1>3 DEF B!Unread
  <2>4. Due' \ {c} = Due
    BY <1>3, <2>3 DEF Due
  <2>5. \A d \in Announced' : B!Counts(d)' => d \in B!Unread'
    <3>1. \A d \in B!Ids \ {c} : B!Counts(d)' <=> B!Counts(d)
      BY <1>1 DEF B!Counts
    <3>2. B!Counts(c)' => c \in B!Unread'
      BY <1>1, <1>2, <1>3 DEF B!Counts, B!Unread
    <3> QED
      BY <2>1, <2>2, <2>3, <3>1, <3>2
  <2>6. CASE c \in B!Unread'
    <3>1. c \in Due'
      BY <1>3, <1>7, <2>6 DEF Due
    <3>2. Due' = Due \cup {c} /\ B!Unread' = B!Unread \cup {c}
      BY <2>3, <2>4, <2>6, <3>1
    <3>3. Cardinality(Due \cup {c}) = Cardinality(Due) + 1
      BY <1>4, <2>2, FS_AddElement
    <3>4. Cardinality(B!Unread \cup {c}) = Cardinality(B!Unread) + 1
      BY <1>3, <2>2, FS_AddElement
    <3> QED
      BY <2>1, <2>2, <2>5, <3>2, <3>3, <3>4
  <2>7. CASE c \notin B!Unread'
    <3>1. Due' = Due /\ B!Unread' = B!Unread
      BY <2>3, <2>4, <2>7 DEF Due
    <3> QED
      BY <2>1, <2>5, <3>1
  <2> QED
    BY <2>6, <2>7
<1>8. marks.sent <= opens
  BY DEF BadgeInv
<1> QED
  BY <1>5, <1>6, <1>7, <1>8 DEF BadgeInv

(* The end of a call that is heard of adds to what is unread and due, one  *)
(* that is not heard of leaves the badge off.                              *)
LEMMA FinalizeBadge ==
  ASSUME B!TypeOK, BadgeInv, NEW c \in B!Ids, NEW status \in {"missed", "completed"},
         NEW logged \in BOOLEAN, B!Finalize(c, status, logged)
  PROVE  BadgeInv'
<1>1. /\ B!Pending(c) /\ B!End(c, status) /\ B!Cross /\ UNCHANGED <<badge, processed, opens>>
      /\ off' = (off \/ (~conn /\ c \in B!Unread'))
  BY DEF B!Finalize, B!bounds
<1>2. /\ ~conn => Announced' = Announced
      /\ conn => Announced' = Announced \cup {c}
  BY FinalizeEffect DEF Announced
<1>3. conn \in BOOLEAN /\ off \in BOOLEAN
  BY BookTyped DEF BookTypes
<1>4. /\ off => off'
      /\ c \in B!Unread' /\ c \notin Announced' => off'
      /\ Announced' = Announced \/ Announced' = Announced \cup {c}
  BY <1>1, <1>2, <1>3
<1> QED
  BY <1>1, <1>4, EndBadge

(* A call that ends without a word leaves the badge off if it counts.      *)
LEMMA EndSilentlyBadge ==
  ASSUME B!TypeOK, BadgeInv, NEW c \in B!Ids, B!EndSilently(c)
  PROVE  BadgeInv'
<1>1. /\ B!Pending(c) /\ B!End(c, "unreachable") /\ B!Cross /\ UNCHANGED <<badge, processed, opens>>
      /\ off' = (off \/ c \in B!Unread') /\ inbox' = inbox
  BY DEF B!EndSilently, B!bounds
<1>2. Announced' = Announced /\ off \in BOOLEAN
  BY <1>1, BookTyped DEF Announced, BookTypes
<1> QED
  BY <1>1, <1>2, EndBadge

(* An event that counts takes its call from what is due to the badge.      *)
LEMMA DeliverBadge ==
  ASSUME B!TypeOK, BadgeInv, B!Deliver
  PROVE  BadgeInv'
<1> DEFINE c == Head(inbox).call
<1>1. /\ c \in B!Ids /\ c \in Announced /\ Announced = Announced' \cup {c}
      /\ B!Counts(c) => badge' = badge + 1 /\ processed' = processed \cup {c}
      /\ ~B!Counts(c) => badge' = badge /\ processed' = processed
      /\ UNCHANGED <<calls, off, opens>> /\ B!Cross
  BY DeliverEffect DEF B!Deliver, B!bounds
<1> HIDE DEF c
<1>2. /\ fetch'.pc = "served" => ~fetch'.clean
      /\ marks'.clean <=> marks.sent = 0
      /\ marks'.sent = marks.sent /\ marks.sent \in Nat
  BY <1>1, CrossEffect DEF MarksType
<1>3. B!Unread' = B!Unread /\ B!Ids' = B!Ids
  BY <1>1 DEF B!Unread, B!Ids
<1>4. ~B!Pending(c)
  BY <1>1 DEF BadgeInv
<1>5. \A d \in B!Ids : B!Pending(d)' => ~calls'[d].read /\ d \notin processed' /\ d \notin Announced'
  <2>1. \A d \in B!Ids : B!Pending(d) => ~calls[d].read /\ d \notin processed /\ d \notin Announced
    BY DEF BadgeInv
  <2>2. \A d \in B!Ids : B!Pending(d)' <=> B!Pending(d)
    BY <1>1 DEF B!Pending
  <2> QED
    BY <1>1, <1>4, <2>1, <2>2
<1>6. ASSUME marks.sent = 0, ~off
      PROVE  /\ badge' + Cardinality(Due') = Cardinality(B!Unread)
             /\ \A d \in Announced' : B!Counts(d)' => d \in B!Unread
  <2>1. /\ badge + Cardinality(Due) = Cardinality(B!Unread)
        /\ \A d \in Announced : B!Counts(d) => d \in B!Unread
    BY <1>6 DEF BadgeInv
  <2>2. /\ IsFiniteSet(Due) /\ Cardinality(Due) \in Nat /\ badge \in Nat
        /\ Cardinality(B!Unread) \in Nat
    BY BookFinite, BookTyped DEF BookTypes
  <2>3. \A d \in Announced' : B!Counts(d)' => d \in B!Unread
    BY <1>1, <2>1 DEF B!Counts
  <2>4. CASE B!Counts(c)
    <3>1. c \in Due
      BY <1>1, <2>1, <2>4 DEF Due, B!Counts
    <3>2. Due' = Due \ {c}
      BY <1>1, <1>3, <2>4 DEF Due
    <3>3. Cardinality(Due \ {c}) = Cardinality(Due) - 1
      BY <2>2, <3>1, FS_RemoveElement
    <3> QED
      BY <1>1, <2>1, <2>2, <2>3, <2>4, <3>2, <3>3
  <2>5. CASE ~B!Counts(c)
    <3>1. c \notin Due
      BY <2>5 DEF Due, B!Counts, B!Unread
    <3>2. Due' = Due
      BY <1>1, <1>3, <2>5, <3>1 DEF Due
    <3> QED
      BY <1>1, <2>1, <2>3, <2>5, <3>2
  <2> QED
    BY <2>4, <2>5
<1>7. marks.sent <= opens
  BY DEF BadgeInv
<1> QED
  BY <1>1, <1>2, <1>3, <1>5, <1>6, <1>7 DEF BadgeInv

(* Counts and connections: an answer that nothing has crossed is exact.    *)
LEMMA CountingBadge ==
  ASSUME B!TypeOK, BadgeInv, Counting
  PROVE  BadgeInv'
<1>1. /\ UNCHANGED <<calls, processed, opens>>
      /\ Cardinality(B!Unread) \in Nat
  BY CountingTypes
<1>2. B!Unread' = B!Unread /\ B!Ids' = B!Ids
  BY <1>1 DEF B!Unread, B!Ids
<1>3. /\ fetch \in FetchType /\ marks \in MarksType /\ badge \in Nat /\ off \in BOOLEAN
      /\ inbox \in Seq([kind : {"sync", "log"}, call : 1 .. Len(calls)])
  BY BookTyped DEF BookTypes
<1>4. inbox' \in {inbox, <<>>}
  BY DEF Counting, B!Drop, B!Connect, B!Refresh, B!CountMissed, B!Hydrate, B!HydrateFails, B!MarkFails
<1>5. inbox = <<>> => Announced = {}
  BY DEF Announced
<1>6. /\ inbox' = inbox => Announced' = Announced
      /\ inbox' = <<>> => Announced' = {}
  BY DEF Announced
<1>7. \A d \in B!Ids' : B!Pending(d)' => ~calls'[d].read /\ d \notin processed' /\ d \notin Announced'
  <2>1. \A d \in B!Ids : B!Pending(d) => ~calls[d].read /\ d \notin processed /\ d \notin Announced
    BY DEF BadgeInv
  <2>2. \A d \in B!Ids : B!Pending(d)' <=> B!Pending(d)
    BY <1>1 DEF B!Pending
  <2> QED
    BY <1>1, <1>2, <1>4, <1>6, <2>1, <2>2
<1>8. marks.sent <= opens /\ marks.sent \in Nat
  BY <1>3 DEF BadgeInv, MarksType
<1>9. /\ fetch.pc = "served" /\ fetch.clean =>
            inbox = <<>> /\ marks.sent = 0 /\ fetch.found = Cardinality(B!Unread)
      /\ marks.sent > 0 /\ marks.clean => marks.sent = 1 /\ badge = 0 /\ inbox = <<>>
      /\ marks.sent = 0 /\ ~off =>
           /\ badge + Cardinality(Due) = Cardinality(B!Unread)
           /\ \A c \in Announced : B!Counts(c) => c \in B!Unread
  BY DEF BadgeInv
<1>10. Announced' = Announced => Due' = Due
  BY <1>1, <1>2 DEF Due
<1>11. \A d \in Announced' : B!Counts(d)' <=> B!Counts(d)
  BY <1>1 DEF B!Counts
<1>12. CASE B!Drop
  <2>1. inbox' = <<>> /\ off' = (off \/ inbox # <<>>) /\ UNCHANGED <<badge, fetch, marks>>
    BY <1>12 DEF B!Drop
  <2>2. ~off' => Announced' = Announced
    BY <1>5, <1>6, <2>1
  <2> QED
    BY <1>1, <1>2, <1>7, <1>8, <1>9, <1>10, <1>11, <2>1, <2>2 DEF BadgeInv
<1>13. CASE B!Connect \/ B!Refresh \/ B!HydrateFails
  <2>1. UNCHANGED <<inbox, off, badge, marks>>
    BY <1>13 DEF B!Connect, B!Refresh, B!HydrateFails
  <2>2. fetch'.pc # "served" \/ fetch' = fetch
    BY <1>13 DEF B!Connect, B!Refresh, B!HydrateFails, B!Ask, B!Asked, B!NoFetch
  <2> QED
    BY <1>1, <1>2, <1>6, <1>7, <1>8, <1>9, <1>10, <1>11, <2>1, <2>2 DEF BadgeInv
<1>14. CASE B!CountMissed
  <2>1. UNCHANGED <<inbox, off, badge, marks>>
    BY <1>14 DEF B!CountMissed
  <2>2. fetch'.found = Cardinality(B!Unread) /\ (fetch'.clean => inbox = <<>> /\ marks.sent = 0)
    <3> DEFINE whole == inbox = <<>> /\ marks.sent = 0
    <3>1. whole \in BOOLEAN
      OBVIOUS
    <3>2. fetch' = [pc |-> "served", found |-> Cardinality(B!Unread), clean |-> whole]
      BY <1>14, SameCardinality, Zenon DEF B!CountMissed
    <3>3. fetch'.found = Cardinality(B!Unread) /\ fetch'.clean = whole
      <4> HIDE DEF whole
      <4> QED
        BY <3>1, <3>2
    <3> QED
      BY <3>3
  <2> QED
    BY <1>1, <1>2, <1>6, <1>7, <1>8, <1>9, <1>10, <1>11, <2>1, <2>2 DEF BadgeInv
<1>15. CASE B!Hydrate
  <2>1. /\ fetch.pc = "served" /\ badge' = fetch.found /\ off' = ~fetch.clean
        /\ fetch'.pc = "none" /\ inbox' = inbox
    BY <1>15 DEF B!Hydrate, B!NoFetch
  <2>2. marks'.sent = marks.sent /\ (marks'.clean <=> marks.sent = 0)
    BY <1>3, <1>15 DEF B!Hydrate, MarksType
  <2>3. ~off' => Announced' = {} /\ badge' = Cardinality(B!Unread)
    BY <1>3, <1>5, <1>6, <1>9, <2>1 DEF FetchType
  <2>4. Announced' = {} => Cardinality(Due') = 0
    BY FS_EmptySet DEF Due
  <2>5. ~off' => badge' + Cardinality(Due') = Cardinality(B!Unread)
    BY <1>1, <2>3, <2>4
  <2> QED
    BY <1>1, <1>2, <1>7, <1>8, <2>1, <2>2, <2>3, <2>5 DEF BadgeInv
<1>16. CASE B!MarkFails
  <2>1. off' /\ UNCHANGED <<inbox, badge, fetch>> /\ marks.sent > 0
    BY <1>16 DEF B!MarkFails
  <2>2. marks'.sent = marks.sent - 1 /\ (marks'.clean <=> marks.sent = 1)
    <3> DEFINE single == marks.sent = 1
    <3>1. single \in BOOLEAN
      OBVIOUS
    <3>2. marks' = [sent |-> marks.sent - 1, clean |-> single]
      BY <1>16, Zenon DEF B!MarkFails
    <3>3. marks'.sent = marks.sent - 1 /\ marks'.clean = single
      <4> HIDE DEF single
      <4> QED
        BY <3>1, <3>2
    <3> QED
      BY <3>3
  <2>3. marks'.sent <= opens' /\ (marks'.sent > 0 => ~marks'.clean)
    <3>1. opens \in Nat
      BY BookTyped DEF BookTypes
    <3> QED
      BY <1>1, <1>8, <2>1, <2>2, <3>1
  <2>4. fetch'.pc = "served" => ~fetch'.clean
    BY <1>9, <2>1
  <2> QED
    BY <1>7, <2>1, <2>3, <2>4 DEF BadgeInv
<1> QED
  BY <1>12, <1>13, <1>14, <1>15, <1>16 DEF Counting

(* A marking that nothing has crossed leaves nothing unread and badge 0.   *)
LEMMA MarkAllBadge ==
  ASSUME B!TypeOK, BadgeInv, B!MarkAll
  PROVE  BadgeInv'
<1>1. /\ UNCHANGED <<inbox, badge, processed, opens>>
      /\ off' = ~(marks.clean /\ fetch.pc # "served" /\ marks.sent = 1)
  BY DEF B!MarkAll, B!bounds
<1>2. /\ marks.sent > 0 /\ marks'.sent = marks.sent - 1 /\ (marks'.clean <=> marks.sent = 1)
      /\ marks.sent \in Nat
  BY MarkAllTypes, BookTyped DEF BookTypes, MarksType
<1>3. fetch'.pc = "served" => ~fetch'.clean
  <2>1. fetch \in FetchType
    BY BookTyped DEF BookTypes
  <2> QED
    BY <2>1 DEF B!MarkAll, FetchType
<1>4. /\ Len(calls') = Len(calls)
      /\ \A d \in B!Ids : calls'[d].dir = calls[d].dir /\ calls'[d].status = calls[d].status
      /\ \A d \in B!Ids : calls'[d].read <=> calls[d].read \/ d \in B!Unread
  BY MarkAllEffect
<1>5. B!Ids' = B!Ids /\ Announced' = Announced
  BY <1>1, <1>4 DEF B!Ids, Announced
<1>6. \A d \in B!Ids' : B!Pending(d)' => ~calls'[d].read /\ d \notin processed' /\ d \notin Announced'
  <2>1. \A d \in B!Ids : B!Pending(d) => ~calls[d].read /\ d \notin processed /\ d \notin Announced
    BY DEF BadgeInv
  <2>2. \A d \in B!Ids : (B!Pending(d)' <=> B!Pending(d)) /\ (B!Pending(d) => d \notin B!Unread)
    BY <1>4 DEF B!Pending, B!Unread, B!Unreads
  <2> QED
    BY <1>1, <1>4, <1>5, <2>1, <2>2
<1>7. B!Unread' = {}
  BY <1>4, <1>5 DEF B!Unread
<1>8. Due' = {}
  BY <1>7 DEF Due
<1>9. Cardinality(Due') = 0 /\ Cardinality(B!Unread') = 0
  BY <1>7, <1>8, FS_EmptySet
<1>10. ~off' => badge' = 0 /\ inbox' = <<>>
  BY <1>1, <1>2 DEF BadgeInv
<1>11. inbox' = <<>> => Announced' = {}
  BY DEF Announced
<1>12. marks'.sent <= opens'
  BY <1>1, <1>2, BookTyped DEF BadgeInv, BookTypes
<1> QED
  BY <1>2, <1>3, <1>6, <1>9, <1>10, <1>11, <1>12 DEF BadgeInv

(* Opening the modal clears the badge for the marking it sends.            *)
LEMMA OpenBadge ==
  ASSUME B!TypeOK, BadgeInv, B!Open
  PROVE  BadgeInv'
<1>1. marks.sent <= opens /\ marks.sent \in Nat /\ opens \in Nat
  BY BookTyped DEF BadgeInv, BookTypes, MarksType
<1>2. /\ UNCHANGED <<calls, inbox, processed>> /\ badge' = 0 /\ opens' = opens + 1
  BY DEF B!Open
<1>3. /\ marks'.sent = marks.sent + 1 /\ (marks'.clean <=> inbox = <<>> /\ marks.sent = 0)
      /\ fetch'.pc = "served" => ~fetch'.clean
  BY <1>1, OpenTypes
<1>4. B!Ids' = B!Ids /\ Announced' = Announced
  BY <1>2 DEF B!Ids, Announced
<1>5. \A d \in B!Ids' : B!Pending(d)' => ~calls'[d].read /\ d \notin processed' /\ d \notin Announced'
  BY <1>2, <1>4 DEF BadgeInv, B!Pending
<1> QED
  BY <1>1, <1>2, <1>3, <1>5 DEF BadgeInv

(* The modal's pages do not touch what is counted.                         *)
LEMMA PagingBadge ==
  ASSUME B!TypeOK, BadgeInv, UNCHANGED <<calls, inbox, badge, processed, fetch, marks, off, opens>>
  PROVE  BadgeInv'
BY DEF BadgeInv, B!Pending, B!Ids, Announced, B!Unread, Due, B!Counts

(* The page has just been mounted.                                         *)
LEMMA BookInit == B!Init => BookInv
<1> SUFFICES ASSUME B!Init PROVE BookInv
  OBVIOUS
<1>1. calls = <<>> /\ inbox = <<>> /\ Len(calls) = 0 /\ Len(inbox) = 0
  BY DEF B!Init
<1>2. B!Unread = {} /\ Due = {} /\ Announced = {} /\ B!Ids = {}
  BY <1>1 DEF B!Unread, B!Ids, Due, Announced
<1>3. Cardinality(B!Unread) = 0 /\ Cardinality(Due) = 0
  BY <1>2, FS_EmptySet
<1>4. /\ fetch \in FetchType /\ fetch.pc = "asked" /\ marks \in MarksType /\ marks.sent = 0
      /\ modal \in ModalType(0) /\ modal.list = <<>> /\ modal.cursor = 0
      /\ pageRequest \in PageType(0) /\ pageRequest.pc = "none"
  <2>1. <<>> \in Seq(1 .. 0)
    BY EmptySeq
  <2>2. MaxOpens \in Nat
    BY BookAssumption
  <2> QED
    BY <2>1, <2>2, NoFetchTyped
       DEF B!Init, B!Asked, B!NoFetch, MarksType, ModalType, B!NewModal, B!NoPage, PageType
<1>5. calls \in Seq(CallType) /\ inbox \in Seq([kind : {"sync", "log"}, call : 1 .. Len(calls)])
  BY <1>1, EmptySeq
<1>6. /\ conn = TRUE /\ badge = 0 /\ processed = {} /\ off = FALSE /\ askedFrom = 0
      /\ opens = 0 /\ troubles = 0
  BY DEF B!Init
<1>7. BookTypes
  <2>1. modal \in ModalType(Len(calls)) /\ pageRequest \in PageType(Len(calls))
    BY <1>1, <1>4
  <2>2. opens \in 0 .. MaxOpens /\ troubles \in 0 .. MaxTroubles /\ askedFrom \in 0 .. Len(calls)
    BY <1>1, <1>6, BookAssumption
  <2>3. conn \in BOOLEAN /\ badge \in Nat /\ processed \subseteq 1 .. Len(calls) /\ off \in BOOLEAN
    BY <1>6
  <2> QED
    BY <1>4, <1>5, <2>1, <2>2, <2>3 DEF BookTypes
<1>8. BadgeInv
  BY <1>2, <1>3, <1>4, <1>6 DEF BadgeInv
<1>9. HistoryInv
  BY <1>4, <1>6 DEF HistoryInv
<1> QED
  BY <1>7, <1>8, <1>9, BookTyped DEF BookInv

(* The invariant of the call history holds through every step.             *)
LEMMA BookStep == BookInv /\ [B!Next]_bookVars => BookInv'
<1>1. ASSUME BookInv, B!Next PROVE BookInv'
  <2>1. B!TypeOK /\ BadgeInv /\ HistoryInv /\ marks.sent <= opens
    BY <1>1 DEF BookInv, BadgeInv
  <2>2. HistoryInv'
    BY <1>1, <2>1, HistoryStep
  <2>3. ASSUME NEW dir \in {"incoming", "outgoing"}, B!Start(dir) PROVE B!TypeOK' /\ BadgeInv'
    BY <2>1, <2>3, StartTypes, StartBadge
  <2>4. ASSUME NEW c \in B!Ids, NEW status \in {"missed", "completed"}, NEW logged \in BOOLEAN,
               B!Finalize(c, status, logged)
        PROVE  B!TypeOK' /\ BadgeInv'
    BY <2>1, <2>4, FinalizeTypes, FinalizeBadge
  <2>5. ASSUME NEW c \in B!Ids, B!EndSilently(c) PROVE B!TypeOK' /\ BadgeInv'
    BY <2>1, <2>5, EndSilentlyTypes, EndSilentlyBadge
  <2>6. B!Deliver => B!TypeOK' /\ BadgeInv'
    BY <2>1, DeliverTypes, DeliverBadge
  <2>7. Counting => B!TypeOK' /\ BadgeInv'
    BY <2>1, CountingTypes, CountingBadge
  <2>8. B!MarkAll => B!TypeOK' /\ BadgeInv'
    BY <2>1, MarkAllTypes, MarkAllBadge
  <2>9. B!Open => B!TypeOK' /\ BadgeInv'
    BY <2>1, OpenTypes, OpenBadge
  <2>10. Paging => B!TypeOK' /\ BadgeInv'
    BY <2>1, PagingTypes, PagingBadge
  <2>11. B!TypeOK' /\ BadgeInv'
    BY <1>1, <2>3, <2>4, <2>5, <2>6, <2>7, <2>8, <2>9, <2>10
       DEF B!Next, B!Server, B!Badge, B!Modal, Counting, Paging
  <2> QED
    BY <2>2, <2>11 DEF BookInv
<1>2. ASSUME BookInv, UNCHANGED bookVars PROVE BookInv'
  <2>1. B!TypeOK' /\ BadgeInv' /\ HistoryInv'
    <3>1. UNCHANGED <<calls, inbox, conn, badge, processed, fetch, marks, off, modal, pageRequest,
                     askedFrom, opens, troubles>>
      BY <1>2 DEF bookVars
    <3>2. BookTypes'
      BY <1>2, <3>1, BookTyped DEF BookInv, BookTypes
    <3>3. BadgeInv'
      BY <1>2, <3>1, PagingBadge DEF BookInv
    <3>4. HistoryInv'
      BY <1>2, <3>1 DEF BookInv, HistoryInv, From
    <3> QED
      BY <3>2, <3>3, <3>4, BookTyped
  <2> QED
    BY <2>1 DEF BookInv
<1> QED
  BY <1>1, <1>2

(* With nothing under way the badge is exact, and the modal shows a run of *)
(* records without a gap that begins where it was last asked from the top. *)
LEMMA BookHonest == BookInv => B!TypeOK /\ B!BadgeExact /\ B!HistoryWhole
<1> SUFFICES ASSUME BookInv PROVE B!BadgeExact /\ B!HistoryWhole
  BY DEF BookInv
<1>1. B!TypeOK /\ BadgeInv /\ HistoryInv
  BY DEF BookInv
<1>2. B!BadgeExact
  <2> SUFFICES ASSUME inbox = <<>>, marks.sent = 0, ~off PROVE badge = Cardinality(B!Unread)
    BY SameCardinality DEF B!BadgeExact
  <2>1. Due = {}
    BY DEF Due, Announced
  <2>2. Cardinality(Due) = 0
    BY <2>1, FS_EmptySet
  <2>3. badge \in Nat
    BY <1>1, BookTyped DEF BookTypes
  <2> QED
    BY <1>1, <2>2, <2>3 DEF BadgeInv
<1>3. B!HistoryWhole
  <2> DEFINE n == Len(modal.list)
  <2>1. modal.list \in Seq(1 .. Len(calls)) /\ Len(calls) \in Nat
    BY <1>1, BookTyped DEF BookTypes, ModalType
  <2>2. n \in Nat
    BY <2>1, LenProperties
  <2>3. \A i \in 1 .. n : modal.list[i] = modal.list[n] + (n - i)
    BY <1>1 DEF HistoryInv
  <2>4. n > 0 => modal.list[n] \in 1 .. Len(calls)
    BY <2>1, <2>2, ElementOfSeq
  <2>5. \A i \in 1 .. (n - 1) : modal.list[i] = modal.list[i + 1] + 1
    <3> HIDE DEF n
    <3> SUFFICES ASSUME NEW i \in 1 .. (n - 1) PROVE modal.list[i] = modal.list[i + 1] + 1
      OBVIOUS
    <3>1. i \in 1 .. n /\ i + 1 \in 1 .. n /\ n > 0
      BY <2>2
    <3>2. modal.list[i] = modal.list[n] + (n - i) /\ modal.list[i + 1] = modal.list[n] + (n - (i + 1))
      BY <2>3, <3>1
    <3>3. PICK last \in Nat : last = modal.list[n]
      BY <2>1, <2>4, <3>1
    <3>4. modal.list[i] = last + (n - i) /\ modal.list[i + 1] = last + (n - (i + 1))
      BY <3>2, <3>3
    <3> QED
      BY <2>2, <3>4
  <2>6. /\ n > 0 => modal.cursor = modal.list[n] /\ (~modal.more <=> modal.list[n] = 1)
        /\ pageRequest.pc = "none" /\ askedFrom # 0 => modal.list[1] = askedFrom
    BY <1>1 DEF HistoryInv
  <2> QED
    BY <2>5, <2>6 DEF B!HistoryWhole
<1> QED
  BY <1>2, <1>3

-----------------------------------------------------------------------------
(* The windows.                                                            *)

(* The last call; what the call window shows; the call the main window rings for. *)
Last == Len(rec)
Shown == win["page"]
Ring == win["main"].ring
EndKinds == {"ended", "rejected", "timeout"}

(* A call's record, a window, the storage, the call window and a word on a wire. *)
CallRecord == [peer : Peers, dir : {"in", "out"}, state : {"pending", "answered", "ended"}]
WindowRecord ==
  [view : {"idle", "calling", "ringing", "connected"}, accepted : BOOLEAN, ended : BOOLEAN,
   ring : 0 .. Last, link : Nat, listens : BOOLEAN, told : BOOLEAN]
StoreRecord ==
  [partner : Peers \cup {Nobody}, caller : Peers \cup {Nobody}, signal : 0 .. Last, id : Int,
   start : {"none", "fresh", "aged"}]
PageRecord ==
  [pc : {"closed", "opening", "open"}, dir : {"none", "in", "out"}, who : Peers \cup {Nobody},
   call : 0 .. Last, joined : BOOLEAN, bound : Nat, timer : BOOLEAN]
Word == [kind : W!Kinds, call : 1 .. Last]

(* The variables have their shape, whatever has crossed.                   *)
WindowTypes ==
  /\ rec \in Seq(CallRecord)
  /\ again \subseteq 1 .. Last /\ left \subseteq 1 .. Last /\ taken \subseteq 1 .. Last
  /\ mixed \in BOOLEAN
  /\ wire \in [W!Windows -> Seq(Word)]
  /\ store \in StoreRecord /\ win \in [W!Windows -> WindowRecord] /\ page \in PageRecord
  /\ page.pc # "closed" => page.who \in Peers

(* The shapes are those that the specification states.                   *)
LEMMA WindowTyped ==
  ASSUME WindowTypes
  PROVE  W!TypeOK /\ Last \in Nat /\ W!Calls = 1 .. Last
<1>1. Last \in Nat /\ W!Calls = 1 .. Last
  BY DEF WindowTypes, Last, W!Calls
<1>2. \A v \in W!Windows : win[v] \in WindowRecord
  BY DEF WindowTypes
<1>3. win \in [W!Windows -> [view : {"idle", "calling", "ringing", "connected"}, accepted : BOOLEAN,
                ended : BOOLEAN, ring : Nat, link : Nat, listens : BOOLEAN, told : BOOLEAN]]
  BY <1>1, <1>2 DEF WindowTypes, WindowRecord
<1>4. wire \in [W!Windows -> Seq([kind : W!Kinds, call : W!Calls])]
  BY <1>1 DEF WindowTypes, Word
<1>5. /\ store.partner \in Peers \cup {Nobody} /\ store.caller \in Peers \cup {Nobody}
      /\ store.signal \in Nat /\ store.id \in Int /\ store.start \in {"none", "fresh", "aged"}
      /\ page.pc \in {"closed", "opening", "open"} /\ page.bound \in Nat
  BY <1>1 DEF WindowTypes, StoreRecord, PageRecord
<1> QED
  BY <1>1, <1>3, <1>4, <1>5 DEF WindowTypes, W!TypeOK, CallRecord

(* No step forgets a call, and a window may hear of more of them.          *)
LEMMA WordsStay ==
  ASSUME WindowTypes, rec' \in Seq(CallRecord), Last <= Last', NEW s \in Seq(Word)
  PROVE  s \in Seq(Word')
<1>1. Last \in Nat /\ Last' \in Nat
  BY DEF WindowTypes, Last
<1>2. \A i \in 1 .. Len(s) : s[i] \in Word
  OBVIOUS
<1>3. \A i \in 1 .. Len(s) : s[i] \in Word'
  BY <1>1, <1>2 DEF Word
<1>4. s \in [1 .. Len(s) -> Word'] /\ Len(s) \in Nat
  BY <1>3
<1> QED
  BY <1>4

(* The server forgets no call.                                           *)
Kept == rec' \in Seq(CallRecord) /\ Last <= Last'

(* What has its shape keeps it when calls are added.                     *)
LEMMA ShapesStay ==
  ASSUME WindowTypes, Kept
  PROVE  /\ store \in StoreRecord' /\ win \in [W!Windows -> WindowRecord'] /\ page \in PageRecord'
         /\ wire \in [W!Windows -> Seq(Word')]
         /\ 1 .. Last \subseteq 1 .. Last' /\ 0 .. Last \subseteq 0 .. Last'
         /\ Last \in Nat /\ Last' \in Nat
<1>1. Last \in Nat /\ Last' \in Nat /\ Last <= Last'
  BY DEF WindowTypes, Last, Kept
<1>2. 1 .. Last \subseteq 1 .. Last' /\ 0 .. Last \subseteq 0 .. Last'
  BY <1>1
<1>3. store \in StoreRecord'
  BY <1>2 DEF WindowTypes, StoreRecord
<1>4. page \in PageRecord'
  BY <1>2 DEF WindowTypes, PageRecord
<1>5. WindowRecord \subseteq WindowRecord'
  BY <1>2 DEF WindowRecord
<1>6. wire \in [W!Windows -> Seq(Word')]
  <2>1. wire \in [W!Windows -> Seq(Word)]
    BY DEF WindowTypes
  <2>2. \A v \in W!Windows : wire[v] \in Seq(Word')
    BY <2>1, <1>1, WordsStay DEF Kept
  <2> QED
    BY <2>1, <2>2
<1> QED
  BY <1>1, <1>2, <1>3, <1>4, <1>5, <1>6 DEF WindowTypes

(* The server sends words to the windows that are connected.               *)
Grows(words) ==
  \A v \in W!Windows :
    \/ v = "page" /\ page.pc # "open" /\ wire'[v] = <<>>
    \/ /\ v = "page" => page.pc = "open"
       /\ Len(wire'[v]) = Len(wire[v]) + Len(words)
       /\ \A i \in 1 .. Len(wire[v]) : wire'[v][i] = wire[v][i]
       /\ \A i \in 1 .. Len(words) : wire'[v][Len(wire[v]) + i] = words[i]
       /\ \A i \in (Len(wire[v]) + 1) .. (Len(wire[v]) + Len(words)) :
            wire'[v][i] = words[i - Len(wire[v])]

(* The words sent come after those under way.                            *)
LEMMA Sending ==
  ASSUME WindowTypes, Kept, NEW words \in Seq(Word'), wire' = W!Send(words)
  PROVE  wire' \in [W!Windows -> Seq(Word')] /\ Grows(words)
<1>1. wire \in [W!Windows -> Seq(Word')]
  BY ShapesStay
<1>2. \A v \in W!Windows : wire'[v] = IF v \in W!Connected THEN wire[v] \o words ELSE <<>>
  BY DEF W!Send
<1>3. \A v \in W!Windows : v \in W!Connected <=> (v = "page" => page.pc = "open")
  BY DEF W!Connected, W!Windows
<1>4. \A v \in W!Windows : wire[v] \o words \in Seq(Word')
  BY <1>1
<1>5. wire' \in [W!Windows -> Seq(Word')]
  BY <1>2, <1>4 DEF W!Send
<1>6. ASSUME NEW v \in W!Windows
      PROVE  /\ Len(wire[v] \o words) = Len(wire[v]) + Len(words)
             /\ \A i \in 1 .. Len(wire[v]) : (wire[v] \o words)[i] = wire[v][i]
             /\ \A i \in 1 .. Len(words) : (wire[v] \o words)[Len(wire[v]) + i] = words[i]
             /\ \A i \in (Len(wire[v]) + 1) .. (Len(wire[v]) + Len(words)) :
                  (wire[v] \o words)[i] = words[i - Len(wire[v])]
  BY <1>1
<1> QED
  BY <1>2, <1>3, <1>5, <1>6 DEF Grows

(* A window takes the first word of its wire.                              *)
Hears(w) ==
  /\ Len(wire[w]) > 0 /\ Len(wire'[w]) = Len(wire[w]) - 1
  /\ \A i \in 1 .. Len(wire'[w]) : wire'[w][i] = wire[w][i + 1]
  /\ \A v \in W!Windows \ {w} : wire'[v] = wire[v]

(* What a window hears is gone from its wire.                            *)
LEMMA Hearing ==
  ASSUME WindowTypes, Kept, NEW w \in W!Windows, wire[w] # <<>>, wire' = W!Rest(w)
  PROVE  wire' \in [W!Windows -> Seq(Word')] /\ Hears(w) /\ wire[w][1] \in Word
<1>1. wire \in [W!Windows -> Seq(Word')] /\ wire \in [W!Windows -> Seq(Word)]
  BY ShapesStay DEF WindowTypes
<1>2. wire'[w] = Tail(wire[w]) /\ \A v \in W!Windows \ {w} : wire'[v] = wire[v]
  BY <1>1 DEF W!Rest
<1>3. /\ Tail(wire[w]) \in Seq(Word') /\ Len(wire[w]) > 0 /\ Len(Tail(wire[w])) = Len(wire[w]) - 1
      /\ \A i \in 1 .. Len(Tail(wire[w])) : Tail(wire[w])[i] = wire[w][i + 1]
  BY <1>1
<1>4. wire' \in [W!Windows -> Seq(Word')]
  BY <1>1, <1>3 DEF W!Rest
<1>5. wire[w][1] \in Word
  BY <1>1, <1>3
<1> QED
  BY <1>2, <1>3, <1>4, <1>5 DEF Hears

(* What a step does to the records.                                        *)
EndsOne(c) ==
  /\ Kept /\ Last' = Last
  /\ \A d \in 1 .. Last : /\ rec'[d].peer = rec[d].peer /\ rec'[d].dir = rec[d].dir
                          /\ rec'[d].state = IF d = c THEN "ended" ELSE rec[d].state

(* One record ends.                                                      *)
LEMMA EndingEffect ==
  ASSUME WindowTypes, NEW c \in 1 .. Last, W!EndRec(c)
  PROVE  EndsOne(c)
<1>1. /\ rec \in Seq(CallRecord) /\ rec[c] \in CallRecord
      /\ rec' = [rec EXCEPT ![c] = [rec[c] EXCEPT !.state = "ended"]]
  BY DEF WindowTypes, W!EndRec, Last
<1>2. [rec[c] EXCEPT !.state = "ended"] \in CallRecord
  BY <1>1 DEF CallRecord
<1>3. rec' \in Seq(CallRecord) /\ Len(rec') = Len(rec)
  BY <1>1, <1>2 DEF Last
<1>4. \A d \in 1 .. Last : rec[d] \in CallRecord
  BY <1>1 DEF Last
<1> QED
  BY <1>1, <1>3, <1>4 DEF EndsOne, Kept, Last, CallRecord

(* The records have their types.                                         *)
LEMMA RecTyped ==
  ASSUME WindowTypes
  PROVE  /\ rec \in Seq(CallRecord) /\ Last \in Nat /\ W!Calls = 1 .. Last
         /\ \A d \in 1 .. Last : rec[d] \in CallRecord
         /\ UNCHANGED rec => Kept
  BY WindowTyped DEF WindowTypes, Last, Kept

(* A record is added.                                                    *)
Starts(p, dir) ==
  /\ Kept /\ Last' = Last + 1
  /\ \A d \in 1 .. Last : rec'[d] = rec[d]
  /\ rec'[Last'].peer = p /\ rec'[Last'].dir = dir /\ rec'[Last'].state = "pending"

(* A call that begins adds one.                                          *)
LEMMA Starting ==
  ASSUME WindowTypes, NEW p \in Peers, NEW dir \in {"in", "out"}, W!New(p, dir)
  PROVE  Starts(p, dir)
<1> DEFINE r == [peer |-> p, dir |-> dir, state |-> "pending"]
<1>1. rec' = Append(rec, r) /\ r \in CallRecord /\ rec \in Seq(CallRecord)
  BY RecTyped DEF W!New, CallRecord
<1>2. r.peer = p /\ r.dir = dir /\ r.state = "pending"
  OBVIOUS
<1> HIDE DEF r
<1>3. rec' \in Seq(CallRecord) /\ Len(rec') = Len(rec) + 1 /\ rec'[Len(rec) + 1] = r
      /\ \A d \in 1 .. Len(rec) : rec'[d] = rec[d]
  BY <1>1
<1> QED
  BY <1>1, <1>2, <1>3, RecTyped DEF Starts, Kept, Last

(* One record is answered.                                               *)
Answers(c) ==
  /\ Kept /\ Last' = Last
  /\ \A d \in 1 .. Last : /\ rec'[d].peer = rec[d].peer /\ rec'[d].dir = rec[d].dir
                          /\ rec'[d].state = IF d = c THEN "answered" ELSE rec[d].state

(* An answer leaves the other records alone.                             *)
LEMMA Answering ==
  ASSUME WindowTypes, NEW c \in 1 .. Last, rec' = [rec EXCEPT ![c].state = "answered"]
  PROVE  Answers(c)
<1>1. /\ rec \in Seq(CallRecord) /\ rec[c] \in CallRecord
      /\ rec' = [rec EXCEPT ![c] = [rec[c] EXCEPT !.state = "answered"]]
  BY DEF WindowTypes, Last
<1>2. [rec[c] EXCEPT !.state = "answered"] \in CallRecord
  BY <1>1 DEF CallRecord
<1>3. rec' \in Seq(CallRecord) /\ Len(rec') = Len(rec)
  BY <1>1, <1>2 DEF Last
<1> QED
  BY <1>1, <1>3, RecTyped DEF Answers, Kept, Last, CallRecord

(* A request that names a call which goes on ends it.                      *)
Requested(op, id) ==
  \/ ~W!Ends(id) /\ rec' = rec /\ again' = again /\ Kept
  \/ /\ W!Ends(id) /\ W!Named(id) \in 1 .. Last /\ W!Live(W!Named(id)) /\ EndsOne(W!Named(id))
     /\ again' = IF op = "cancel" THEN again ELSE again \cup {W!Named(id)}

(* What a request ends and whom the server tells.                        *)
LEMMA Requesting ==
  ASSUME WindowTypes, NEW op, NEW id \in Int, W!Request(op, id)
  PROVE  /\ Requested(op, id) /\ W!Told(op, id) \in Seq(Word') /\ Kept /\ Last' = Last
         /\ again' \subseteq 1 .. Last
         /\ \/ W!Told(op, id) = <<>> /\ (W!Ends(id) => op = "cancel" /\ rec[W!Named(id)].dir = "out")
            \/ W!Ends(id) /\ W!Told(op, id) = <<[kind |-> "ended", call |-> W!Named(id)]>>
<1>1. CASE ~W!Ends(id)
  BY <1>1, RecTyped DEF W!Request, Requested, W!Told, WindowTypes, Kept, Last
<1>2. CASE W!Ends(id)
  <2>1. W!Named(id) \in 1 .. Last /\ W!Live(W!Named(id))
    BY <1>2, RecTyped DEF W!Ends
  <2>2. W!EndRec(W!Named(id))
    BY <1>2 DEF W!Request, W!EndRec
  <2>3. EndsOne(W!Named(id))
    BY <2>1, <2>2, EndingEffect
  <2>4. again' = IF op = "cancel" THEN again ELSE again \cup {W!Named(id)}
    BY <1>2 DEF W!Request
  <2>5. [kind |-> "ended", call |-> W!Named(id)] \in Word'
    BY <2>1, <2>3 DEF Word, W!Kinds, EndsOne
  <2>6. \/ W!Told(op, id) = <<>> /\ op = "cancel" /\ rec[W!Named(id)].dir = "out"
        \/ W!Told(op, id) = <<[kind |-> "ended", call |-> W!Named(id)]>>
    BY <1>2, <2>1, RecTyped DEF W!Told, W!Ev, CallRecord
  <2>7. again' \subseteq 1 .. Last
    BY <2>1, <2>4 DEF WindowTypes
  <2>8. W!Told(op, id) \in Seq(Word')
    <3>1. ASSUME NEW e \in Word' PROVE <<e>> \in Seq(Word') /\ <<>> \in Seq(Word')
      BY <3>1
    <3> QED
      BY <2>5, <2>6, <3>1
  <2> QED
    BY <1>2, <2>1, <2>3, <2>4, <2>6, <2>7, <2>8 DEF Requested, EndsOne
<1> QED
  BY <1>1, <1>2

(* A window keeps what it shows but may be told.                           *)
Same(w) ==
  /\ win'[w].view = win[w].view /\ win'[w].accepted = win[w].accepted /\ win'[w].ended = win[w].ended
  /\ win'[w].ring = win[w].ring /\ win'[w].link = win[w].link /\ win'[w].listens = win[w].listens
  /\ win'[w].told \in BOOLEAN

(* A window forgets its call.                                            *)
Forgets(w) ==
  /\ win'[w].view = "idle" /\ ~win'[w].accepted /\ win'[w].ended
  /\ win'[w].ring = 0 /\ win'[w].link = 0 /\ win'[w].listens = win[w].listens

(* The other window is open and a start time stored: it will be told.    *)
Tells == store.start # "none" /\ page.pc # "closed"

(* The windows, the storage and the call window have their types.        *)
LEMMA WinTyped ==
  ASSUME WindowTypes
  PROVE  /\ win \in [W!Windows -> WindowRecord] /\ store \in StoreRecord /\ page \in PageRecord
         /\ win["main"] \in WindowRecord /\ win["page"] \in WindowRecord
         /\ W!Windows = {"main", "page"} /\ Last \in Nat
  BY RecTyped DEF WindowTypes, W!Windows

(* Two windows that differ only in whether they are told.                *)
SameBut(k, j) ==
  /\ k.view = j.view /\ k.accepted = j.accepted /\ k.ended = j.ended
  /\ k.ring = j.ring /\ k.link = j.link /\ k.listens = j.listens

(* Telling changes nothing else of the other window.                     *)
LEMMA TellingEffect ==
  ASSUME WindowTypes, NEW w \in W!Windows, NEW wins \in [W!Windows -> WindowRecord]
  PROVE  /\ W!Telling(w, wins) \in [W!Windows -> WindowRecord]
         /\ W!Telling(w, wins)[w] = wins[w]
         /\ \A o \in W!Windows \ {w} :
              /\ SameBut(W!Telling(w, wins)[o], wins[o])
              /\ Tells => W!Telling(w, wins)[o].told
              /\ ~Tells => W!Telling(w, wins)[o] = wins[o]
<1>1. W!Other(w) \in W!Windows \ {w} /\ \A o \in W!Windows \ {w} : o = W!Other(w)
  BY DEF W!Other, W!Windows
<1> DEFINE r == [wins[W!Other(w)] EXCEPT !.told = TRUE]
<1>2. r \in WindowRecord /\ r.told /\ SameBut(r, wins[W!Other(w)])
  BY <1>1 DEF WindowRecord, SameBut
<1>3. W!Telling(w, wins) = IF Tells THEN [wins EXCEPT ![W!Other(w)] = r] ELSE wins
  BY DEF W!Telling, Tells
<1> HIDE DEF r
<1>4. SameBut(wins[W!Other(w)], wins[W!Other(w)])
  BY DEF SameBut
<1> QED
  BY <1>1, <1>2, <1>3, <1>4

(* A cleaned window shows nothing.                                       *)
LEMMA CleanedTyped ==
  ASSUME NEW k \in WindowRecord, Last \in Nat
  PROVE  /\ W!Cleaned(k) \in WindowRecord
         /\ W!Cleaned(k).view = "idle" /\ ~W!Cleaned(k).accepted /\ W!Cleaned(k).ended
         /\ W!Cleaned(k).ring = 0 /\ W!Cleaned(k).link = 0 /\ W!Cleaned(k).listens = k.listens
         /\ W!Cleaned(k).told = k.told
<1>1. k.listens \in BOOLEAN /\ k.told \in BOOLEAN /\ 0 \in 0 .. Last
  BY DEF WindowRecord
<1>2. W!Blank \in WindowRecord
  BY <1>1 DEF W!Blank, WindowRecord
<1>3. /\ W!Blank.view = "idle" /\ W!Blank.accepted = FALSE /\ W!Blank.ended = FALSE /\ W!Blank.ring = 0
      /\ W!Blank.link = 0 /\ W!Blank.listens = FALSE /\ W!Blank.told = FALSE
  BY DEF W!Blank
<1>4. W!Cleaned(k) = [W!Blank EXCEPT !.ended = TRUE, !.listens = k.listens, !.told = k.told]
  BY DEF W!Cleaned
<1>5. W!Cleaned(k) \in WindowRecord
  BY <1>1, <1>2, <1>4 DEF WindowRecord
<1>6. W!Cleaned(k).view = "idle" /\ ~W!Cleaned(k).accepted /\ W!Cleaned(k).ended
  BY <1>2, <1>3, <1>4 DEF WindowRecord
<1>7. W!Cleaned(k).ring = 0 /\ W!Cleaned(k).link = 0
  BY <1>2, <1>3, <1>4 DEF WindowRecord
<1>8. W!Cleaned(k).listens = k.listens /\ W!Cleaned(k).told = k.told
  BY <1>1, <1>2, <1>4 DEF WindowRecord
<1> QED
  BY <1>5, <1>6, <1>7, <1>8

(* A window that cleans up forgets its call and tells the other one.     *)
LEMMA CleaningEffect ==
  ASSUME WindowTypes, NEW w \in W!Windows, W!Cleanup(w)
  PROVE  /\ win' \in [W!Windows -> WindowRecord] /\ store' = W!NoStore
         /\ Forgets(w) /\ win'[w].told = win[w].told
         /\ \A o \in W!Windows \ {w} : Same(o) /\ (win'[o].told <=> (win[o].told \/ Tells))
<1> DEFINE wins == [win EXCEPT ![w] = W!Cleaned(@)]
<1>1. wins \in [W!Windows -> WindowRecord] /\ wins[w] = W!Cleaned(win[w])
      /\ \A o \in W!Windows \ {w} : wins[o] = win[o]
  BY CleanedTyped, WinTyped
<1>2. win' = W!Telling(w, wins) /\ store' = W!NoStore
  BY DEF W!Cleanup
<1> HIDE DEF wins
<1>3. /\ win' \in [W!Windows -> WindowRecord] /\ win'[w] = W!Cleaned(win[w])
      /\ \A o \in W!Windows \ {w} :
           SameBut(win'[o], win[o]) /\ (Tells => win'[o].told) /\ (~Tells => win'[o] = win[o])
  BY <1>1, <1>2, TellingEffect
<1>4. \A o \in W!Windows : win[o] \in WindowRecord /\ win'[o] \in WindowRecord
  BY <1>3, WinTyped
<1>5. Forgets(w) /\ win'[w].told = win[w].told
  BY <1>3, <1>4, CleanedTyped, WinTyped DEF Forgets
<1>6. \A o \in W!Windows \ {w} : Same(o) /\ (win'[o].told <=> (win[o].told \/ Tells))
  <2> SUFFICES ASSUME NEW o \in W!Windows \ {w}
               PROVE  Same(o) /\ (win'[o].told <=> (win[o].told \/ Tells))
    OBVIOUS
  <2>1. win'[o].told \in BOOLEAN /\ win[o].told \in BOOLEAN
    BY <1>4 DEF WindowRecord
  <2>2. Same(o)
    BY <1>3, <2>1 DEF Same, SameBut
  <2>3. win'[o].told <=> (win[o].told \/ Tells)
    BY <1>3, <2>1
  <2> QED
    BY <2>2, <2>3
<1> QED
  BY <1>2, <1>3, <1>5, <1>6

(* What the server alone does.                                             *)
ServerSays(words) ==
  /\ wire' \in [W!Windows -> Seq(Word')] /\ Grows(words)
  /\ UNCHANGED <<store, win, page, left, taken>>

(* A single word is a sequence of words.                                 *)
LEMMA OneWord ==
  ASSUME NEW e \in Word'
  PROVE  <<e>> \in Seq(Word') /\ Len(<<e>>) = 1 /\ <<e>>[1] = e
  OBVIOUS

(* A peer calls.                                                         *)
LEMMA OfferEffect ==
  ASSUME WindowTypes, NEW p \in Peers, W!Offer(p)
  PROVE  /\ Starts(p, "in") /\ mixed' = (mixed \/ ~W!Quiet) /\ again' = again
         /\ ServerSays(<<[kind |-> "offer", call |-> Last']>>)
<1>1. Starts(p, "in") /\ mixed' = (mixed \/ ~W!Quiet)
  BY Starting DEF W!Offer, W!New
<1>2. [kind |-> "offer", call |-> Last'] \in Word' /\ Kept
  BY <1>1, RecTyped DEF Word, W!Kinds, Starts
<1>3. wire' = W!Send(<<[kind |-> "offer", call |-> Last']>>)
  BY DEF W!Offer, W!Ev, Last
<1> QED
  BY <1>1, <1>2, <1>3, OneWord, Sending DEF W!Offer, ServerSays

(* The records change, the windows are told.                               *)
LEMMA SayEffect ==
  ASSUME WindowTypes, Kept, Last' = Last, NEW kind \in W!Kinds, NEW c \in 1 .. Last,
         wire' = W!Send(<<W!Ev(kind, c)>>)
  PROVE  /\ wire' \in [W!Windows -> Seq(Word')] /\ Grows(<<[kind |-> kind, call |-> c]>>)
<1>1. [kind |-> kind, call |-> c] \in Word'
  BY DEF Word
<1>2. wire' = W!Send(<<[kind |-> kind, call |-> c]>>)
  BY DEF W!Ev
<1> QED
  BY <1>1, <1>2, OneWord, Sending

(* The server ends a call and says so.                                   *)
ServerEnds(c, kind) ==
  /\ EndsOne(c) /\ mixed' = mixed /\ ServerSays(<<[kind |-> kind, call |-> c]>>)

(* A peer gives up.                                                      *)
LEMMA PeerCancelsEffect ==
  ASSUME WindowTypes, NEW c \in 1 .. Last, W!PeerCancels(c)
  PROVE  ServerEnds(c, "ended") /\ again' = again /\ rec[c].dir = "in" /\ W!Live(c)
<1>1. EndsOne(c) /\ Kept /\ Last' = Last
  BY EndingEffect DEF W!PeerCancels, EndsOne
<1>2. "ended" \in W!Kinds
  BY DEF W!Kinds
<1> QED
  BY <1>1, <1>2, SayEffect DEF W!PeerCancels, W!Pending, W!Live, ServerEnds, ServerSays

(* Nobody has answered.                                                  *)
LEMMA TimeoutEffect ==
  ASSUME WindowTypes, NEW c \in 1 .. Last, W!Timeout(c)
  PROVE  ServerEnds(c, "timeout") /\ again' = again /\ rec[c].state = "pending"
<1>1. EndsOne(c) /\ Kept /\ Last' = Last
  BY EndingEffect DEF W!Timeout, EndsOne
<1>2. "timeout" \in W!Kinds
  BY DEF W!Kinds
<1> QED
  BY <1>1, <1>2, SayEffect DEF W!Timeout, ServerEnds, ServerSays

(* A peer leaves an answered call.                                       *)
LEMMA PeerHangsUpEffect ==
  ASSUME WindowTypes, NEW c \in 1 .. Last, W!PeerHangsUp(c)
  PROVE  ServerEnds(c, "ended") /\ again' = again \cup {c} /\ rec[c].state = "answered"
<1>1. EndsOne(c) /\ Kept /\ Last' = Last
  BY EndingEffect DEF W!PeerHangsUp, EndsOne
<1>2. "ended" \in W!Kinds
  BY DEF W!Kinds
<1> QED
  BY <1>1, <1>2, SayEffect DEF W!PeerHangsUp, ServerEnds, ServerSays

(* A peer turns a call down.                                             *)
LEMMA PeerRejectsEffect ==
  ASSUME WindowTypes, NEW c \in 1 .. Last, W!PeerRejects(c)
  PROVE  /\ EndsOne(c) /\ mixed' = mixed /\ again' = again \cup {c}
         /\ rec[c].dir = "out" /\ rec[c].state = "pending"
         /\ ServerSays(<<[kind |-> "ended", call |-> c], [kind |-> "rejected", call |-> c]>>)
<1>1. EndsOne(c) /\ Kept /\ Last' = Last
  BY EndingEffect DEF W!PeerRejects, EndsOne
<1>2. [kind |-> "ended", call |-> c] \in Word' /\ [kind |-> "rejected", call |-> c] \in Word'
  BY <1>1 DEF W!Kinds, Word
<1>3. ASSUME NEW d \in Word', NEW e \in Word' PROVE <<d, e>> \in Seq(Word')
  OBVIOUS
<1>4. wire' = W!Send(<<[kind |-> "ended", call |-> c], [kind |-> "rejected", call |-> c]>>)
  BY DEF W!PeerRejects, W!Ev
<1> QED
  BY <1>1, <1>2, <1>3, <1>4, Sending DEF W!PeerRejects, W!Pending, ServerSays

(* A peer answers.                                                       *)
LEMMA PeerAcceptsEffect ==
  ASSUME WindowTypes, NEW c \in 1 .. Last, W!PeerAccepts(c)
  PROVE  /\ Answers(c) /\ mixed' = mixed /\ again' = again
         /\ rec[c].dir = "out" /\ rec[c].state = "pending"
         /\ ServerSays(<<[kind |-> "accepted", call |-> c]>>)
<1>1. Answers(c) /\ Kept /\ Last' = Last
  BY Answering DEF W!PeerAccepts, Answers
<1>2. "accepted" \in W!Kinds
  BY DEF W!Kinds
<1> QED
  BY <1>1, <1>2, SayEffect DEF W!PeerAccepts, W!Pending, ServerSays

(* An end is announced once more.                                        *)
LEMMA AnnounceAgainEffect ==
  ASSUME WindowTypes, NEW c \in again, W!AnnounceAgain(c)
  PROVE  /\ rec' = rec /\ Kept /\ mixed' = mixed /\ again' = again \ {c} /\ c \in 1 .. Last
         /\ ServerSays(<<[kind |-> "ended", call |-> c]>>)
<1>1. Kept /\ Last' = Last /\ c \in 1 .. Last
  BY RecTyped DEF W!AnnounceAgain, WindowTypes, Last
<1>2. "ended" \in W!Kinds
  BY DEF W!Kinds
<1> QED
  BY <1>1, <1>2, SayEffect DEF W!AnnounceAgain, ServerSays

(* Whatever happens to the records, a step that leaves the windows alone   *)
(* keeps their shapes.                                                     *)
LEMMA ServerSaysTypes ==
  ASSUME WindowTypes, Kept, mixed' \in BOOLEAN, again' \subseteq 1 .. Last', NEW words, ServerSays(words)
  PROVE  WindowTypes'
<1>1. /\ store \in StoreRecord' /\ win \in [W!Windows -> WindowRecord'] /\ page \in PageRecord'
      /\ 1 .. Last \subseteq 1 .. Last'
  BY ShapesStay
<1>2. left' = left /\ taken' = taken /\ store' = store /\ win' = win /\ page' = page
  BY DEF ServerSays
<1> QED
  BY <1>1, <1>2 DEF WindowTypes, Kept, ServerSays

(* A step that keeps the number of calls keeps the shapes as they are.     *)
LEMMA SameShapes ==
  ASSUME Last' = Last
  PROVE  /\ StoreRecord' = StoreRecord /\ PageRecord' = PageRecord /\ WindowRecord' = WindowRecord
         /\ Word' = Word
  BY DEF StoreRecord, PageRecord, WindowRecord, Word

(* What a window, the storage and the call window are at first has its shape. *)
LEMMA NullsTyped ==
  ASSUME WindowTypes
  PROVE  /\ W!NoPage \in PageRecord /\ W!NoStore \in StoreRecord /\ W!Blank \in WindowRecord
         /\ 0 \in 0 .. Last /\ 1 .. Last \subseteq 0 .. Last /\ 1 .. Last \subseteq Int
<1>1. 0 \in 0 .. Last /\ Last \in Nat
  BY RecTyped
<1>2. W!NoPage \in PageRecord
  BY <1>1 DEF W!NoPage, PageRecord
<1>3. W!NoStore \in StoreRecord
  BY <1>1 DEF W!NoStore, StoreRecord
<1>4. W!Blank \in WindowRecord
  BY <1>1 DEF W!Blank, WindowRecord
<1> QED
  BY <1>1, <1>2, <1>3, <1>4

(* A step that says nothing keeps the shapes.                            *)
LEMMA QuietTypes ==
  ASSUME WindowTypes, UNCHANGED <<rec, again, wire, left, mixed>>, taken' \subseteq 1 .. Last,
         store' \in StoreRecord, win' \in [W!Windows -> WindowRecord], page' \in PageRecord,
         page'.pc # "closed" => page'.who \in Peers
  PROVE  WindowTypes'
<1>1. Last' = Last
  BY DEF Last
<1> QED
  BY <1>1, SameShapes DEF WindowTypes

(* The call window opens for an outgoing call.                           *)
LEMMA CallFromChatTypes ==
  ASSUME WindowTypes, NEW p \in Peers, W!CallFromChat(p)
  PROVE  WindowTypes'
<1>1. store' \in StoreRecord
  BY WinTyped DEF W!CallFromChat, StoreRecord
<1>2. page' \in PageRecord /\ page'.who = p
  BY NullsTyped DEF W!CallFromChat, PageRecord
<1> QED
  BY <1>1, <1>2, QuietTypes DEF W!CallFromChat, WindowTypes

(* The call window opens for an incoming one, the ringing one.           *)
LEMMA HandleAnswerTypes ==
  ASSUME WindowTypes, W!HandleAnswer
  PROVE  WindowTypes' /\ Ring \in 1 .. Last
<1>1. Ring \in 1 .. Last /\ rec[Ring].peer \in Peers
  BY WinTyped, RecTyped DEF W!HandleAnswer, Ring, WindowRecord, CallRecord
<1>2. store' \in StoreRecord
  <2>1. /\ store' = [store EXCEPT !.signal = Ring, !.caller = rec[Ring].peer, !.id = Ring]
        /\ Ring \in 0 .. Last /\ Ring \in Int /\ store \in StoreRecord
    BY <1>1, NullsTyped, WinTyped DEF W!HandleAnswer, Ring
  <2> QED
    BY <1>1, <2>1 DEF StoreRecord
<1>3. page' \in PageRecord /\ page'.who \in Peers
  <2>1. /\ page' = [W!NoPage EXCEPT !.pc = "opening", !.dir = "in", !.who = rec[Ring].peer, !.call = Ring]
        /\ Ring \in 0 .. Last /\ W!NoPage \in PageRecord
    BY <1>1, NullsTyped DEF W!HandleAnswer, Ring
  <2> QED
    BY <1>1, <2>1 DEF PageRecord
<1>4. win' \in [W!Windows -> WindowRecord]
  BY WinTyped DEF W!HandleAnswer, WindowRecord
<1>5. taken' \subseteq 1 .. Last
  BY <1>1 DEF W!HandleAnswer, WindowTypes, Ring
<1> QED
  BY <1>1, <1>2, <1>3, <1>4, <1>5, QuietTypes DEF W!HandleAnswer

(* The call window has loaded.                                           *)
LEMMA LoadedTypes ==
  ASSUME WindowTypes, W!Loaded
  PROVE  WindowTypes'
<1>1. store' \in StoreRecord
  BY WinTyped DEF W!Loaded, StoreRecord, PageRecord
<1>2. page' \in PageRecord /\ page'.who \in Peers
  BY WinTyped DEF W!Loaded, PageRecord, WindowTypes
<1> QED
  BY <1>1, <1>2, QuietTypes DEF W!Loaded, WindowTypes

(* The storage forgets the signal.                                       *)
LEMMA ForgetSignalTypes ==
  ASSUME WindowTypes, W!ForgetSignal
  PROVE  WindowTypes'
<1>1. store' \in StoreRecord
  BY WinTyped, NullsTyped DEF W!ForgetSignal, StoreRecord
<1>2. page' \in PageRecord /\ page'.who = page.who /\ page'.pc = page.pc
  BY WinTyped DEF W!ForgetSignal, PageRecord
<1> QED
  BY <1>1, <1>2, QuietTypes DEF W!ForgetSignal, WindowTypes

(* The start time ages.                                                  *)
LEMMA AgeTypes ==
  ASSUME WindowTypes, W!Age
  PROVE  WindowTypes'
<1>1. store' \in StoreRecord
  BY WinTyped DEF W!Age, StoreRecord
<1> QED
  BY <1>1, QuietTypes DEF W!Age, WindowTypes

(* A window that was told forgets what it shows.                         *)
LEMMA HandleStorageChangeTypes ==
  ASSUME WindowTypes, NEW w \in W!Windows, W!HandleStorageChange(w)
  PROVE  /\ WindowTypes' /\ ~win'[w].told /\ win[w].told
         /\ \A o \in W!Windows \ {w} : win'[o] = win[o]
         /\ win[w].view # "idle" => Forgets(w)
         /\ win[w].view = "idle" => SameBut(win'[w], win[w])
<1> DEFINE k == IF win[w].view # "idle" THEN W!Cleaned(win[w]) ELSE win[w]
           r == [k EXCEPT !.told = FALSE]
<1>1. win[w] \in WindowRecord /\ Last \in Nat
  BY WinTyped
<1>2. k \in WindowRecord
  BY <1>1, CleanedTyped
<1>3. win' = [win EXCEPT ![w] = r]
  BY DEF W!HandleStorageChange
<1>4. win[w].view # "idle" =>
        /\ k.view = "idle" /\ ~k.accepted /\ k.ended /\ k.ring = 0 /\ k.link = 0
        /\ k.listens = win[w].listens
  BY <1>1, CleanedTyped
<1>5. win[w].view = "idle" => k = win[w]
  OBVIOUS
<1> HIDE DEF k
<1>6. r \in WindowRecord /\ ~r.told /\ SameBut(r, k)
  BY <1>2 DEF WindowRecord, SameBut
<1> HIDE DEF r
<1>7. win' \in [W!Windows -> WindowRecord] /\ win'[w] = r
      /\ \A o \in W!Windows \ {w} : win'[o] = win[o]
  BY <1>3, <1>6, WinTyped
<1>8. WindowTypes'
  BY <1>7, QuietTypes DEF W!HandleStorageChange, WindowTypes
<1> QED
  BY <1>4, <1>5, <1>6, <1>7, <1>8 DEF W!HandleStorageChange, Forgets, SameBut

(* The call window answers the stored call, if it can be.                *)
LEMMA JoinIncomingEffect ==
  ASSUME WindowTypes, W!JoinIncoming
  PROVE  /\ WindowTypes' /\ Kept /\ Last' = Last
         /\ \/ store.id \in 1 .. Last /\ W!Pending(store.id, "in") /\ Answers(store.id)
            \/ ~(store.id \in 1 .. Last /\ W!Pending(store.id, "in")) /\ rec' = rec
<1>1. /\ Kept /\ Last' = Last
      /\ \/ store.id \in 1 .. Last /\ W!Pending(store.id, "in") /\ Answers(store.id)
         \/ ~(store.id \in 1 .. Last /\ W!Pending(store.id, "in")) /\ rec' = rec
  <2>1. CASE store.id \in 1 .. Last /\ W!Pending(store.id, "in")
    BY <2>1, RecTyped, Answering DEF W!JoinIncoming, Answers
  <2>2. CASE ~(store.id \in 1 .. Last /\ W!Pending(store.id, "in"))
    BY <2>2, RecTyped DEF W!JoinIncoming, Kept, Last
  <2> QED
    BY <2>1, <2>2
<1>2. store' \in StoreRecord
  BY WinTyped DEF W!JoinIncoming, StoreRecord
<1>3. W!Named(store.id) \in Nat
  BY WinTyped DEF W!Named, StoreRecord
<1>4. page' \in PageRecord /\ page'.who = page.who /\ page'.pc = page.pc
  BY <1>3, WinTyped DEF W!JoinIncoming, PageRecord
<1>5. win' \in [W!Windows -> WindowRecord]
  <2>1. store.signal \in Nat
    BY WinTyped DEF StoreRecord
  <2> QED
    BY <2>1, WinTyped DEF W!JoinIncoming, WindowRecord
<1> QED
  BY <1>1, <1>2, <1>4, <1>5, SameShapes DEF W!JoinIncoming, WindowTypes, Kept

(* The call window starts its call.                                      *)
LEMMA JoinOutgoingEffect ==
  ASSUME WindowTypes, W!JoinOutgoing
  PROVE  /\ WindowTypes' /\ Starts(page.who, "out") /\ mixed' = (mixed \/ ~W!Quiet)
         /\ Grows(<<[kind |-> "created", call |-> Last']>>)
<1>1. page.who \in Peers /\ page.pc = "open"
  BY DEF W!JoinOutgoing, W!CanJoin, WindowTypes
<1>2. Starts(page.who, "out") /\ mixed' = (mixed \/ ~W!Quiet)
  BY <1>1, Starting DEF W!JoinOutgoing, W!New
<1>3. [kind |-> "created", call |-> Last'] \in Word' /\ Kept /\ Last' = Last + 1 /\ Last \in Nat
  BY <1>2, RecTyped DEF Word, W!Kinds, Starts
<1>4. wire' = W!Send(<<[kind |-> "created", call |-> Last']>>)
  BY <1>3 DEF W!JoinOutgoing, W!Ev, Last
<1>5. wire' \in [W!Windows -> Seq(Word')] /\ Grows(<<[kind |-> "created", call |-> Last']>>)
  BY <1>3, <1>4, OneWord, Sending
<1>6. store' \in StoreRecord'
  <2>1. store \in StoreRecord' /\ -Last' \in Int
    BY <1>3, ShapesStay
  <2> QED
    BY <1>1, <1>3, <2>1 DEF W!JoinOutgoing, StoreRecord, Last
<1>7. page' \in PageRecord' /\ page'.who = page.who
  <2>1. page \in PageRecord' /\ Last' \in 0 .. Last' /\ Last' \in Nat
    BY <1>3, ShapesStay
  <2> QED
    BY <1>3, <2>1 DEF W!JoinOutgoing, PageRecord, Last
<1>8. win' \in [W!Windows -> WindowRecord']
  <2>1. win \in [W!Windows -> WindowRecord'] /\ Last' \in Nat /\ 0 \in 0 .. Last'
    BY <1>3, ShapesStay
  <2>2. win["page"].told \in BOOLEAN
    BY WinTyped DEF WindowRecord
  <2>3. W!Blank \in WindowRecord'
    BY <2>1 DEF W!Blank, WindowRecord
  <2>4. win' = [win EXCEPT !["page"] = [W!Blank EXCEPT !.view = "calling", !.link = Last',
                               !.listens = TRUE, !.told = win["page"].told]]
    BY <1>3 DEF W!JoinOutgoing, Last
  <2>5. [W!Blank EXCEPT !.view = "calling", !.link = Last', !.listens = TRUE,
                        !.told = win["page"].told] \in WindowRecord'
    BY <2>1, <2>2, <2>3 DEF WindowRecord
  <2> QED
    BY <2>1, <2>4, <2>5
<1>9. again' \subseteq 1 .. Last' /\ left' \subseteq 1 .. Last' /\ taken' \subseteq 1 .. Last'
  BY <1>3, ShapesStay DEF W!JoinOutgoing, WindowTypes
<1> QED
  BY <1>1, <1>2, <1>3, <1>5, <1>6, <1>7, <1>8, <1>9 DEF WindowTypes, Kept

(* The server is asked to end the call that the storage names.             *)
ServerAsked(op, asks) ==
  \/ ~asks /\ UNCHANGED <<rec, again, wire>>
  \/ asks /\ Requested(op, store.id) /\ Grows(W!Told(op, store.id))

(* A request, made or not, keeps the shapes.                             *)
LEMMA AskingTypes ==
  ASSUME WindowTypes, NEW op, NEW asks \in BOOLEAN,
         IF asks THEN W!Request(op, store.id) /\ wire' = W!Send(W!Told(op, store.id))
                 ELSE W!NoRequest /\ UNCHANGED wire
  PROVE  /\ ServerAsked(op, asks) /\ Kept /\ Last' = Last /\ again' \subseteq 1 .. Last
         /\ wire' \in [W!Windows -> Seq(Word)]
<1>1. CASE asks
  <2>1. store.id \in Int
    BY WinTyped DEF StoreRecord
  <2>2. /\ Requested(op, store.id) /\ W!Told(op, store.id) \in Seq(Word') /\ Kept /\ Last' = Last
        /\ again' \subseteq 1 .. Last
    BY <1>1, <2>1, Requesting
  <2>3. wire' \in [W!Windows -> Seq(Word')] /\ Grows(W!Told(op, store.id))
    BY <1>1, <2>2, Sending
  <2> QED
    BY <1>1, <2>2, <2>3, SameShapes DEF ServerAsked
<1>2. CASE ~asks
  BY <1>2, RecTyped DEF W!NoRequest, ServerAsked, WindowTypes, Kept, Last
<1> QED
  BY <1>1, <1>2

(* The storage is empty and the window has forgotten its call.           *)
CleansUp(w) ==
  /\ store' = W!NoStore /\ Forgets(w) /\ win'[w].told = win[w].told
  /\ \A o \in W!Windows \ {w} : Same(o) /\ (win'[o].told <=> (win[o].told \/ Tells))

(* A step that keeps the number of calls and the shapes it changes.      *)
LEMMA AskedTypes ==
  ASSUME WindowTypes, Kept, Last' = Last, again' \subseteq 1 .. Last, wire' \in [W!Windows -> Seq(Word)],
         win' \in [W!Windows -> WindowRecord], store' \in StoreRecord, page' \in PageRecord,
         page'.pc # "closed" => page'.who \in Peers,
         left' \subseteq 1 .. Last, taken' \subseteq 1 .. Last, mixed' = mixed
  PROVE  WindowTypes'
  BY SameShapes DEF WindowTypes, Kept

(* The notification is turned down.                                      *)
LEMMA RejectEffect ==
  ASSUME WindowTypes, W!Reject
  PROVE  /\ WindowTypes' /\ Kept /\ Last' = Last /\ Ring \in 1 .. Last
         /\ ServerAsked("reject", store.caller # Nobody) /\ CleansUp("main")
         /\ left' = left \cup {Ring} /\ taken' = taken \cup {Ring}
<1>1. Ring \in 1 .. Last
  BY WinTyped DEF W!Reject, Ring, WindowRecord
<1>2. /\ ServerAsked("reject", store.caller # Nobody) /\ Kept /\ Last' = Last
      /\ again' \subseteq 1 .. Last /\ wire' \in [W!Windows -> Seq(Word)]
  <2>1. (store.caller # Nobody) \in BOOLEAN
    OBVIOUS
  <2> QED
    BY <2>1, AskingTypes DEF W!Reject, W!RejectCall
<1>3. W!Cleanup("main") /\ "main" \in W!Windows
  BY DEF W!Reject, W!RejectCall, W!Windows
<1>4. CleansUp("main") /\ win' \in [W!Windows -> WindowRecord] /\ store' \in StoreRecord
  BY <1>3, CleaningEffect, NullsTyped DEF CleansUp
<1>5. left' = left \cup {Ring} /\ taken' = taken \cup {Ring}
  BY <1>1, RecTyped DEF W!Reject, W!Leaving, Ring
<1>6. page' = page /\ mixed' = mixed
  BY DEF W!Reject
<1> QED
  BY <1>1, <1>2, <1>4, <1>5, <1>6, AskedTypes DEF WindowTypes

(* The call window is left.                                              *)
LEMMA HangupEffect ==
  ASSUME WindowTypes, W!Hangup
  PROVE  /\ WindowTypes' /\ Kept /\ Last' = Last
         /\ W!TurnsDown => ServerAsked("reject", store.caller # Nobody)
         /\ ~W!TurnsDown => ServerAsked(W!LeaveOp, W!CanLeave)
         /\ CleansUp("page") /\ left' = left \cup ({page.call} \cap 1 .. Last)
         /\ page'.pc = page.pc /\ page'.dir = page.dir /\ page'.call = page.call
         /\ page'.joined = page.joined /\ page'.timer = page.timer /\ page'.bound \in {page.bound, 0}
         /\ W!TurnsDown /\ store.caller # Nobody => page'.bound = 0
         /\ ~W!TurnsDown /\ W!CanLeave => page'.bound = 0
<1>1. /\ Kept /\ Last' = Last /\ again' \subseteq 1 .. Last /\ wire' \in [W!Windows -> Seq(Word)]
      /\ W!TurnsDown => ServerAsked("reject", store.caller # Nobody)
      /\ ~W!TurnsDown => ServerAsked(W!LeaveOp, W!CanLeave)
  <2>1. (store.caller # Nobody) \in BOOLEAN /\ W!CanLeave \in BOOLEAN
    BY DEF W!CanLeave
  <2>2. CASE W!TurnsDown
    BY <2>1, <2>2, AskingTypes DEF W!Hangup, W!RejectCall
  <2>3. CASE ~W!TurnsDown
    BY <2>1, <2>3, AskingTypes DEF W!Hangup, W!Leave
  <2> QED
    BY <2>2, <2>3
<1>2. W!Cleanup("page") /\ "page" \in W!Windows
  BY DEF W!Hangup, W!RejectCall, W!Leave, W!Windows
<1>3. CleansUp("page") /\ win' \in [W!Windows -> WindowRecord] /\ store' \in StoreRecord
  BY <1>2, CleaningEffect, NullsTyped DEF CleansUp
<1>4. left' = left \cup ({page.call} \cap 1 .. Last) /\ taken' = taken /\ mixed' = mixed
  BY RecTyped DEF W!Hangup, W!Leaving
<1>5. /\ page' = [page EXCEPT !.bound = 0] \/ page' = page
      /\ W!TurnsDown /\ store.caller # Nobody => page' = [page EXCEPT !.bound = 0]
      /\ ~W!TurnsDown /\ W!CanLeave => page' = [page EXCEPT !.bound = 0]
  BY DEF W!Hangup
<1>6. /\ page' \in PageRecord /\ page'.who = page.who
      /\ page'.pc = page.pc /\ page'.dir = page.dir /\ page'.call = page.call
      /\ page'.joined = page.joined /\ page'.timer = page.timer /\ page'.bound \in {page.bound, 0}
      /\ W!TurnsDown /\ store.caller # Nobody => page'.bound = 0
      /\ ~W!TurnsDown /\ W!CanLeave => page'.bound = 0
  BY <1>5, WinTyped DEF PageRecord
<1>7. WindowTypes'
  BY <1>1, <1>3, <1>4, <1>6, AskedTypes DEF WindowTypes
<1> QED
  BY <1>1, <1>3, <1>4, <1>6, <1>7

(* The call window goes.                                                   *)
Closed ==
  /\ WindowTypes' /\ Kept /\ Last' = Last
  /\ UNCHANGED <<again, taken, mixed>>
  /\ \/ page.bound \in 1 .. Last /\ W!Live(page.bound) /\ EndsOne(page.bound)
     \/ ~(page.bound \in 1 .. Last /\ W!Live(page.bound)) /\ rec' = rec
  /\ page' = W!NoPage /\ win'["page"] = W!Blank
  /\ Same("main") /\ (win'["main"].told <=> (win["main"].told \/ (Shown.view # "idle" /\ Tells)))
  /\ store'.partner = store.partner /\ store'.caller = store.caller /\ store'.signal = store.signal
  /\ store'.id = store.id /\ store'.start = IF Shown.view # "idle" THEN "none" ELSE store.start
  /\ left' = left \cup ({page.bound} \cap 1 .. Last)
  /\ wire'["page"] = <<>> /\ wire'["main"] = wire["main"]

(* Closing it, by hand or for an offer.                                  *)
LEMMA ClosingEffect ==
  ASSUME WindowTypes, W!ClosePage \/ W!OfferCloses
  PROVE  Closed
<1>1. /\ W!Closing /\ wire' = [wire EXCEPT !["page"] = <<>>] /\ UNCHANGED <<again, taken, mixed>>
  BY DEF W!ClosePage, W!OfferCloses
<1>2. page.bound \in Nat
  BY WinTyped DEF PageRecord
<1>3. W!Ends(page.bound) <=> (page.bound \in 1 .. Last /\ W!Live(page.bound))
  BY <1>2, RecTyped DEF W!Ends, W!Named
<1>4. /\ Kept /\ Last' = Last
      /\ \/ page.bound \in 1 .. Last /\ W!Live(page.bound) /\ EndsOne(page.bound)
         \/ ~(page.bound \in 1 .. Last /\ W!Live(page.bound)) /\ rec' = rec
  <2>1. CASE W!Ends(page.bound)
    BY <1>1, <1>3, <2>1, EndingEffect DEF W!Closing, EndsOne
  <2>2. CASE ~W!Ends(page.bound)
    BY <1>1, <1>3, <2>2, RecTyped DEF W!Closing, Kept, Last
  <2> QED
    BY <2>1, <2>2
<1>5. page' = W!NoPage /\ W!NoPage \in PageRecord /\ page'.pc = "closed"
  BY <1>1, NullsTyped DEF W!Closing, W!NoPage
<1>6. /\ store' \in StoreRecord
      /\ store'.partner = store.partner /\ store'.caller = store.caller /\ store'.signal = store.signal
      /\ store'.id = store.id /\ store'.start = IF Shown.view # "idle" THEN "none" ELSE store.start
  BY <1>1, WinTyped DEF W!Closing, Shown, StoreRecord
<1>7. left' = left \cup ({page.bound} \cap 1 .. Last)
  BY <1>1, RecTyped DEF W!Closing, W!Leaving
<1>8. wire' \in [W!Windows -> Seq(Word)] /\ wire'["page"] = <<>> /\ wire'["main"] = wire["main"]
  BY <1>1 DEF WindowTypes, W!Windows
<1> DEFINE wins == IF Shown.view # "idle" THEN W!Telling("page", win) ELSE win
<1>9. /\ wins \in [W!Windows -> WindowRecord] /\ SameBut(wins["main"], win["main"])
      /\ Shown.view # "idle" /\ Tells => wins["main"].told
      /\ ~(Shown.view # "idle" /\ Tells) => wins["main"].told = win["main"].told
  <2>1. "main" \in W!Windows \ {"page"} /\ "page" \in W!Windows /\ win \in [W!Windows -> WindowRecord]
    BY WinTyped
  <2>2. SameBut(win["main"], win["main"])
    BY DEF SameBut
  <2> QED
    BY <2>1, <2>2, TellingEffect
<1>10. win' = [wins EXCEPT !["page"] = W!Blank]
  BY <1>1 DEF W!Closing, Shown
<1> HIDE DEF wins
<1>11. win' \in [W!Windows -> WindowRecord] /\ win'["page"] = W!Blank /\ win'["main"] = wins["main"]
  BY <1>9, <1>10, NullsTyped DEF W!Windows
<1>12. win'["main"].told \in BOOLEAN /\ win["main"].told \in BOOLEAN
  BY <1>11, WinTyped DEF WindowRecord
<1>13. Same("main") /\ (win'["main"].told <=> (win["main"].told \/ (Shown.view # "idle" /\ Tells)))
  BY <1>9, <1>11, <1>12 DEF Same, SameBut
<1>14. again' = again /\ taken' = taken /\ mixed' = mixed
  BY <1>1
<1>15. WindowTypes'
  <2>1. again' \subseteq 1 .. Last /\ taken' \subseteq 1 .. Last /\ left' \subseteq 1 .. Last
    BY <1>7, <1>14 DEF WindowTypes
  <2> QED
    BY <1>4, <1>5, <1>6, <1>8, <1>11, <1>14, <2>1, AskedTypes
<1> QED
  BY <1>4, <1>5, <1>6, <1>7, <1>8, <1>11, <1>13, <1>14, <1>15 DEF Closed

(* A window hears a word, which changes at most what it shows and stores.  *)
HeardQuietly(w) ==
  /\ WindowTypes' /\ Hears(w) /\ wire[w][1] \in Word /\ rec' = rec /\ Kept /\ page' = page
  /\ UNCHANGED <<again, left, taken, mixed>>

(* Hearing a word keeps the shapes.                                      *)
LEMMA QuietlyEffect ==
  ASSUME WindowTypes, NEW w \in W!Windows, wire[w] # <<>>, W!Quietly(w), UNCHANGED page,
         store' \in StoreRecord, win' \in [W!Windows -> WindowRecord]
  PROVE  HeardQuietly(w)
<1>1. rec' = rec /\ Kept /\ Last' = Last /\ UNCHANGED <<again, left, taken, mixed>>
  BY RecTyped DEF W!Quietly, Last
<1>2. wire' \in [W!Windows -> Seq(Word)] /\ Hears(w) /\ wire[w][1] \in Word
  BY <1>1, Hearing, SameShapes DEF W!Quietly
<1>3. WindowTypes'
  BY <1>1, <1>2, AskedTypes DEF WindowTypes
<1> QED
  BY <1>1, <1>2, <1>3 DEF HeardQuietly

(* An offer taken for glare.                                             *)
LEMMA OfferIgnoredEffect ==
  ASSUME WindowTypes, NEW w \in W!Windows, W!OfferIgnored(w)
  PROVE  HeardQuietly(w)
<1>1. wire[w] # <<>> /\ W!Quietly(w) /\ UNCHANGED <<store, win, page>>
  BY DEF W!OfferIgnored, W!Heard, W!Head1
<1> QED
  BY <1>1, QuietlyEffect DEF WindowTypes

(* The first word of a wire is one.                                      *)
LEMMA HeadTyped ==
  ASSUME WindowTypes, NEW w \in W!Windows, wire[w] # <<>>
  PROVE  /\ Len(wire[w]) > 0 /\ wire[w][1] \in Word /\ wire[w][1].call \in 1 .. Last
         /\ 1 \in 1 .. Len(wire[w]) /\ rec[wire[w][1].call] \in CallRecord
<1>1. wire[w] \in Seq(Word)
  BY DEF WindowTypes
<1>2. Len(wire[w]) > 0 /\ wire[w][1] \in Word /\ 1 \in 1 .. Len(wire[w])
  BY <1>1
<1> QED
  BY <1>2, RecTyped DEF Word

(* An offer rings.                                                       *)
LEMMA OfferRingsEffect ==
  ASSUME WindowTypes, NEW w \in W!Windows, W!OfferRings(w)
  PROVE  /\ HeardQuietly(w)
         /\ store'.signal = wire[w][1].call /\ store'.caller = rec[wire[w][1].call].peer
         /\ store'.partner = rec[wire[w][1].call].peer /\ store'.id = wire[w][1].call
         /\ store'.start = store.start
         /\ win'[w].view = "ringing" /\ ~win'[w].ended /\ win'[w].ring = wire[w][1].call
         /\ win'[w].accepted = win[w].accepted /\ win'[w].link = win[w].link
         /\ win'[w].listens = win[w].listens /\ win'[w].told = win[w].told
         /\ \A o \in W!Windows \ {w} : win'[o] = win[o]
<1> DEFINE c == wire[w][1].call
<1>1. wire[w] # <<>> /\ W!Quietly(w) /\ UNCHANGED page
  BY DEF W!OfferRings, W!Heard, W!Head1
<1>2. c \in 0 .. Last /\ c \in Int /\ rec[c].peer \in Peers
  BY <1>1, HeadTyped, NullsTyped DEF CallRecord
<1>3. store' = [store EXCEPT !.signal = c, !.caller = rec[c].peer, !.partner = rec[c].peer, !.id = c]
  BY DEF W!OfferRings
<1>4. win' = [win EXCEPT ![w].view = "ringing", ![w].ended = FALSE, ![w].ring = c]
  BY DEF W!OfferRings
<1> HIDE DEF c
<1>5. store' \in StoreRecord /\ store'.signal = c /\ store'.caller = rec[c].peer
      /\ store'.partner = rec[c].peer /\ store'.id = c /\ store'.start = store.start
  BY <1>2, <1>3, WinTyped DEF StoreRecord
<1>6. /\ win' \in [W!Windows -> WindowRecord]
      /\ win'[w].view = "ringing" /\ ~win'[w].ended /\ win'[w].ring = c
      /\ win'[w].accepted = win[w].accepted /\ win'[w].link = win[w].link
      /\ win'[w].listens = win[w].listens /\ win'[w].told = win[w].told
      /\ \A o \in W!Windows \ {w} : win'[o] = win[o]
  BY <1>2, <1>4, WinTyped DEF WindowRecord
<1>7. HeardQuietly(w)
  BY <1>1, <1>5, <1>6, QuietlyEffect
<1> QED
  BY <1>5, <1>6, <1>7 DEF c

(* The call has its record's id.                                         *)
LEMMA HandleCreatedEffect ==
  ASSUME WindowTypes, NEW w \in W!Windows, W!HandleCreated(w)
  PROVE  /\ HeardQuietly(w) /\ win' = win /\ wire[w][1].kind = "created"
         /\ store'.signal = store.signal /\ store'.caller = store.caller /\ store'.start = store.start
         /\ store'.partner = rec[wire[w][1].call].peer /\ store'.id = wire[w][1].call
<1> DEFINE c == wire[w][1].call
<1>1. wire[w] # <<>> /\ W!Quietly(w) /\ UNCHANGED <<page, win>> /\ wire[w][1].kind = "created"
  BY DEF W!HandleCreated, W!Head1
<1>2. c \in 0 .. Last /\ c \in Int /\ rec[c].peer \in Peers
  BY <1>1, HeadTyped, NullsTyped DEF CallRecord
<1>3. store' = [store EXCEPT !.id = c, !.partner = rec[c].peer]
  BY DEF W!HandleCreated
<1> HIDE DEF c
<1>4. store' \in StoreRecord /\ store'.signal = store.signal /\ store'.caller = store.caller
      /\ store'.partner = rec[c].peer /\ store'.id = c /\ store'.start = store.start
  BY <1>2, <1>3, WinTyped DEF StoreRecord
<1>5. HeardQuietly(w)
  BY <1>1, <1>4, QuietlyEffect DEF WindowTypes
<1> QED
  BY <1>1, <1>4, <1>5 DEF c

(* The peer has answered, which the window hears if it listens.          *)
LEMMA HandleAcceptedEffect ==
  ASSUME WindowTypes, NEW w \in W!Windows, W!HandleAccepted(w)
  PROVE  /\ HeardQuietly(w) /\ store' = store /\ wire[w][1].kind = "accepted"
         /\ ~win[w].listens => win' = win
         /\ win[w].listens =>
              /\ win'[w].accepted /\ ~win'[w].ended /\ win'[w].view = "connected" /\ ~win'[w].listens
              /\ win'[w].ring = win[w].ring /\ win'[w].link = win[w].link /\ win'[w].told = win[w].told
              /\ \A o \in W!Windows \ {w} : win'[o] = win[o]
<1>1. wire[w] # <<>> /\ W!Quietly(w) /\ UNCHANGED <<page, store>> /\ wire[w][1].kind = "accepted"
  BY DEF W!HandleAccepted, W!Head1
<1>2. CASE win[w].listens
  <2>1. /\ win' \in [W!Windows -> WindowRecord]
        /\ win'[w].accepted /\ ~win'[w].ended /\ win'[w].view = "connected" /\ ~win'[w].listens
        /\ win'[w].ring = win[w].ring /\ win'[w].link = win[w].link /\ win'[w].told = win[w].told
        /\ \A o \in W!Windows \ {w} : win'[o] = win[o]
    BY <1>2, WinTyped DEF W!HandleAccepted, WindowRecord
  <2> QED
    BY <1>1, <1>2, <2>1, QuietlyEffect DEF WindowTypes
<1>3. CASE ~win[w].listens
  BY <1>1, <1>3, QuietlyEffect DEF WindowTypes, W!HandleAccepted
<1> QED
  BY <1>2, <1>3

(* The call is over.                                                     *)
LEMMA HandleEndedEffect ==
  ASSUME WindowTypes, NEW w \in W!Windows, W!HandleEnded(w)
  PROVE  HeardQuietly(w) /\ CleansUp(w) /\ wire[w][1].kind \in {"ended", "rejected"}
<1>1. /\ wire[w] # <<>> /\ W!Quietly(w) /\ UNCHANGED page /\ W!Cleanup(w)
      /\ wire[w][1].kind \in {"ended", "rejected"}
  BY DEF W!HandleEnded, W!Head1
<1>2. CleansUp(w) /\ win' \in [W!Windows -> WindowRecord] /\ store' \in StoreRecord
  BY <1>1, CleaningEffect, NullsTyped DEF CleansUp
<1> QED
  BY <1>1, <1>2, QuietlyEffect

(* The timeout of the stored call, or of another one.                    *)
LEMMA HandleTimeoutEffect ==
  ASSUME WindowTypes, NEW w \in W!Windows, W!HandleTimeout(w)
  PROVE  /\ HeardQuietly(w) /\ wire[w][1].kind = "timeout"
         /\ \/ W!OthersTimeout(wire[w][1].call) /\ store' = store /\ win' = win
            \/ ~W!OthersTimeout(wire[w][1].call) /\ CleansUp(w)
<1>1. wire[w] # <<>> /\ W!Quietly(w) /\ UNCHANGED page /\ wire[w][1].kind = "timeout"
  BY DEF W!HandleTimeout, W!Head1
<1>2. CASE W!OthersTimeout(wire[w][1].call)
  BY <1>1, <1>2, QuietlyEffect DEF WindowTypes, W!HandleTimeout
<1>3. CASE ~W!OthersTimeout(wire[w][1].call)
  <2>1. W!Cleanup(w)
    BY <1>3 DEF W!HandleTimeout
  <2>2. CleansUp(w) /\ win' \in [W!Windows -> WindowRecord] /\ store' \in StoreRecord
    BY <2>1, CleaningEffect, NullsTyped DEF CleansUp
  <2> QED
    BY <1>1, <1>3, <2>2, QuietlyEffect
<1> QED
  BY <1>2, <1>3

(* The offer of a call that meets a busy window is turned down at once.    *)
LEMMA OfferRejectedTypes ==
  ASSUME WindowTypes, NEW w \in W!Windows, W!OfferRejected(w)
  PROVE  WindowTypes'
<1> DEFINE c == wire[w][1].call
           words == W!Told("reject", c)
<1>1. wire[w] # <<>> /\ W!Request("reject", c)
  BY DEF W!OfferRejected, W!Heard, W!Head1
<1>2. c \in 1 .. Last /\ c \in Int
  BY <1>1, HeadTyped, NullsTyped
<1>3. words \in Seq(Word') /\ Kept /\ Last' = Last /\ again' \subseteq 1 .. Last
  BY <1>1, <1>2, Requesting
<1>4. words \in Seq(Word)
  BY <1>3, SameShapes
<1>5. store' \in StoreRecord
  BY <1>2, WinTyped DEF W!OfferRejected, StoreRecord
<1>6. page' \in PageRecord /\ page'.who = page.who /\ page'.pc = page.pc
  BY WinTyped DEF W!OfferRejected, PageRecord
<1>7. wire' = [v \in W!Windows |-> IF v \in W!Connected THEN W!Rest(w)[v] \o words ELSE <<>>]
  BY DEF W!OfferRejected
<1>8. taken' = taken \cup {c}
  BY DEF W!OfferRejected
<1> HIDE DEF c, words
<1>9. W!Rest(w) \in [W!Windows -> Seq(Word)]
  <2>1. wire \in [W!Windows -> Seq(Word)]
    BY DEF WindowTypes
  <2>2. Tail(wire[w]) \in Seq(Word)
    BY <1>1, <2>1
  <2> QED
    BY <2>1, <2>2 DEF W!Rest
<1>10. wire' \in [W!Windows -> Seq(Word)]
  <2>1. \A v \in W!Windows : W!Rest(w)[v] \o words \in Seq(Word)
    BY <1>4, <1>9
  <2> QED
    BY <1>7, <2>1
<1>11. taken' \subseteq 1 .. Last
  BY <1>2, <1>8 DEF WindowTypes
<1>12. win' = win /\ left' = left /\ mixed' = mixed
  BY DEF W!OfferRejected
<1> QED
  BY <1>3, <1>5, <1>6, <1>10, <1>11, <1>12, AskedTypes DEF WindowTypes

(* While no call crosses another one. *)
Accepting == \E i \in 1 .. Len(wire["page"]) : wire["page"][i].kind = "accepted"
Ending(w) == \E i \in 1 .. Len(wire[w]) : wire[w][i].kind \in EndKinds
Offered == \E i \in 1 .. Len(wire["main"]) : wire["main"][i].kind = "offer"

(* At most the last call is going on, and everything is about it.          *)
LastOnly ==
  /\ \A c \in 1 .. Last - 1 : ~W!Live(c)
  /\ \A v \in W!Windows : \A i \in 1 .. Len(wire[v]) : wire[v][i].call = Last
  /\ again \subseteq {Last} /\ \A c \in again : ~W!Live(c)
  /\ page.call \in {0, Last} /\ page.bound \in {0, page.call} /\ Ring \in {0, Last}

(* What is on its way to a window, after what the server has done.         *)
InOrder ==
  \A v \in W!Windows : \A i \in 1 .. Len(wire[v]) :
    LET e == wire[v][i] IN
    /\ e.kind = "offer" => rec[Last].dir = "in" /\ i = 1 /\ (v = "page" => page.call = 0)
    /\ e.kind \in {"created", "accepted", "rejected"} => rec[Last].dir = "out"
    /\ e.kind \in EndKinds => ~W!Live(Last) /\ \A j \in i .. Len(wire[v]) : wire[v][j].kind # "accepted"
    /\ e.kind = "timeout" => ~Accepting /\ (page.dir = "out" => ~Shown.accepted)
    /\ e.kind = "accepted" => rec[Last].state # "pending"

(* The call window, and the main window, which never joins a call.         *)
PageShaped ==
  /\ page.pc = "closed" => page = W!NoPage
  /\ page.dir = "none" => page.pc = "closed"
  /\ page.pc # "open" => wire["page"] = <<>> /\ ~page.joined
  /\ page.dir = "in" => page.call # 0 /\ rec[Last].dir = "in" /\ Ring = 0 /\ ~Offered /\ ~Shown.listens
                        /\ (Shown.accepted => Shown.link = page.call)
  /\ page.dir # "in" => (page.joined <=> page.call # 0) /\ ~page.timer
  /\ page.dir = "out" /\ page.joined => rec[Last].dir = "out"
  /\ page.timer => page.joined
  /\ ~page.joined => Shown.view = "idle" /\ ~Shown.accepted /\ ~Shown.listens

(* The main window rings for a call that is no longer offered to it.     *)
MainShaped ==
  /\ win["main"].view \in {"idle", "ringing"} /\ ~win["main"].listens /\ ~win["main"].accepted
  /\ Ring # 0 => win["main"].view = "ringing" /\ rec[Last].dir = "in" /\ ~Offered

(* A start time is that of the outgoing call the window shows.             *)
StartTold ==
  /\ store.start # "none" => page.joined /\ page.dir = "out" /\ Shown.view # "idle" /\ ~Shown.told
  /\ Last # 0 /\ rec[Last].dir = "in" => \A v \in W!Windows : ~win[v].told
  /\ Shown.told => Last # 0 /\ ~W!Live(Last)

(* While a call goes on the storage names it to whoever may end it.        *)
StoreNames ==
  /\ Ring # 0 => (store.id = Last /\ store.caller # Nobody) \/ (store.id = 0 /\ ~W!Live(Last))
  /\ page.dir = "in" /\ ~page.joined =>
       /\ store.signal # 0 => store.signal = Last /\ store.id = Last
       /\ ~Shown.ended /\ W!Live(Last) => store.id = Last /\ store.caller # Nobody
  /\ page.joined /\ ~Shown.ended /\ W!Live(Last) => W!Named(store.id) = Last /\ store.partner # Nobody

(* An outgoing call that is shown goes on, or its end is on its way.       *)
OutShown ==
  page.dir = "out" /\ page.joined =>
    /\ W!Live(Last) => Shown.link = Last /\ ~Shown.ended
    /\ rec[Last].state = "pending" => ~Shown.accepted
    /\ ~W!Live(Last) => Last \in left \/ Ending("page") \/ (~Shown.accepted /\ ~Accepting)

(* A call that can be answered rings or will, and one that rings can be    *)
(* answered or its end is on its way.                                      *)
Rings ==
  /\ Ring # 0 \/ Offered => rec[Last].state = "pending" \/ Ending("main")
  /\ Last # 0 /\ W!Pending(Last, "in") /\ Last \notin taken => Ring = Last \/ Offered

(* The invariant of a behaviour in which no calls crossed.               *)
OneCall ==
  /\ LastOnly /\ InOrder /\ PageShaped /\ MainShaped /\ StartTold /\ StoreNames /\ OutShown /\ Rings
  /\ \A c \in left : ~W!Live(c)

(* The types, field by field.                                            *)
LEMMA FieldsTyped ==
  ASSUME WindowTypes
  PROVE  /\ Last \in Nat
         /\ page.joined \in BOOLEAN /\ page.timer \in BOOLEAN /\ page.dir \in {"none", "in", "out"}
         /\ page.pc \in {"closed", "opening", "open"} /\ page.call \in 0 .. Last /\ page.bound \in Nat
         /\ W!Windows = {"main", "page"}
         /\ \A v \in W!Windows :
              /\ wire[v] \in Seq(Word) /\ Len(wire[v]) \in Nat
              /\ \A i \in 1 .. Len(wire[v]) : wire[v][i].kind \in W!Kinds /\ wire[v][i].call \in 1 .. Last
              /\ win[v].accepted \in BOOLEAN /\ win[v].ended \in BOOLEAN /\ win[v].listens \in BOOLEAN
              /\ win[v].told \in BOOLEAN /\ win[v].ring \in 0 .. Last /\ win[v].link \in Nat
              /\ win[v].view \in {"idle", "calling", "ringing", "connected"}
<1>1. Last \in Nat /\ W!Windows = {"main", "page"}
  BY WinTyped
<1>2. page \in PageRecord
  BY WinTyped
<1>3. ASSUME NEW v \in W!Windows
      PROVE  /\ wire[v] \in Seq(Word) /\ Len(wire[v]) \in Nat
             /\ \A i \in 1 .. Len(wire[v]) : wire[v][i].kind \in W!Kinds /\ wire[v][i].call \in 1 .. Last
  <2>1. wire[v] \in Seq(Word)
    BY DEF WindowTypes
  <2>2. \A i \in 1 .. Len(wire[v]) : wire[v][i] \in Word
    BY <2>1
  <2> QED
    BY <2>1, <2>2 DEF Word
<1>4. ASSUME NEW v \in W!Windows
      PROVE  /\ win[v].accepted \in BOOLEAN /\ win[v].ended \in BOOLEAN /\ win[v].listens \in BOOLEAN
             /\ win[v].told \in BOOLEAN /\ win[v].ring \in 0 .. Last /\ win[v].link \in Nat
             /\ win[v].view \in {"idle", "calling", "ringing", "connected"}
  BY WinTyped DEF WindowRecord
<1> QED
  BY <1>1, <1>2, <1>3, <1>4 DEF PageRecord

(* An offer that crosses nothing finds every call over.                  *)
LEMMA OfferKeeps ==
  ASSUME WindowTypes, OneCall, NEW p \in Peers, W!Offer(p), ~mixed'
  PROVE  OneCall'
<1>1. /\ Starts(p, "in") /\ W!Quiet /\ again' = again
      /\ ServerSays(<<[kind |-> "offer", call |-> Last']>>)
  BY OfferEffect
<1>2. /\ \A c \in 1 .. Last : rec[c].state = "ended"
      /\ again = {} /\ page.call = 0 /\ wire["main"] = <<>> /\ wire["page"] = <<>>
      /\ ~win["main"].told /\ ~win["page"].told /\ ~Shown.accepted
  BY <1>1, RecTyped DEF W!Quiet, W!Live, W!Windows, Shown
<1>3. Ring = 0
  BY <1>2, FieldsTyped DEF OneCall, Rings, LastOnly, Ending, Ring
<1>4. page.dir # "in" /\ ~page.joined /\ page.bound = 0
  BY <1>2, FieldsTyped DEF OneCall, PageShaped, LastOnly
<1>5. /\ wire'["main"] \in Seq(Word') /\ wire'["page"] \in Seq(Word')
      /\ Len(wire'["main"]) = 1 /\ wire'["main"][1] = [kind |-> "offer", call |-> Last']
      /\ \/ page.pc # "open" /\ wire'["page"] = <<>> /\ Len(wire'["page"]) = 0
         \/ page.pc = "open" /\ Len(wire'["page"]) = 1 /\ wire'["page"][1] = [kind |-> "offer", call |-> Last']
  BY <1>1, <1>2, FieldsTyped DEF ServerSays, Grows
<1>6. LastOnly' /\ \A c \in left' : ~W!Live(c)'
  <2>1. \A c \in 1 .. Last : rec'[c].state = "ended"
    BY <1>1, <1>2 DEF Starts
  <2>2. Last' = Last + 1 /\ Last \in Nat /\ left' \subseteq 1 .. Last
    BY <1>1, FieldsTyped DEF Starts, ServerSays, WindowTypes
  <2>3. \A c \in 1 .. Last' - 1 : ~W!Live(c)'
    BY <2>1, <2>2 DEF W!Live
  <2>4. \A v \in W!Windows : \A i \in 1 .. Len(wire'[v]) : wire'[v][i].call = Last'
    BY <1>5, FieldsTyped
  <2>5. again' = {} /\ page'.call = 0 /\ page'.bound = 0 /\ Ring' = 0
    BY <1>1, <1>2, <1>3, <1>4 DEF ServerSays, Ring
  <2> QED
    BY <2>1, <2>2, <2>3, <2>4, <2>5 DEF LastOnly, W!Live
<1>7. InOrder'
  <2>1. rec'[Last'].dir = "in" /\ page'.call = 0
    BY <1>1, <1>2 DEF Starts, ServerSays
  <2>2. ASSUME NEW v \in W!Windows, NEW i \in 1 .. Len(wire'[v])
        PROVE  i = 1 /\ wire'[v][i].kind = "offer"
    <3>1. v = "main" \/ v = "page"
      BY DEF W!Windows
    <3>2. CASE v = "main"
      BY <1>5, <3>2
    <3>3. CASE v = "page"
      <4>1. i \in 1 .. Len(wire'["page"])
        BY <3>3
      <4>2. CASE Len(wire'["page"]) = 0
        BY <4>1, <4>2
      <4>3. CASE Len(wire'["page"]) = 1 /\ wire'["page"][1] = [kind |-> "offer", call |-> Last']
        <5>1. i = 1
          BY <4>1, <4>3
        <5>2. wire'["page"][1].kind = "offer"
          BY <4>3
        <5> QED
          BY <3>3, <5>1, <5>2
      <4> QED
        BY <1>5, <4>2, <4>3
    <3> QED
      BY <3>1, <3>2, <3>3
  <2>3. Last' \in Nat
    BY <1>1, FieldsTyped DEF Starts
  <2> QED
    BY <2>1, <2>2, <2>3 DEF InOrder, EndKinds
<1>8. PageShaped' /\ MainShaped'
  BY <1>1, <1>2, <1>3, <1>4, <1>5, FieldsTyped
  DEF OneCall, PageShaped, MainShaped, ServerSays, Ring, Shown
<1>9. StartTold'
  BY <1>1, <1>2, <1>3, <1>4, FieldsTyped DEF OneCall, StartTold, ServerSays, Shown
<1>10. StoreNames' /\ OutShown'
  BY <1>1, <1>2, <1>3, <1>4, FieldsTyped DEF StoreNames, OutShown, ServerSays, Ring
<1>11. Rings'
  BY <1>1, <1>3, <1>5, FieldsTyped DEF Rings, Offered, ServerSays, Ring, Starts
<1> QED
  BY <1>6, <1>7, <1>8, <1>9, <1>10, <1>11 DEF OneCall

(* The last call is over, and the windows are told so.                     *)
Final(e) ==
  /\ e.kind \in EndKinds /\ e.call = Last
  /\ e.kind = "rejected" => rec[Last].dir = "out"
  /\ e.kind = "timeout" => ~Accepting /\ (page.dir = "out" => ~Shown.accepted)

(* All that happens: the last call's record ends, and its windows are told. *)
Over(words) ==
  /\ Kept /\ Last' = Last /\ Last # 0 /\ again' \subseteq {Last}
  /\ rec'[Last].state = "ended"
  /\ \A d \in 1 .. Last : rec'[d].dir = rec[d].dir /\ (d # Last => rec'[d].state = rec[d].state)
  /\ ServerSays(words) /\ Len(words) \in {1, 2}
  /\ \A i \in 1 .. Len(words) : Final(words[i])

(* Such a step keeps the invariant.                                      *)
LEMMA OverKeeps ==
  ASSUME WindowTypes, OneCall, NEW words, Over(words)
  PROVE  OneCall'
<1>1. /\ Last' = Last /\ Last \in Nat /\ Last # 0 /\ again' \subseteq {Last}
      /\ rec'[Last].state = "ended"
      /\ \A d \in 1 .. Last : rec'[d].dir = rec[d].dir /\ (d # Last => rec'[d].state = rec[d].state)
      /\ store' = store /\ win' = win /\ page' = page /\ left' = left /\ taken' = taken
      /\ Last \in 1 .. Last /\ rec'[Last].dir = rec[Last].dir
      /\ Ring' = Ring /\ Shown' = Shown
  BY FieldsTyped DEF Over, ServerSays, Ring, Shown
<1>2. \A v \in W!Windows : \A i \in 1 .. Len(wire'[v]) :
        \/ i \in 1 .. Len(wire[v]) /\ wire'[v][i] = wire[v][i]
        \/ i > Len(wire[v]) /\ Final(wire'[v][i])
  <2> SUFFICES ASSUME NEW v \in W!Windows, NEW i \in 1 .. Len(wire'[v])
               PROVE  \/ i \in 1 .. Len(wire[v]) /\ wire'[v][i] = wire[v][i]
                      \/ i > Len(wire[v]) /\ Final(wire'[v][i])
    OBVIOUS
  <2>1. Len(wire[v]) \in Nat /\ Len(words) \in Nat /\ Grows(words)
    BY FieldsTyped DEF Over, ServerSays
  <2>2. CASE v = "page" /\ page.pc # "open"
    BY <2>1, <2>2 DEF Grows
  <2>3. CASE ~(v = "page" /\ page.pc # "open")
    <3>1. /\ Len(wire'[v]) = Len(wire[v]) + Len(words)
          /\ \A k \in 1 .. Len(wire[v]) : wire'[v][k] = wire[v][k]
          /\ \A k \in (Len(wire[v]) + 1) .. (Len(wire[v]) + Len(words)) :
               wire'[v][k] = words[k - Len(wire[v])]
      BY <2>1, <2>3 DEF Grows
    <3>2. CASE i <= Len(wire[v])
      BY <2>1, <3>1, <3>2
    <3>3. CASE i > Len(wire[v])
      <4>1. i - Len(wire[v]) \in 1 .. Len(words) /\ wire'[v][i] = words[i - Len(wire[v])]
        BY <2>1, <3>1, <3>3
      <4> QED
        BY <3>3, <4>1 DEF Over
    <3> QED
      BY <2>1, <3>2, <3>3
  <2> QED
    BY <2>2, <2>3
<1>3. \A v \in W!Windows : (v = "page" => page.pc = "open") =>
        \E i \in 1 .. Len(wire'[v]) : wire'[v][i].kind \in EndKinds
  <2> SUFFICES ASSUME NEW v \in W!Windows, v = "page" => page.pc = "open"
               PROVE  \E i \in 1 .. Len(wire'[v]) : wire'[v][i].kind \in EndKinds
    OBVIOUS
  <2>1. Len(wire[v]) \in Nat /\ Len(words) \in {1, 2} /\ Grows(words) /\ 1 \in 1 .. Len(words)
    <3>1. Len(words) = 1 \/ Len(words) = 2
      BY DEF Over
    <3>2. 1 \in 1 .. 1 /\ 1 \in 1 .. 2
      OBVIOUS
    <3> QED
      BY <3>1, <3>2, FieldsTyped DEF Over, ServerSays
  <2>2. Len(wire'[v]) = Len(wire[v]) + Len(words) /\ wire'[v][Len(wire[v]) + 1] = words[1]
    BY <2>1 DEF Grows
  <2>3. words[1].kind \in EndKinds
    BY <2>1 DEF Over, Final
  <2>4. Len(wire[v]) + 1 \in 1 .. Len(wire'[v])
    BY <2>1, <2>2
  <2> QED
    BY <2>2, <2>3, <2>4
<1>4. page.pc # "open" => wire'["page"] = <<>> /\ Len(wire'["page"]) = 0
  BY DEF Over, ServerSays, Grows, W!Windows
<1>5. \A c \in 1 .. Last : c \in left \/ c < Last => rec'[c].state = "ended"
  BY <1>1 DEF OneCall, LastOnly, W!Live
<1>6. LastOnly' /\ \A c \in left' : ~W!Live(c)'
  <2>1. \A v \in W!Windows : \A i \in 1 .. Len(wire'[v]) : wire'[v][i].call = Last
    BY <1>2, FieldsTyped DEF Final, OneCall, LastOnly
  <2>2. left \subseteq 1 .. Last
    BY DEF WindowTypes
  <2> QED
    BY <1>1, <1>5, <2>1, <2>2 DEF LastOnly, OneCall, W!Live, Ring
<1>7. ~Offered => ~Offered'
  BY <1>2, FieldsTyped DEF Offered, Final, EndKinds
<1>8. ~Accepting => ~Accepting'
  BY <1>2, FieldsTyped DEF Accepting, Final, EndKinds
<1>9. InOrder'
  <2>1. InOrder
    BY DEF OneCall
  <2> SUFFICES ASSUME NEW v \in W!Windows, NEW i \in 1 .. Len(wire'[v])
               PROVE  LET e == wire'[v][i] IN
                      /\ e.kind = "offer" => rec[Last].dir = "in" /\ i = 1 /\ (v = "page" => page.call = 0)
                      /\ e.kind \in {"created", "accepted", "rejected"} => rec[Last].dir = "out"
                      /\ e.kind \in EndKinds => \A j \in i .. Len(wire'[v]) : wire'[v][j].kind # "accepted"
                      /\ e.kind = "timeout" => ~Accepting /\ (page.dir = "out" => ~Shown.accepted)
    BY <1>1, <1>8 DEF InOrder, W!Live
  <2>2. Len(wire[v]) \in Nat /\ Len(wire'[v]) \in Nat
    BY FieldsTyped DEF Over, ServerSays, Grows
  <2>3. CASE i \in 1 .. Len(wire[v]) /\ wire'[v][i] = wire[v][i]
    <3>1. /\ wire'[v][i].kind = "offer" => rec[Last].dir = "in" /\ i = 1 /\ (v = "page" => page.call = 0)
          /\ wire'[v][i].kind \in {"created", "accepted", "rejected"} => rec[Last].dir = "out"
          /\ wire'[v][i].kind \in EndKinds => \A j \in i .. Len(wire[v]) : wire[v][j].kind # "accepted"
          /\ wire'[v][i].kind = "timeout" => ~Accepting /\ (page.dir = "out" => ~Shown.accepted)
      BY <2>1, <2>3 DEF InOrder
    <3>2. ASSUME wire'[v][i].kind \in EndKinds, NEW j \in i .. Len(wire'[v])
          PROVE  wire'[v][j].kind # "accepted"
      <4>1. j \in 1 .. Len(wire'[v])
        BY <2>2, <2>3
      <4>2. \/ j \in i .. Len(wire[v]) /\ wire'[v][j] = wire[v][j]
            \/ Final(wire'[v][j])
        BY <1>2, <2>2, <4>1
      <4> QED
        BY <3>1, <3>2, <4>2 DEF Final, EndKinds
    <3> QED
      BY <3>1, <3>2
  <2>4. CASE i > Len(wire[v]) /\ Final(wire'[v][i])
    <3>1. ASSUME NEW j \in i .. Len(wire'[v]) PROVE wire'[v][j].kind # "accepted"
      <4>1. j \in 1 .. Len(wire'[v]) /\ j > Len(wire[v])
        BY <2>2, <2>4
      <4> QED
        BY <1>2, <2>2, <4>1 DEF Final, EndKinds
    <3> QED
      BY <2>4, <3>1 DEF Final, EndKinds
  <2> QED
    BY <1>2, <2>3, <2>4
<1>10. PageShaped' /\ MainShaped'
  BY <1>1, <1>4, <1>7, FieldsTyped DEF OneCall, PageShaped, MainShaped, Ring, Shown
<1>11. StartTold' /\ StoreNames'
  BY <1>1, FieldsTyped DEF OneCall, StartTold, StoreNames, W!Live
<1>12. OutShown'
  BY <1>1, <1>3, FieldsTyped DEF OneCall, OutShown, PageShaped, Ending, W!Live
<1>13. Rings'
  BY <1>1, <1>3, FieldsTyped DEF OneCall, Rings, Ending, W!Pending
<1> QED
  BY <1>6, <1>9, <1>10, <1>11, <1>12, <1>13 DEF OneCall

(* A live call is the last one.                                            *)
LEMMA LiveIsLast ==
  ASSUME WindowTypes, OneCall, NEW c \in 1 .. Last, W!Live(c) \/ rec[c].state \in {"pending", "answered"}
  PROVE  c = Last /\ W!Live(Last)
  BY FieldsTyped DEF OneCall, LastOnly, W!Live

(* An end of the last call is such a step.                               *)
LEMMA EndsOver ==
  ASSUME WindowTypes, OneCall, EndsOne(Last), Last # 0, again' \subseteq {Last}, NEW words, ServerSays(words),
         Len(words) \in {1, 2},
         \A i \in 1 .. Len(words) : Final(words[i])
  PROVE  OneCall'
<1>1. Last \in 1 .. Last
  BY FieldsTyped
<1> QED
  BY <1>1, OverKeeps DEF EndsOne, Over

(* The peer gives up or leaves.                                          *)
LEMMA PeerEndsKeeps ==
  ASSUME WindowTypes, OneCall, NEW c \in 1 .. Last, W!PeerCancels(c) \/ W!PeerHangsUp(c)
  PROVE  OneCall'
<1> DEFINE words == <<[kind |-> "ended", call |-> c]>>
<1>1. /\ EndsOne(c) /\ ServerSays(words) /\ again' \in {again, again \cup {c}}
      /\ rec[c].state \in {"pending", "answered"} \/ W!Live(c)
  BY PeerCancelsEffect, PeerHangsUpEffect DEF ServerEnds
<1>2. c = Last
  BY <1>1, LiveIsLast
<1>3. Len(words) = 1 /\ words[1].kind = "ended" /\ words[1].call = c
  OBVIOUS
<1>4. again' \subseteq {Last} /\ Last # 0
  BY <1>1, <1>2, FieldsTyped DEF OneCall, LastOnly
<1> HIDE DEF words
<1> QED
  BY <1>1, <1>2, <1>3, <1>4, EndsOver DEF EndKinds, Final

(* A call that times out has been accepted nowhere.                      *)
LEMMA TimeoutKeeps ==
  ASSUME WindowTypes, OneCall, NEW c \in 1 .. Last, W!Timeout(c)
  PROVE  OneCall'
<1> DEFINE words == <<[kind |-> "timeout", call |-> c]>>
<1>1. EndsOne(c) /\ ServerSays(words) /\ again' = again /\ rec[c].state = "pending"
  BY TimeoutEffect DEF ServerEnds
<1>2. c = Last
  BY <1>1, LiveIsLast
<1>3. Len(words) = 1 /\ words[1].kind = "timeout" /\ words[1].call = c
  OBVIOUS
<1>4. again' \subseteq {Last} /\ Last # 0
  BY <1>1, <1>2, FieldsTyped DEF OneCall, LastOnly
<1>5. ~Accepting
  BY <1>1, <1>2, FieldsTyped DEF OneCall, InOrder, Accepting
<1>6. page.dir = "out" => ~Shown.accepted
  BY <1>1, <1>2, FieldsTyped DEF OneCall, OutShown, PageShaped
<1> HIDE DEF words
<1> QED
  BY <1>1, <1>2, <1>3, <1>4, <1>5, <1>6, EndsOver DEF EndKinds, Final

(* The peer turns the call down.                                         *)
LEMMA PeerRejectsKeeps ==
  ASSUME WindowTypes, OneCall, NEW c \in 1 .. Last, W!PeerRejects(c)
  PROVE  OneCall'
<1> DEFINE words == <<[kind |-> "ended", call |-> c], [kind |-> "rejected", call |-> c]>>
<1>1. /\ EndsOne(c) /\ ServerSays(words) /\ again' = again \cup {c}
      /\ rec[c].state = "pending" /\ rec[c].dir = "out"
  BY PeerRejectsEffect
<1>2. c = Last
  BY <1>1, LiveIsLast
<1>3. /\ Len(words) = 2 /\ words[1].kind = "ended" /\ words[1].call = c
      /\ words[2].kind = "rejected" /\ words[2].call = c
  OBVIOUS
<1>4. again' \subseteq {Last} /\ Last # 0
  BY <1>1, <1>2, FieldsTyped DEF OneCall, LastOnly
<1> HIDE DEF words
<1>5. \A i \in 1 .. Len(words) : words[i].kind \in {"ended", "rejected"} /\ words[i].call = Last
  BY <1>2, <1>3
<1> QED
  BY <1>1, <1>2, <1>3, <1>4, <1>5, EndsOver DEF EndKinds, Final

(* An end announced once more is that of a call that is over.            *)
LEMMA AnnounceAgainKeeps ==
  ASSUME WindowTypes, OneCall, NEW c \in again, W!AnnounceAgain(c)
  PROVE  OneCall'
<1> DEFINE words == <<[kind |-> "ended", call |-> c]>>
<1>1. rec' = rec /\ Kept /\ ServerSays(words) /\ again' = again \ {c} /\ c \in 1 .. Last
  BY AnnounceAgainEffect
<1>2. c = Last /\ rec[Last].state = "ended" /\ again' \subseteq {Last} /\ Last # 0
  BY <1>1, FieldsTyped DEF OneCall, LastOnly, W!Live
<1>3. Len(words) = 1 /\ words[1].kind = "ended" /\ words[1].call = c
  OBVIOUS
<1> HIDE DEF words
<1>4. Over(words)
  BY <1>1, <1>2, <1>3 DEF Over, Final, EndKinds, Last
<1> QED
  BY <1>4, OverKeeps

(* A word sent is the last one on its wire.                              *)
LEMMA OneWordEach ==
  ASSUME WindowTypes, NEW e, Grows(<<e>>)
  PROVE  \A v \in W!Windows : \A i \in 1 .. Len(wire'[v]) :
           \/ i \in 1 .. Len(wire[v]) /\ wire'[v][i] = wire[v][i]
           \/ i = Len(wire[v]) + 1 /\ wire'[v][i] = e
<1> SUFFICES ASSUME NEW v \in W!Windows, NEW i \in 1 .. Len(wire'[v])
             PROVE  \/ i \in 1 .. Len(wire[v]) /\ wire'[v][i] = wire[v][i]
                    \/ i = Len(wire[v]) + 1 /\ wire'[v][i] = e
  OBVIOUS
<1>1. Len(wire[v]) \in Nat /\ Len(<<e>>) = 1 /\ <<e>>[1] = e
  BY FieldsTyped
<1>2. CASE v = "page" /\ page.pc # "open"
  BY <1>2 DEF Grows
<1>3. CASE ~(v = "page" /\ page.pc # "open")
  <2>1. /\ Len(wire'[v]) = Len(wire[v]) + 1
        /\ \A k \in 1 .. Len(wire[v]) : wire'[v][k] = wire[v][k]
        /\ wire'[v][Len(wire[v]) + 1] = e
    BY <1>1, <1>3 DEF Grows
  <2> QED
    BY <1>1, <2>1
<1> QED
  BY <1>2, <1>3

(* No end is under way when the peer answers.                            *)
LEMMA PeerAcceptsKeeps ==
  ASSUME WindowTypes, OneCall, NEW c \in 1 .. Last, W!PeerAccepts(c)
  PROVE  OneCall'
<1> DEFINE e == [kind |-> "accepted", call |-> c]
<1>1. /\ Answers(c) /\ ServerSays(<<e>>) /\ again' = again
      /\ rec[c].state = "pending" /\ rec[c].dir = "out"
  BY PeerAcceptsEffect
<1>2. c = Last /\ W!Live(Last)
  BY <1>1, LiveIsLast
<1>3. e.kind = "accepted" /\ e.call = Last
  BY <1>2
<1> HIDE DEF e
<1>4. /\ Last' = Last /\ Last \in Nat /\ Last # 0 /\ Last \in 1 .. Last
      /\ rec'[Last].state = "answered"
      /\ \A d \in 1 .. Last : rec'[d].dir = rec[d].dir /\ (d # Last => rec'[d].state = rec[d].state)
      /\ store' = store /\ win' = win /\ page' = page /\ left' = left /\ taken' = taken
      /\ rec'[Last].dir = "out" /\ Ring' = Ring /\ Shown' = Shown /\ left \subseteq 1 .. Last
  BY <1>1, <1>2, FieldsTyped DEF Answers, ServerSays, Ring, Shown, WindowTypes
<1>5. \A v \in W!Windows : \A i \in 1 .. Len(wire'[v]) :
        \/ i \in 1 .. Len(wire[v]) /\ wire'[v][i] = wire[v][i]
        \/ i = Len(wire[v]) + 1 /\ wire'[v][i] = e
  BY <1>1, OneWordEach, FieldsTyped DEF ServerSays
<1>6. page.pc # "open" => wire'["page"] = <<>> /\ Len(wire'["page"]) = 0
  BY <1>1 DEF ServerSays, Grows, W!Windows
<1>7. \A v \in W!Windows : \A i \in 1 .. Len(wire'[v]) : wire'[v][i].kind \notin EndKinds
  BY <1>2, <1>3, <1>5, FieldsTyped DEF OneCall, InOrder, EndKinds
<1>8. LastOnly' /\ \A d \in left' : ~W!Live(d)'
  <2>1. \A v \in W!Windows : \A i \in 1 .. Len(wire'[v]) : wire'[v][i].call = Last
    BY <1>3, <1>5, FieldsTyped DEF OneCall, LastOnly
  <2>2. \A d \in 1 .. Last : d < Last \/ d \in left \/ d \in again => d # Last /\ rec[d].state = "ended"
    BY <1>2, <1>4 DEF OneCall, LastOnly, W!Live
  <2>3. \A d \in 1 .. Last : d < Last \/ d \in left \/ d \in again => rec'[d].state = "ended"
    BY <1>4, <2>2
  <2>4. again' = again /\ again \subseteq {Last} /\ page'.call \in {0, Last} /\ page'.bound \in {0, page'.call}
        /\ Ring' \in {0, Last}
    BY <1>1, <1>4 DEF OneCall, LastOnly
  <2>5. \A d \in 1 .. Last - 1 : rec'[d].state = "ended"
    BY <1>4, <2>3
  <2>6. \A d \in again' : rec'[d].state = "ended"
    BY <1>4, <2>3, <2>4
  <2> QED
    BY <1>4, <2>1, <2>3, <2>4, <2>5, <2>6 DEF LastOnly, W!Live
<1>9. InOrder'
  <2>1. \A v \in W!Windows : \A i \in 1 .. Len(wire[v]) : wire[v][i].kind # "offer"
    BY <1>4 DEF OneCall, InOrder
  <2>2. \A v \in W!Windows : \A i \in 1 .. Len(wire'[v]) : wire'[v][i].kind # "offer"
    BY <1>3, <1>5, <2>1
  <2> QED
    BY <1>4, <1>7, <2>2 DEF InOrder, EndKinds
<1>10. ~Offered => ~Offered'
  BY <1>3, <1>5, FieldsTyped DEF Offered
<1>11. Ring = 0 /\ ~Offered
  BY <1>1, <1>2 DEF OneCall, MainShaped, InOrder, Offered, W!Windows
<1>12. PageShaped' /\ MainShaped'
  BY <1>1, <1>2, <1>4, <1>6, <1>10, <1>11, FieldsTyped DEF OneCall, PageShaped, MainShaped, Ring, Shown
<1>13. StartTold' /\ StoreNames'
  BY <1>1, <1>2, <1>4, <1>11, FieldsTyped DEF OneCall, StartTold, StoreNames, W!Live
<1>14. OutShown' /\ Rings'
  BY <1>1, <1>2, <1>4, <1>10, <1>11, FieldsTyped DEF OneCall, OutShown, Rings, W!Live, W!Pending
<1> QED
  BY <1>8, <1>9, <1>12, <1>13, <1>14 DEF OneCall

(* A window that opens for an outgoing call has none yet.                *)
LEMMA CallFromChatKeeps ==
  ASSUME WindowTypes, OneCall, NEW p \in Peers, W!CallFromChat(p)
  PROVE  OneCall'
<1>1. /\ UNCHANGED <<rec, again, wire, win, left, taken>> /\ Last' = Last /\ Ring' = Ring /\ Shown' = Shown
      /\ page.pc = "closed" /\ page = W!NoPage
  BY DEF W!CallFromChat, Last, Ring, Shown, OneCall, PageShaped
<1>2. /\ page.call = 0 /\ page.bound = 0 /\ ~page.joined /\ ~page.timer /\ page.dir = "none"
      /\ page'.call = 0 /\ page'.bound = 0 /\ ~page'.joined /\ ~page'.timer
      /\ page'.dir = "out" /\ page'.pc = "opening"
  BY <1>1 DEF W!CallFromChat, W!NoPage
<1>3. /\ store'.id = store.id /\ store'.caller = store.caller /\ store'.signal = store.signal
      /\ store'.start = store.start
  BY WinTyped DEF W!CallFromChat, StoreRecord
<1>4. ~Shown.accepted
  BY <1>2 DEF OneCall, PageShaped
<1>5. InOrder'
  BY <1>1, <1>2, <1>4, FieldsTyped DEF OneCall, InOrder, W!Live, Accepting
<1>6. LastOnly' /\ \A d \in left' : ~W!Live(d)'
  BY <1>1, <1>2, FieldsTyped DEF OneCall, LastOnly, W!Live
<1>7. PageShaped' /\ MainShaped'
  BY <1>1, <1>2, FieldsTyped DEF OneCall, PageShaped, MainShaped, Offered
<1>8. StartTold' /\ StoreNames'
  BY <1>1, <1>2, <1>3, FieldsTyped DEF OneCall, StartTold, StoreNames, W!Live
<1>9. OutShown' /\ Rings'
  BY <1>1, <1>2, FieldsTyped DEF OneCall, OutShown, Rings, W!Pending, Ending, Offered
<1> QED
  BY <1>7, <1>8, <1>9, <1>5, <1>6 DEF OneCall

(* The ringing call is the last one, which the window takes over.        *)
LEMMA HandleAnswerKeeps ==
  ASSUME WindowTypes, OneCall, W!HandleAnswer
  PROVE  OneCall'
<1>1. /\ UNCHANGED <<rec, again, wire, left>> /\ Last' = Last
      /\ page.pc = "closed" /\ page = W!NoPage /\ Ring \in 1 .. Last
      /\ taken' = taken \cup {Ring}
  BY HandleAnswerTypes DEF W!HandleAnswer, Last, OneCall, PageShaped, Ring
<1>2. /\ page.call = 0 /\ page.bound = 0 /\ ~page.joined /\ ~page.timer /\ page.dir = "none"
      /\ page'.call = Ring /\ page'.bound = 0 /\ ~page'.joined /\ ~page'.timer
      /\ page'.dir = "in" /\ page'.pc = "opening"
  BY <1>1 DEF W!HandleAnswer, W!NoPage, Ring
<1>3. /\ store'.id = Ring /\ store'.caller = rec[Ring].peer /\ store'.signal = Ring
      /\ store'.start = store.start
  BY WinTyped DEF W!HandleAnswer, StoreRecord, Ring
<1>4. /\ win'["page"] = win["page"] /\ win'["main"].ring = 0
      /\ win'["main"].view = win["main"].view /\ win'["main"].listens = win["main"].listens
      /\ win'["main"].accepted = win["main"].accepted /\ win'["main"].told = win["main"].told
  BY WinTyped DEF W!HandleAnswer, WindowRecord
<1>5. Ring = Last /\ rec[Last].dir = "in" /\ ~Offered /\ Last # 0 /\ Ring' = 0 /\ Shown' = Shown
  BY <1>1, <1>4, FieldsTyped DEF OneCall, LastOnly, MainShaped, Ring, Shown
<1>6. rec[Last].peer # Nobody
  BY <1>1, <1>5, RecTyped, WindowsAssumption DEF CallRecord
<1>7. wire["page"] = <<>> /\ Len(wire["page"]) = 0
  BY <1>1, <1>2 DEF OneCall, PageShaped
<1>8. LastOnly' /\ \A d \in left' : ~W!Live(d)'
  BY <1>1, <1>2, <1>5, FieldsTyped DEF OneCall, LastOnly, W!Live
<1>9. InOrder'
  BY <1>1, <1>2, <1>5, <1>7, FieldsTyped DEF OneCall, InOrder, W!Live, Accepting
<1>10. PageShaped' /\ MainShaped'
  BY <1>1, <1>2, <1>4, <1>5, <1>7, FieldsTyped DEF OneCall, PageShaped, MainShaped, Offered, Shown
<1>11. StartTold'
  BY <1>1, <1>2, <1>3, <1>4, <1>5, FieldsTyped DEF OneCall, StartTold, Shown
<1>12. StoreNames'
  BY <1>1, <1>2, <1>3, <1>5, <1>6, FieldsTyped DEF StoreNames
<1>13. OutShown' /\ Rings'
  BY <1>1, <1>2, <1>5, FieldsTyped DEF OutShown, Rings, Offered
<1> QED
  BY <1>8, <1>9, <1>10, <1>11, <1>12, <1>13 DEF OneCall

(* Loading stores the id of the call to be answered once more.           *)
LEMMA LoadedKeeps ==
  ASSUME WindowTypes, OneCall, W!Loaded
  PROVE  OneCall'
<1>1. /\ UNCHANGED <<rec, again, wire, left, taken, win>> /\ Last' = Last /\ Ring' = Ring /\ Shown' = Shown
      /\ page.pc = "opening"
  BY DEF W!Loaded, Last, Ring, Shown
<1>2. /\ page'.call = page.call /\ page'.bound = page.bound /\ page'.joined = page.joined
      /\ page'.timer = page.timer /\ page'.dir = page.dir /\ page'.pc = "open"
  BY WinTyped DEF W!Loaded, PageRecord
<1>3. /\ store'.caller = store.caller /\ store'.signal = store.signal
      /\ store'.start = store.start /\ store'.partner = store.partner
      /\ \/ store'.id = store.id
         \/ page.dir = "in" /\ store.caller # Nobody /\ store.signal # 0 /\ store'.id = page.call
  BY WinTyped DEF W!Loaded, StoreRecord
<1>4. ~page.joined
  BY <1>1 DEF OneCall, PageShaped
<1>5. LastOnly' /\ InOrder' /\ \A d \in left' : ~W!Live(d)'
  BY <1>1, <1>2, FieldsTyped DEF OneCall, LastOnly, InOrder, W!Live, Accepting
<1>6. PageShaped' /\ MainShaped'
  BY <1>1, <1>2, FieldsTyped DEF OneCall, PageShaped, MainShaped, Offered
<1>7. StartTold'
  BY <1>1, <1>2, <1>3, FieldsTyped DEF OneCall, StartTold, W!Live
<1>8. StoreNames'
  BY <1>1, <1>2, <1>3, <1>4, FieldsTyped DEF OneCall, StoreNames, LastOnly, PageShaped, W!Live
<1>9. OutShown' /\ Rings'
  BY <1>1, <1>2, FieldsTyped DEF OneCall, OutShown, Rings, W!Pending, W!Live, Ending, Offered, Accepting
<1> QED
  BY <1>5, <1>6, <1>7, <1>8, <1>9 DEF OneCall

(* How old the start is matters to offers alone, and none is under way.  *)
LEMMA AgeKeeps ==
  ASSUME WindowTypes, OneCall, W!Age
  PROVE  OneCall'
<1>1. /\ UNCHANGED <<rec, again, wire, left, taken, win, page>> /\ Last' = Last /\ Ring' = Ring
      /\ Shown' = Shown /\ store.start = "fresh"
  BY DEF W!Age, Last, Ring, Shown
<1>2. /\ store'.caller = store.caller /\ store'.signal = store.signal
      /\ store'.id = store.id /\ store'.partner = store.partner
  BY WinTyped DEF W!Age, StoreRecord
<1>3. LastOnly' /\ InOrder' /\ \A d \in left' : ~W!Live(d)'
  BY <1>1, FieldsTyped DEF OneCall, LastOnly, InOrder, W!Live, Accepting
<1>4. PageShaped' /\ MainShaped'
  BY <1>1, FieldsTyped DEF OneCall, PageShaped, MainShaped, Offered
<1>5. StartTold' /\ StoreNames'
  BY <1>1, <1>2, FieldsTyped DEF OneCall, StartTold, StoreNames, W!Live
<1>6. OutShown' /\ Rings'
  BY <1>1, FieldsTyped DEF OneCall, OutShown, Rings, W!Pending, W!Live, Ending, Offered, Accepting
<1> QED
  BY <1>3, <1>4, <1>5, <1>6 DEF OneCall

(* The signal is forgotten after the call was joined.                    *)
LEMMA ForgetSignalKeeps ==
  ASSUME WindowTypes, OneCall, W!ForgetSignal
  PROVE  OneCall'
<1>1. /\ UNCHANGED <<rec, again, wire, left, taken, win>> /\ Last' = Last /\ Ring' = Ring
      /\ Shown' = Shown /\ page.timer
  BY DEF W!ForgetSignal, Last, Ring, Shown
<1>2. /\ page'.call = page.call /\ page'.bound = page.bound /\ page'.joined = page.joined
      /\ ~page'.timer /\ page'.dir = page.dir /\ page'.pc = page.pc
  BY WinTyped DEF W!ForgetSignal, PageRecord
<1>3. /\ store'.start = store.start /\ store'.id = store.id /\ store'.partner = store.partner
  BY WinTyped DEF W!ForgetSignal, StoreRecord
<1>4. page.joined /\ page.dir = "in" /\ Ring = 0
  BY <1>1 DEF OneCall, PageShaped
<1>5. LastOnly' /\ InOrder' /\ \A d \in left' : ~W!Live(d)'
  BY <1>1, <1>2, FieldsTyped DEF OneCall, LastOnly, InOrder, W!Live, Accepting
<1>6. PageShaped' /\ MainShaped'
  BY <1>1, <1>2, <1>4, FieldsTyped DEF OneCall, PageShaped, MainShaped, Offered
<1>7. StartTold' /\ StoreNames'
  BY <1>1, <1>2, <1>3, <1>4, FieldsTyped DEF OneCall, StartTold, StoreNames, W!Live
<1>8. OutShown' /\ Rings'
  BY <1>1, <1>2, FieldsTyped DEF OneCall, OutShown, Rings, W!Pending, W!Live, Ending, Offered, Accepting
<1> QED
  BY <1>5, <1>6, <1>7, <1>8 DEF OneCall

(* An outgoing call that crosses nothing finds every call over.          *)
LEMMA JoinOutgoingKeeps ==
  ASSUME WindowTypes, OneCall, W!JoinOutgoing, ~mixed'
  PROVE  OneCall'
<1> DEFINE e == [kind |-> "created", call |-> Last']
<1>1. Starts(page.who, "out") /\ W!Quiet /\ Grows(<<e>>)
  BY JoinOutgoingEffect
<1>2. /\ page.pc = "open" /\ page.dir = "out" /\ ~page.joined /\ page.who \in Peers
      /\ page.who # Nobody /\ again' = again /\ left' = left /\ taken' = taken
  BY WindowsAssumption DEF W!JoinOutgoing, W!CanJoin, WindowTypes
<1>3. /\ Last' = Last + 1 /\ Last \in Nat /\ Last' \in Nat /\ Last' # 0
      /\ \A c \in 1 .. Last : rec'[c].state = "ended"
      /\ rec'[Last'].dir = "out" /\ rec'[Last'].state = "pending"
      /\ again = {} /\ page.call = 0
      /\ Len(wire["main"]) = 0 /\ Len(wire["page"]) = 0
      /\ ~win["main"].told /\ ~win["page"].told
  BY <1>1, RecTyped DEF W!Quiet, W!Live, W!Windows, Starts
<1>4. Ring = 0
  <2>1. Ring \in 0 .. Last /\ Ring \in {0, Last}
    BY FieldsTyped DEF OneCall, LastOnly, Ring
  <2>2. ~Ending("main")
    BY <1>3 DEF Ending
  <2>3. Ring # 0 => rec[Last].state = "pending"
    BY <2>2 DEF OneCall, Rings
  <2>4. Ring # 0 => rec[Last].state = "ended"
    <3>1. \A c \in 1 .. Last : rec[c].state = "ended"
      BY <1>1, RecTyped DEF W!Quiet, W!Live
    <3> QED
      BY <1>3, <2>1, <3>1
  <2> QED
    BY <2>3, <2>4
<1>5. \A v \in W!Windows : \A i \in 1 .. Len(wire'[v]) : i = 1 /\ wire'[v][i] = e
  <2>1. \A v \in W!Windows : \A i \in 1 .. Len(wire'[v]) :
          \/ i \in 1 .. Len(wire[v]) /\ wire'[v][i] = wire[v][i]
          \/ i = Len(wire[v]) + 1 /\ wire'[v][i] = e
    BY <1>1, OneWordEach
  <2>2. \A v \in W!Windows : Len(wire[v]) = 0
    BY <1>3, FieldsTyped
  <2> HIDE DEF e
  <2> QED
    BY <2>1, <2>2
<1>6. e.kind = "created" /\ e.call = Last'
  OBVIOUS
<1> HIDE DEF e
<1>7. /\ page'.call = Last' /\ page'.joined /\ page'.bound = Last' /\ page'.dir = "out"
      /\ page'.pc = "open" /\ page'.timer = page.timer
  BY <1>2, <1>3, WinTyped DEF W!JoinOutgoing, PageRecord, Last
<1>8. /\ store'.id = -Last' /\ store'.partner = page.who /\ store'.start = "fresh"
  BY <1>3, WinTyped DEF W!JoinOutgoing, StoreRecord, Last
<1>9. /\ win'["main"] = win["main"] /\ win'["page"].view = "calling" /\ ~win'["page"].accepted
      /\ win'["page"].link = Last' /\ win'["page"].told = win["page"].told /\ ~win'["page"].ended
  BY <1>3, WinTyped DEF W!JoinOutgoing, W!Blank, Last
<1>10. ~page.timer
  BY <1>2 DEF OneCall, PageShaped
<1>11. LastOnly' /\ \A c \in left' : ~W!Live(c)'
  <2>1. \A c \in left' : c \in 1 .. Last
    BY <1>2 DEF WindowTypes
  <2>2. \A c \in 1 .. Last' - 1 : c \in 1 .. Last
    BY <1>3
  <2>3. \A v \in W!Windows : \A i \in 1 .. Len(wire'[v]) : wire'[v][i].call = Last'
    BY <1>5, <1>6
  <2>4. Ring' = 0
    BY <1>4, <1>9 DEF Ring
  <2> QED
    BY <1>2, <1>3, <1>7, <2>1, <2>2, <2>3, <2>4 DEF LastOnly, W!Live
<1>12. InOrder'
  BY <1>3, <1>5, <1>6 DEF InOrder, EndKinds
<1>13. PageShaped' /\ MainShaped'
  BY <1>2, <1>3, <1>4, <1>7, <1>9, <1>10, FieldsTyped DEF OneCall, PageShaped, MainShaped, Ring, Shown
<1>14. StartTold'
  BY <1>3, <1>7, <1>9 DEF StartTold, Shown
<1>15. StoreNames'
  <2>1. W!Named(store'.id) = Last' /\ store'.partner # Nobody
    BY <1>2, <1>3, <1>8 DEF W!Named
  <2> QED
    BY <1>4, <1>7, <1>9, <2>1 DEF StoreNames, Ring, W!Named
<1>16. OutShown' /\ Rings'
  BY <1>3, <1>4, <1>5, <1>6, <1>9 DEF OutShown, Rings, Shown, Ring, W!Live, W!Pending
<1> QED
  BY <1>11, <1>12, <1>13, <1>14, <1>15, <1>16 DEF OneCall

(* The call answered is the last one, which the storage names.           *)
LEMMA JoinIncomingKeeps ==
  ASSUME WindowTypes, OneCall, W!JoinIncoming
  PROVE  OneCall'
<1>1. /\ page.pc = "open" /\ ~page.joined /\ ~Shown.ended /\ page.dir = "in"
      /\ store.signal # 0 /\ store.caller # Nobody
      /\ UNCHANGED <<again, wire, left, taken>> /\ Last' = Last /\ WindowTypes'
  BY JoinIncomingEffect DEF W!JoinIncoming, W!CanJoin, Shown
<1>2. store.signal = Last /\ store.id = Last /\ store.start = "none"
  BY <1>1 DEF OneCall, StoreNames, StartTold
<1>3. /\ page.call = Last /\ Last # 0 /\ rec[Last].dir = "in" /\ Ring = 0 /\ ~Offered
      /\ Last \in 1 .. Last /\ Last \in Nat
  BY <1>1, FieldsTyped DEF OneCall, PageShaped, LastOnly
<1>4. \A d \in 1 .. Last : /\ rec'[d].dir = rec[d].dir
                          /\ rec'[d].state = IF d = Last /\ rec[d].state = "pending"
                                                THEN "answered" ELSE rec[d].state
  BY <1>2, <1>3, JoinIncomingEffect DEF Answers, W!Pending
<1>5. /\ page'.call = Last /\ page'.joined /\ page'.bound = Last /\ page'.dir = "in" /\ page'.pc = "open"
  <2>1. W!Named(store.id) = Last
    BY <1>2, <1>3 DEF W!Named
  <2> QED
    BY <1>1, <1>3, <2>1, WinTyped DEF W!JoinIncoming, PageRecord
<1>6. /\ store'.id = Last /\ store'.partner # Nobody /\ store'.start = "none"
  BY <1>1, <1>2, WinTyped DEF W!JoinIncoming, StoreRecord
<1>7. /\ win'["main"] = win["main"] /\ win'["page"].link = Last /\ win'["page"].told = win["page"].told
      /\ win'["page"].listens = win["page"].listens
  BY <1>2, WinTyped DEF W!JoinIncoming, WindowRecord
<1>8. /\ rec'[Last].dir = "in" /\ rec'[Last].state # "pending" /\ Ring' = 0
      /\ \A d \in 1 .. Last : d < Last \/ d \in left => rec'[d].state = "ended"
  BY <1>3, <1>4, <1>7 DEF OneCall, LastOnly, W!Live, Ring
<1>9. \A v \in W!Windows : \A i \in 1 .. Len(wire[v]) :
        wire[v][i].kind \in EndKinds => rec'[Last].state = "ended"
  BY <1>3, <1>4 DEF OneCall, InOrder, W!Live
<1>10. LastOnly' /\ \A c \in left' : ~W!Live(c)'
  <2>1. \A c \in left' : c \in 1 .. Last
    BY <1>1 DEF WindowTypes
  <2>2. again' \subseteq {Last} /\ \A c \in again' : rec'[c].state = "ended"
    BY <1>1, <1>3, <1>4 DEF OneCall, LastOnly, W!Live
  <2> QED
    BY <1>1, <1>3, <1>5, <1>8, <2>1, <2>2 DEF OneCall, LastOnly, W!Live
<1>11. InOrder'
  BY <1>1, <1>3, <1>4, <1>5, <1>8, <1>9 DEF OneCall, InOrder, Accepting, W!Live
<1>12. PageShaped' /\ MainShaped'
  BY <1>1, <1>3, <1>5, <1>7, <1>8, FieldsTyped DEF OneCall, PageShaped, MainShaped, Ring, Shown, Offered
<1>13. StartTold' /\ StoreNames'
  <2>1. W!Named(store'.id) = Last
    BY <1>3, <1>6 DEF W!Named
  <2>2. \A v \in W!Windows : win'[v].told = win[v].told
    BY <1>7, FieldsTyped
  <2> QED
    BY <1>1, <1>3, <1>5, <1>6, <1>8, <2>1, <2>2, FieldsTyped DEF OneCall, StartTold, StoreNames, Shown
<1>14. OutShown' /\ Rings'
  BY <1>1, <1>3, <1>5, <1>8 DEF OutShown, Rings, W!Pending, Offered
<1> QED
  BY <1>10, <1>11, <1>12, <1>13, <1>14 DEF OneCall

(* What the server makes of such a request, while no call crosses another. *)
Asked ==
  /\ Last' = Last
  /\ \A d \in 1 .. Last : /\ rec'[d].dir = rec[d].dir
                          /\ rec'[d].state = rec[d].state \/ (d = Last /\ rec'[d].state = "ended")
  /\ again' \subseteq {Last} /\ \A c \in again' : rec'[c].state = "ended"
  /\ \A v \in W!Windows : \A i \in 1 .. Len(wire'[v]) :
       \/ i \in 1 .. Len(wire[v]) /\ wire'[v][i] = wire[v][i]
       \/ /\ i = Len(wire[v]) + 1 /\ wire'[v][i].kind = "ended" /\ wire'[v][i].call = Last
          /\ Last # 0 /\ rec'[Last].state = "ended"
  /\ page.pc # "open" => wire'["page"] = <<>> /\ Len(wire'["page"]) = 0
  /\ \A i \in 1 .. Len(wire["main"]) : i \in 1 .. Len(wire'["main"]) /\ wire'["main"][i] = wire["main"][i]

(* A step that sends nothing leaves what is under way.                   *)
LEMMA NothingSent ==
  ASSUME WindowTypes, OneCall, Grows(<<>>) \/ wire' = wire
  PROVE  /\ \A v \in W!Windows : \A i \in 1 .. Len(wire'[v]) :
              i \in 1 .. Len(wire[v]) /\ wire'[v][i] = wire[v][i]
         /\ page.pc # "open" => wire'["page"] = <<>> /\ Len(wire'["page"]) = 0
         /\ \A i \in 1 .. Len(wire["main"]) :
              i \in 1 .. Len(wire'["main"]) /\ wire'["main"][i] = wire["main"][i]
<1>1. CASE wire' = wire
  BY <1>1 DEF OneCall, PageShaped
<1>2. CASE Grows(<<>>)
  <2>1. \A v \in W!Windows :
          \/ v = "page" /\ page.pc # "open" /\ wire'[v] = <<>>
          \/ /\ v = "page" => page.pc = "open"
             /\ Len(wire'[v]) = Len(wire[v]) /\ \A i \in 1 .. Len(wire[v]) : wire'[v][i] = wire[v][i]
    <3>1. Len(<<>>) = 0 /\ \A v \in W!Windows : Len(wire[v]) \in Nat
      BY FieldsTyped
    <3> QED
      BY <1>2, <3>1 DEF Grows
  <2>2. "main" \in W!Windows /\ "page" \in W!Windows
    BY DEF W!Windows
  <2> QED
    BY <2>1, <2>2
<1> QED
  BY <1>1, <1>2

(* A request ends the last call or none.                                 *)
LEMMA AskedFacts ==
  ASSUME WindowTypes, OneCall, NEW op, NEW asks, ServerAsked(op, asks),
         \/ W!Told(op, store.id) = <<>> /\ (W!Ends(store.id) => op = "cancel" /\ rec[W!Named(store.id)].dir = "out")
         \/ W!Ends(store.id) /\ W!Told(op, store.id) = <<[kind |-> "ended", call |-> W!Named(store.id)]>>
  PROVE  /\ Asked
         /\ asks /\ W!Named(store.id) = Last /\ Last # 0 => rec'[Last].state = "ended"
         /\ Last # 0 /\ W!Live(Last) /\ rec'[Last].state = "ended" /\ rec[Last].dir = "in" => Ending("main")'
<1>1. \A d \in 1 .. Last : rec[d] \in CallRecord
  BY RecTyped
<1>2. CASE ~asks \/ ~W!Ends(store.id)
  <2>1. rec' = rec /\ again' = again /\ Last' = Last
    BY <1>2 DEF ServerAsked, Requested, Last
  <2>2. Grows(<<>>) \/ wire' = wire
    BY <1>2 DEF ServerAsked
  <2>3. asks /\ W!Named(store.id) = Last /\ Last # 0 => rec'[Last].state = "ended"
    BY <1>2, <2>1, RecTyped DEF W!Ends, W!Live
  <2> QED
    BY <2>1, <2>2, <2>3, NothingSent, FieldsTyped DEF Asked, OneCall, LastOnly, W!Live
<1>3. CASE asks /\ W!Ends(store.id)
  <2>1. W!Named(store.id) \in 1 .. Last /\ W!Live(W!Named(store.id)) /\ EndsOne(W!Named(store.id))
    BY <1>3 DEF ServerAsked, Requested
  <2>2. W!Named(store.id) = Last /\ Last # 0 /\ Last \in 1 .. Last /\ W!Live(Last)
    BY <2>1, LiveIsLast, FieldsTyped
  <2>3. /\ Last' = Last /\ rec'[Last].state = "ended"
        /\ \A d \in 1 .. Last : rec'[d].dir = rec[d].dir /\ (d # Last => rec'[d].state = rec[d].state)
    BY <2>1, <2>2 DEF EndsOne
  <2>4. again' \subseteq {Last} /\ \A c \in again' : rec'[c].state = "ended"
    <3>1. again' \in {again, again \cup {Last}}
      BY <1>3, <2>2 DEF ServerAsked, Requested
    <3> QED
      BY <2>3, <3>1 DEF OneCall, LastOnly
  <2>5. CASE W!Told(op, store.id) = <<>> /\ rec[Last].dir = "out"
    <3>1. Grows(<<>>)
      BY <1>3, <2>5 DEF ServerAsked
    <3> QED
      BY <2>2, <2>3, <2>4, <2>5, <3>1, NothingSent DEF Asked
  <2>6. CASE W!Told(op, store.id) = <<[kind |-> "ended", call |-> Last]>>
    <3> DEFINE e == [kind |-> "ended", call |-> Last]
    <3>1. Grows(<<e>>)
      BY <1>3, <2>6 DEF ServerAsked
    <3>2. e.kind = "ended" /\ e.call = Last /\ Len(<<e>>) = 1
      OBVIOUS
    <3> HIDE DEF e
    <3>3. \A v \in W!Windows : \A i \in 1 .. Len(wire'[v]) :
            \/ i \in 1 .. Len(wire[v]) /\ wire'[v][i] = wire[v][i]
            \/ i = Len(wire[v]) + 1 /\ wire'[v][i] = e
      BY <3>1, OneWordEach
    <3>4. page.pc # "open" => wire'["page"] = <<>> /\ Len(wire'["page"]) = 0
      BY <3>1 DEF Grows, W!Windows
    <3>5. /\ Len(wire'["main"]) = Len(wire["main"]) + 1 /\ Len(wire["main"]) \in Nat
          /\ \A i \in 1 .. Len(wire["main"]) : wire'["main"][i] = wire["main"][i]
      BY <3>1, <3>2, FieldsTyped DEF Grows, W!Windows
    <3>6. \A i \in 1 .. Len(wire["main"]) : i \in 1 .. Len(wire'["main"]) /\ wire'["main"][i] = wire["main"][i]
      BY <3>5
    <3>7. Ending("main")'
      <4>0. Len(<<e>>) = 1 /\ <<e>>[1] = e
        OBVIOUS
      <4>1. wire'["main"][Len(wire["main"]) + 1] = e
        <5>1. \A i \in 1 .. Len(<<e>>) : wire'["main"][Len(wire["main"]) + i] = <<e>>[i]
          BY <3>1 DEF Grows, W!Windows
        <5> QED
          BY <4>0, <5>1
      <4>2. Len(wire["main"]) + 1 \in 1 .. Len(wire'["main"])
        BY <3>5
      <4> QED
        BY <3>2, <4>1, <4>2 DEF Ending, EndKinds
    <3> QED
      BY <2>2, <2>3, <2>4, <3>2, <3>3, <3>4, <3>6, <3>7 DEF Asked
  <2> QED
    BY <1>3, <2>2, <2>5, <2>6
<1> QED
  BY <1>2, <1>3

(* The words stay in order when an end is added to them.                   *)
LEMMA AskedOrder ==
  ASSUME WindowTypes, OneCall, Asked, page'.call = page.call,
         page'.dir = "out" /\ Shown'.accepted => page.dir = "out" /\ Shown.accepted
  PROVE  InOrder' /\ (~Offered => ~Offered') /\ (~Accepting => ~Accepting')
<1>1. /\ Last' = Last /\ Last \in Nat
      /\ \A d \in 1 .. Last : /\ rec'[d].dir = rec[d].dir
                              /\ rec'[d].state = rec[d].state \/ (d = Last /\ rec'[d].state = "ended")
      /\ \A v \in W!Windows : \A i \in 1 .. Len(wire'[v]) :
            \/ i \in 1 .. Len(wire[v]) /\ wire'[v][i] = wire[v][i]
            \/ i = Len(wire[v]) + 1 /\ wire'[v][i].kind = "ended" /\ Last # 0 /\ rec'[Last].state = "ended"
  BY FieldsTyped DEF Asked
<1>2. ~Offered => ~Offered'
  BY <1>1, FieldsTyped DEF Offered
<1>3. ~Accepting => ~Accepting'
  <2> SUFFICES ASSUME NEW i \in 1 .. Len(wire'["page"]), wire'["page"][i].kind = "accepted"
               PROVE  Accepting
    BY DEF Accepting
  <2>1. i \in 1 .. Len(wire["page"]) /\ wire'["page"][i] = wire["page"][i]
    BY <1>1 DEF W!Windows
  <2> QED
    BY <2>1 DEF Accepting
<1>4. \A v \in W!Windows : \A i \in 1 .. Len(wire[v]) :
         LET e == wire[v][i] IN
         /\ e.kind = "offer" => rec[Last].dir = "in" /\ i = 1 /\ (v = "page" => page.call = 0)
         /\ e.kind \in {"created", "accepted", "rejected"} => rec[Last].dir = "out"
         /\ e.kind \in EndKinds => ~W!Live(Last) /\ \A j \in i .. Len(wire[v]) : wire[v][j].kind # "accepted"
         /\ e.kind = "timeout" => ~Accepting /\ (page.dir = "out" => ~Shown.accepted)
         /\ e.kind = "accepted" => rec[Last].state # "pending"
  BY DEF OneCall, InOrder
<1>5. ASSUME NEW v \in W!Windows, NEW i \in 1 .. Len(wire'[v])
      PROVE  LET e == wire'[v][i] IN
             /\ e.kind = "offer" => rec'[Last].dir = "in" /\ i = 1 /\ (v = "page" => page'.call = 0)
             /\ e.kind \in {"created", "accepted", "rejected"} => rec'[Last].dir = "out"
             /\ e.kind \in EndKinds => rec'[Last].state = "ended" /\ \A j \in i .. Len(wire'[v]) : wire'[v][j].kind # "accepted"
             /\ e.kind = "timeout" => ~Accepting /\ (page'.dir = "out" => ~Shown'.accepted)
             /\ e.kind = "accepted" => rec'[Last].state # "pending"
  <2>1. Len(wire[v]) \in Nat /\ Len(wire'[v]) \in Nat
    BY <1>1, FieldsTyped
  <2>2. CASE i \in 1 .. Len(wire[v]) /\ wire'[v][i] = wire[v][i]
    <3>1. Last \in 1 .. Last
      BY <1>1, <2>2, FieldsTyped
    <3>2. ASSUME wire[v][i].kind \in EndKinds, NEW j \in i .. Len(wire'[v])
          PROVE  wire'[v][j].kind # "accepted"
      BY <1>1, <1>4, <2>1, <2>2, <3>2
    <3>3. /\ rec'[Last].dir = rec[Last].dir
          /\ rec'[Last].state = rec[Last].state \/ rec'[Last].state = "ended"
      BY <3>1 DEF Asked
    <3>4. PICK e : e = wire[v][i]
      OBVIOUS
    <3>5. /\ e.kind = "offer" => rec[Last].dir = "in" /\ i = 1 /\ (v = "page" => page.call = 0)
          /\ e.kind \in {"created", "accepted", "rejected"} => rec[Last].dir = "out"
          /\ e.kind \in EndKinds => rec[Last].state = "ended"
          /\ e.kind = "timeout" => ~Accepting /\ (page.dir = "out" => ~Shown.accepted)
          /\ e.kind = "accepted" => rec[Last].state # "pending"
      BY <1>4, <2>2, <3>4 DEF W!Live
    <3>6. e.kind = "timeout" => ~Accepting /\ (page'.dir = "out" => ~Shown'.accepted)
      BY <3>5
    <3>7. wire'[v][i] = e
      BY <2>2, <3>4
    <3> QED
      BY <3>2, <3>3, <3>4, <3>5, <3>6, <3>7
  <2>3. CASE i = Len(wire[v]) + 1 /\ wire'[v][i].kind = "ended" /\ Last # 0 /\ rec'[Last].state = "ended"
    BY <1>1, <2>1, <2>3
  <2> QED
    BY <1>1, <2>2, <2>3
<1> QED
  BY <1>1, <1>2, <1>3, <1>5 DEF InOrder, W!Live

(* What is no longer going on stays so.                                    *)
LEMMA AskedLast ==
  ASSUME WindowTypes, OneCall, Asked, page'.call = page.call, page'.bound \in {page.bound, 0},
         Ring' \in {Ring, 0}, left' \subseteq 1 .. Last,
         \A d \in left' \ left : rec'[d].state = "ended"
  PROVE  LastOnly' /\ \A d \in left' : ~W!Live(d)'
<1>1. /\ Last' = Last /\ Last \in Nat
      /\ \A d \in 1 .. Last : rec'[d].state = rec[d].state \/ rec'[d].state = "ended"
      /\ again' \subseteq {Last} /\ \A c \in again' : rec'[c].state = "ended"
  BY FieldsTyped DEF Asked
<1>2. \A d \in 1 .. Last : d < Last \/ d \in left \/ d \in left' => rec'[d].state = "ended"
  BY <1>1 DEF OneCall, LastOnly, W!Live
<1>3. \A v \in W!Windows : \A i \in 1 .. Len(wire'[v]) : wire'[v][i].call = Last
  <2>1. \A v \in W!Windows : \A i \in 1 .. Len(wire[v]) : wire[v][i].call = Last
    BY DEF OneCall, LastOnly
  <2>2. \A v \in W!Windows : \A i \in 1 .. Len(wire'[v]) :
          (i \in 1 .. Len(wire[v]) /\ wire'[v][i] = wire[v][i]) \/ wire'[v][i].call = Last
    BY DEF Asked
  <2> QED
    BY <2>1, <2>2
<1>4. page'.call \in {0, Last} /\ page'.bound \in {0, page'.call} /\ Ring' \in {0, Last}
  BY DEF OneCall, LastOnly
<1> QED
  BY <1>1, <1>2, <1>3, <1>4 DEF LastOnly, W!Live

(* The storage names the call that rings, and the server ends that one.  *)
LEMMA RejectKeeps ==
  ASSUME WindowTypes, OneCall, W!Reject
  PROVE  OneCall'
<1>1. /\ WindowTypes' /\ Ring \in 1 .. Last
      /\ ServerAsked("reject", store.caller # Nobody) /\ CleansUp("main")
      /\ left' = left \cup {Ring} /\ taken' = taken \cup {Ring} /\ page' = page
  BY RejectEffect DEF W!Reject
<1>2. Ring = Last /\ Last # 0 /\ rec[Last].dir = "in" /\ page.dir # "in" /\ Last \in 1 .. Last /\ Last \in Nat
  BY <1>1, FieldsTyped DEF OneCall, LastOnly, MainShaped, PageShaped
<1>3. store.id \in Int
  BY WinTyped DEF StoreRecord
<1>4. /\ Asked
      /\ store.caller # Nobody /\ W!Named(store.id) = Last => rec'[Last].state = "ended"
  <2>1. CASE store.caller # Nobody
    <3>1. W!Request("reject", store.id)
      BY <2>1 DEF W!Reject, W!RejectCall
    <3> QED
      BY <1>1, <1>2, <1>3, <2>1, <3>1, Requesting, AskedFacts
  <2>2. CASE ~(store.caller # Nobody)
    <3>1. rec' = rec /\ again' = again /\ wire' = wire /\ Last' = Last
      BY <1>1, <2>2 DEF ServerAsked, Last
    <3> QED
      BY <2>2, <3>1, NothingSent, FieldsTyped DEF Asked, OneCall, LastOnly, W!Live
  <2> QED
    BY <2>1, <2>2
<1>5. rec'[Last].state = "ended"
  <2>1. CASE store.id = Last /\ store.caller # Nobody
    BY <1>2, <1>4, <2>1 DEF W!Named
  <2>2. CASE ~W!Live(Last)
    BY <1>2, <1>4, <2>2 DEF Asked, W!Live
  <2> QED
    BY <1>2, <2>1, <2>2 DEF OneCall, StoreNames
<1>6. /\ Ring' = 0 /\ SameBut(win'["page"], win["page"]) /\ Same("page")
      /\ win'["main"].view = "idle" /\ ~win'["main"].accepted /\ win'["main"].listens = win["main"].listens
      /\ win'["main"].told = win["main"].told /\ (win'["page"].told <=> (win["page"].told \/ Tells))
  BY <1>1 DEF CleansUp, Forgets, Same, SameBut, Ring, W!Windows
<1>7. Shown'.accepted = Shown.accepted /\ Shown'.view = Shown.view /\ Shown'.listens = Shown.listens
      /\ Shown'.link = Shown.link /\ Shown'.ended = Shown.ended
  BY <1>6 DEF SameBut, Shown
<1>8. LastOnly' /\ \A d \in left' : ~W!Live(d)'
  <2>1. left' \subseteq 1 .. Last /\ \A d \in left' \ left : rec'[d].state = "ended"
    BY <1>1, <1>2, <1>5 DEF WindowTypes
  <2> QED
    BY <1>1, <1>4, <1>6, <2>1, AskedLast
<1>9. InOrder' /\ (~Offered => ~Offered') /\ (~Accepting => ~Accepting')
  BY <1>1, <1>4, <1>7, AskedOrder
<1>10. Last' = Last /\ rec'[Last].dir = "in" /\ (page.pc # "open" => wire'["page"] = <<>>)
  BY <1>2, <1>4 DEF Asked
<1>11. PageShaped' /\ MainShaped'
  BY <1>1, <1>2, <1>6, <1>7, <1>10, FieldsTyped DEF OneCall, PageShaped, MainShaped
<1>12. ~Tells
  BY <1>2 DEF OneCall, StartTold, Tells, PageShaped
<1>13. store' = W!NoStore /\ store'.start = "none"
  BY <1>1 DEF CleansUp, W!NoStore
<1>14. StartTold'
  <2>1. \A v \in W!Windows : ~win'[v].told
    BY <1>2, <1>6, <1>12, FieldsTyped DEF OneCall, StartTold
  <2> QED
    BY <1>13, <2>1, FieldsTyped DEF StartTold, Shown
<1>15. StoreNames'
  BY <1>1, <1>2, <1>5, <1>6, <1>10 DEF StoreNames, W!Live
<1>16. OutShown' /\ Rings'
  BY <1>1, <1>2, <1>5, <1>6, <1>9, <1>10 DEF OneCall, MainShaped, OutShown, Rings, W!Live, W!Pending
<1> QED
  BY <1>8, <1>9, <1>11, <1>14, <1>15, <1>16 DEF OneCall

(* The storage names the call of the window that is left.                *)
LEMMA HangupKeeps ==
  ASSUME WindowTypes, OneCall, W!Hangup
  PROVE  OneCall'
<1> DEFINE asks == IF W!TurnsDown THEN store.caller # Nobody ELSE W!CanLeave
           op == IF W!TurnsDown THEN "reject" ELSE W!LeaveOp
<1>1. /\ WindowTypes' /\ ServerAsked(op, asks) /\ CleansUp("page")
      /\ left' = left \cup ({page.call} \cap 1 .. Last)
      /\ page'.pc = page.pc /\ page'.dir = page.dir /\ page'.call = page.call
      /\ page'.joined = page.joined /\ page'.timer = page.timer /\ page'.bound \in {page.bound, 0}
      /\ page.pc = "open" /\ ~Shown.ended /\ taken' = taken
  <2>1. page.pc = "open" /\ ~Shown.ended /\ taken' = taken
    BY DEF W!Hangup, Shown
  <2>2. ServerAsked(op, asks)
    BY HangupEffect
  <2> QED
    BY <2>1, <2>2, HangupEffect
<1>2. store.id \in Int
  BY WinTyped DEF StoreRecord
<1>3. asks => W!Request(op, store.id)
  BY DEF W!Hangup, W!RejectCall, W!Leave
<1>4. /\ Asked
      /\ asks /\ W!Named(store.id) = Last /\ Last # 0 => rec'[Last].state = "ended"
      /\ Last # 0 /\ W!Live(Last) /\ rec'[Last].state = "ended" /\ rec[Last].dir = "in" => Ending("main")'
  <2>1. CASE asks
    <3>1. W!Request(op, store.id)
      BY <1>3, <2>1
    <3> QED
      BY <1>1, <1>2, <3>1, Requesting, AskedFacts
  <2>2. CASE ~asks
    <3>1. rec' = rec /\ again' = again /\ wire' = wire /\ Last' = Last
      BY <1>1, <2>2 DEF ServerAsked, Last
    <3> QED
      BY <2>2, <3>1, NothingSent, FieldsTyped DEF Asked, OneCall, LastOnly, W!Live
  <2> QED
    BY <2>1, <2>2
<1> HIDE DEF asks, op
<1>5. Last' = Last /\ Last \in Nat /\ (Last # 0 => Last \in 1 .. Last)
  BY <1>4, FieldsTyped DEF Asked
<1>6. Last # 0 => rec'[Last].dir = rec[Last].dir
                  /\ (rec'[Last].state = rec[Last].state \/ rec'[Last].state = "ended")
  BY <1>4, <1>5 DEF Asked
<1>7. page.call # 0 => Last # 0 /\ page.call = Last
  BY <1>5, FieldsTyped DEF OneCall, LastOnly
<1>8. page.call # 0 => rec'[Last].state = "ended"
  <2> SUFFICES ASSUME page.call # 0 PROVE rec'[Last].state = "ended"
    OBVIOUS
  <2>1. CASE ~W!Live(Last)
    BY <1>6, <1>7, <2>1 DEF W!Live
  <2>2. CASE page.dir = "in" /\ ~page.joined /\ W!Live(Last)
    <3>1. store.id = Last /\ store.caller # Nobody
      BY <1>1, <2>2 DEF OneCall, StoreNames
    <3>2. asks
      BY <2>2, <3>1 DEF asks, W!TurnsDown
    <3> QED
      BY <1>4, <1>5, <1>7, <3>1, <3>2 DEF W!Named
  <2>3. CASE page.joined /\ W!Live(Last)
    <3>1. W!Named(store.id) = Last /\ store.partner # Nobody
      BY <1>1, <2>3 DEF OneCall, StoreNames
    <3>2. store.id # 0
      BY <1>5, <1>7, <3>1 DEF W!Named
    <3>3. asks
      BY <2>3, <3>1, <3>2 DEF asks, W!TurnsDown, W!CanLeave
    <3> QED
      BY <1>4, <1>7, <3>1, <3>3
  <2>4. page.dir = "in" \/ page.joined
    BY DEF OneCall, PageShaped
  <2> QED
    BY <2>1, <2>2, <2>3, <2>4, FieldsTyped
<1>9. /\ Ring' = Ring /\ SameBut(win'["main"], win["main"]) /\ Same("main")
      /\ Shown'.view = "idle" /\ ~Shown'.accepted /\ Shown'.listens = Shown.listens /\ Shown'.link = 0
      /\ Shown'.ended /\ Shown'.told = Shown.told /\ (win'["main"].told <=> (win["main"].told \/ Tells))
  BY <1>1 DEF CleansUp, Forgets, Same, SameBut, Ring, Shown, W!Windows
<1>10. LastOnly' /\ \A d \in left' : ~W!Live(d)'
  <2>1. left' \subseteq 1 .. Last /\ \A d \in left' \ left : rec'[d].state = "ended"
    BY <1>1, <1>7, <1>8 DEF WindowTypes
  <2> QED
    BY <1>1, <1>4, <1>9, <2>1, AskedLast
<1>11. InOrder' /\ (~Offered => ~Offered') /\ (~Accepting => ~Accepting')
  BY <1>1, <1>4, <1>9, AskedOrder
<1>12. MainShaped'
  BY <1>1, <1>5, <1>6, <1>9, <1>11, FieldsTyped DEF OneCall, MainShaped, LastOnly, SameBut
<1>13. PageShaped'
  BY <1>1, <1>5, <1>6, <1>7, <1>9, <1>11, FieldsTyped DEF OneCall, PageShaped
<1>14. store' = W!NoStore /\ store'.start = "none" /\ store'.id = 0
  BY <1>1 DEF CleansUp, W!NoStore
<1>15. StartTold'
  <2>1. Tells => Last # 0 /\ rec[Last].dir = "out"
    BY <1>5, <1>7, FieldsTyped DEF OneCall, StartTold, Tells, PageShaped
  <2>2. Last # 0 /\ rec[Last].dir = "in" => \A v \in W!Windows : ~win'[v].told
    BY <1>9, <2>1, FieldsTyped DEF OneCall, StartTold, Shown
  <2>3. Shown'.told => Last' # 0 /\ ~W!Live(Last)'
    <3>1. Shown.told => ~W!Live(Last) /\ Last # 0
      BY DEF OneCall, StartTold
    <3> QED
      BY <1>5, <1>6, <1>9, <3>1 DEF W!Live
  <2> QED
    BY <1>5, <1>6, <1>9, <1>14, <2>2, <2>3 DEF StartTold
<1>16. Ring # 0 => Last # 0 /\ Ring = Last /\ rec[Last].dir = "in" /\ page.dir # "in"
  BY <1>5, FieldsTyped DEF OneCall, LastOnly, MainShaped, PageShaped, Ring
<1>17. Ring # 0 => rec'[Last].state = "ended"
  <2> SUFFICES ASSUME Ring # 0, W!Live(Last) PROVE rec'[Last].state = "ended"
    BY <1>6, <1>16 DEF W!Live
  <2>1. store.id = Last /\ store.caller # Nobody
    BY DEF OneCall, StoreNames
  <2>2. asks
    BY <1>16, <2>1 DEF asks, W!TurnsDown, W!CanLeave
  <2> QED
    BY <1>4, <1>5, <1>16, <2>1, <2>2 DEF W!Named
<1>18. StoreNames'
  <2>1. Ring' # 0 => store'.id = 0 /\ rec'[Last].state = "ended"
    BY <1>9, <1>14, <1>17
  <2>2. store'.signal = 0
    BY <1>14 DEF W!NoStore
  <2> QED
    BY <1>5, <1>9, <2>1, <2>2 DEF StoreNames, W!Live
<1>19. OutShown'
  <2>1. page.dir = "out" /\ page.joined => page.call # 0
    BY DEF OneCall, PageShaped
  <2>2. page.dir = "out" /\ page.joined => Last \in left'
    BY <1>1, <1>5, <1>7, <2>1
  <2> QED
    BY <1>1, <1>5, <1>7, <1>8, <1>9, <2>1, <2>2 DEF OutShown, W!Live
<1>20. Rings'
  <2>1. Ending("main") => Ending("main")'
    BY <1>4 DEF Asked, Ending
  <2>2. Ring # 0 => Ending("main")'
    <3>1. CASE Ring # 0 /\ W!Live(Last)
      BY <1>4, <1>16, <1>17, <3>1
    <3>2. CASE Ring # 0 /\ ~W!Live(Last)
      BY <2>1, <3>2 DEF OneCall, Rings, W!Live
    <3> QED
      BY <3>1, <3>2
  <2>3. Last # 0 /\ rec'[Last].state = "pending" => rec[Last].state = "pending"
    BY <1>6
  <2>4. Offered => Offered'
    BY <1>4 DEF Asked, Offered
  <2>5. Offered' => rec'[Last].state = "pending" \/ Ending("main")'
    <3> SUFFICES ASSUME Offered PROVE rec'[Last].state = "pending" \/ Ending("main")'
      BY <1>11
    <3>1. Last # 0 /\ rec[Last].dir = "in"
      BY FieldsTyped DEF OneCall, InOrder, Offered
    <3>2. CASE Ending("main")
      BY <2>1, <3>2
    <3>3. CASE rec[Last].state = "pending"
      BY <1>4, <1>6, <3>1, <3>3 DEF W!Live
    <3> QED
      BY <3>2, <3>3 DEF OneCall, Rings
  <2> QED
    BY <1>1, <1>5, <1>6, <1>9, <2>2, <2>3, <2>4, <2>5 DEF OneCall, Rings, W!Pending
<1> QED
  BY <1>10, <1>11, <1>12, <1>13, <1>15, <1>18, <1>19, <1>20 DEF OneCall

(* What is on its way to a window whose first word is heard.               *)
HeardOne(w) ==
  /\ Hears(w) /\ UNCHANGED <<rec, again, left, taken, page>> /\ Last' = Last
  /\ wire[w][1].call = Last /\ Last # 0 /\ Last \in 1 .. Last /\ Last \in Nat
  /\ 1 \in 1 .. Len(wire[w]) /\ WindowTypes'

(* The other words stay.                                                 *)
LEMMA HeardFacts ==
  ASSUME WindowTypes, OneCall, NEW w \in W!Windows, HeardQuietly(w)
  PROVE  /\ HeardOne(w)
         /\ \A v \in W!Windows : \A i \in 1 .. Len(wire'[v]) :
              \E k \in i .. Len(wire[v]) : wire'[v][i] = wire[v][k] /\ k = IF v = w THEN i + 1 ELSE i
         /\ \A v \in W!Windows : \A i \in 1 .. Len(wire[v]) : v # w \/ i # 1 =>
              \E k \in 1 .. Len(wire'[v]) : wire'[v][k] = wire[v][i]
         /\ page.pc # "open" => wire'["page"] = <<>>
<1>1. Hears(w) /\ rec' = rec /\ UNCHANGED <<again, left, taken, page>> /\ wire[w][1] \in Word /\ WindowTypes'
  BY DEF HeardQuietly
<1>2. \A v \in W!Windows : Len(wire[v]) \in Nat
  BY FieldsTyped
<1>3. 1 \in 1 .. Len(wire[w])
  BY <1>1, <1>2 DEF Hears
<1>4. wire[w][1].call = Last /\ wire[w][1].call \in 1 .. Last
  BY <1>3, FieldsTyped DEF OneCall, LastOnly
<1>5. HeardOne(w)
  BY <1>1, <1>3, <1>4, FieldsTyped DEF HeardOne, Last
<1>6. ASSUME NEW v \in W!Windows, NEW i \in 1 .. Len(wire'[v])
      PROVE  \E k \in i .. Len(wire[v]) : wire'[v][i] = wire[v][k] /\ k = IF v = w THEN i + 1 ELSE i
  <2>1. CASE v = w
    <3>1. i + 1 \in i .. Len(wire[v]) /\ wire'[v][i] = wire[v][i + 1]
      BY <1>1, <1>2, <2>1 DEF Hears
    <3> QED
      BY <2>1, <3>1
  <2>2. CASE v # w
    BY <1>1, <1>2, <2>2 DEF Hears
  <2> QED
    BY <2>1, <2>2
<1>7. ASSUME NEW v \in W!Windows, NEW i \in 1 .. Len(wire[v]), v # w \/ i # 1
      PROVE  \E k \in 1 .. Len(wire'[v]) : wire'[v][k] = wire[v][i]
  <2>1. CASE v = w
    <3>1. i - 1 \in 1 .. Len(wire'[v]) /\ wire'[v][i - 1] = wire[v][(i - 1) + 1] /\ (i - 1) + 1 = i
      BY <1>1, <1>2, <1>7, <2>1 DEF Hears
    <3> QED
      BY <3>1
  <2>2. CASE v # w
    BY <1>1, <2>2 DEF Hears
  <2> QED
    BY <2>1, <2>2
<1>8. page.pc # "open" => wire'["page"] = <<>>
  <2>1. page.pc # "open" => Len(wire["page"]) = 0 /\ wire["page"] = <<>>
    BY DEF OneCall, PageShaped
  <2> QED
    BY <1>1, <2>1 DEF Hears, W!Windows
<1> QED
  BY <1>5, <1>6, <1>7, <1>8

(* The words that are left stay in order, and an end stays under way unless *)
(* it is the one heard.                                                     *)
LEMMA HeardOrder ==
  ASSUME WindowTypes, OneCall, NEW w \in W!Windows, HeardQuietly(w),
         Shown'.accepted => Shown.accepted \/ Accepting
  PROVE  /\ InOrder' /\ (~Offered => ~Offered') /\ (w = "main" => ~Offered') /\ (~Accepting => ~Accepting')
         /\ \A v \in W!Windows : v # w \/ wire[w][1].kind \notin EndKinds => (Ending(v) => Ending(v)')
         /\ w = "page" => (Offered => Offered')
         /\ w = "page" /\ wire[w][1].kind \in EndKinds => ~Accepting'
<1>1. HeardOne(w)
  BY HeardFacts
<1>2. /\ \A v \in W!Windows : \A i \in 1 .. Len(wire'[v]) :
           \E k \in i .. Len(wire[v]) : wire'[v][i] = wire[v][k] /\ k = IF v = w THEN i + 1 ELSE i
      /\ \A v \in W!Windows : \A i \in 1 .. Len(wire[v]) : v # w \/ i # 1 =>
              \E k \in 1 .. Len(wire'[v]) : wire'[v][k] = wire[v][i]
  BY HeardFacts
<1>3. \A v \in W!Windows : Len(wire[v]) \in Nat /\ Len(wire'[v]) \in Nat
  <2>1. \A v \in W!Windows : wire[v] \in Seq(Word) /\ wire'[v] \in Seq(Word')
    BY <1>1 DEF HeardOne, WindowTypes
  <2> QED
    BY <2>1
<1>4. InOrder
  BY DEF OneCall
<1>5. ~Offered => ~Offered'
  BY <1>2, <1>3 DEF Offered, W!Windows
<1>6. ~Accepting => ~Accepting'
  <2> SUFFICES ASSUME NEW i \in 1 .. Len(wire'["page"]), wire'["page"][i].kind = "accepted"
               PROVE  Accepting
    BY DEF Accepting
  <2>1. PICK k \in i .. Len(wire["page"]) : wire'["page"][i] = wire["page"][k]
    BY <1>2 DEF W!Windows
  <2>2. k \in 1 .. Len(wire["page"])
    BY <1>3 DEF W!Windows
  <2> QED
    BY <2>1, <2>2 DEF Accepting
<1>7. w = "main" => ~Offered'
  <2> SUFFICES ASSUME w = "main", NEW i \in 1 .. Len(wire'["main"])
               PROVE  wire'["main"][i].kind # "offer"
    BY DEF Offered
  <2>1. PICK k \in i .. Len(wire["main"]) : wire'["main"][i] = wire["main"][k] /\ k = i + 1
    BY <1>2 DEF W!Windows
  <2>2. k \in 1 .. Len(wire["main"]) /\ k # 1 /\ "main" \in W!Windows
    BY <1>3, <2>1 DEF W!Windows
  <2> QED
    BY <1>4, <2>1, <2>2 DEF InOrder
<1>8. \A v \in W!Windows : v # w \/ wire[w][1].kind \notin EndKinds => (Ending(v) => Ending(v)')
  <2> SUFFICES ASSUME NEW v \in W!Windows, v # w \/ wire[w][1].kind \notin EndKinds,
                      NEW i \in 1 .. Len(wire[v]), wire[v][i].kind \in EndKinds
               PROVE  Ending(v)'
    BY DEF Ending
  <2>1. v # w \/ i # 1
    OBVIOUS
  <2>2. PICK k \in 1 .. Len(wire'[v]) : wire'[v][k] = wire[v][i]
    BY <1>2, <2>1
  <2> QED
    BY <2>2 DEF Ending
<1>9. w = "page" => (Offered => Offered')
  BY <1>2 DEF Offered, W!Windows
<1>10. w = "page" /\ wire[w][1].kind \in EndKinds => ~Accepting'
  <2> SUFFICES ASSUME w = "page", wire[w][1].kind \in EndKinds, NEW i \in 1 .. Len(wire'[w])
               PROVE  wire'[w][i].kind # "accepted"
    BY DEF Accepting
  <2>1. \A j \in 1 .. Len(wire[w]) : wire[w][j].kind # "accepted"
    BY <1>1, <1>4 DEF InOrder, HeardOne
  <2>2. PICK k \in i .. Len(wire[w]) : wire'[w][i] = wire[w][k]
    BY <1>2
  <2>3. k \in 1 .. Len(wire[w])
    BY <1>3
  <2> QED
    BY <2>1, <2>2, <2>3
<1>11. InOrder'
  <2> SUFFICES ASSUME NEW v \in W!Windows, NEW i \in 1 .. Len(wire'[v])
               PROVE  LET e == wire'[v][i] IN
                      /\ e.kind = "offer" => rec[Last].dir = "in" /\ i = 1 /\ (v = "page" => page.call = 0)
                      /\ e.kind \in {"created", "accepted", "rejected"} => rec[Last].dir = "out"
                      /\ e.kind \in EndKinds => /\ ~W!Live(Last)
                                                /\ \A j \in i .. Len(wire'[v]) : wire'[v][j].kind # "accepted"
                      /\ e.kind = "timeout" => ~Accepting /\ (page.dir = "out" => ~Shown'.accepted)
                      /\ e.kind = "accepted" => rec[Last].state # "pending"
    BY <1>1, <1>6 DEF InOrder, W!Live, HeardOne
  <2>1. PICK k \in i .. Len(wire[v]) : wire'[v][i] = wire[v][k] /\ k = IF v = w THEN i + 1 ELSE i
    BY <1>2
  <2>2. k \in 1 .. Len(wire[v]) /\ i \in Nat /\ i >= 1
    BY <1>3
  <2>3. PICK e : e = wire[v][k]
    OBVIOUS
  <2>4. /\ e.kind = "offer" => rec[Last].dir = "in" /\ k = 1 /\ (v = "page" => page.call = 0)
        /\ e.kind \in {"created", "accepted", "rejected"} => rec[Last].dir = "out"
        /\ e.kind \in EndKinds => ~W!Live(Last) /\ \A j \in k .. Len(wire[v]) : wire[v][j].kind # "accepted"
        /\ e.kind = "timeout" => ~Accepting /\ (page.dir = "out" => ~Shown.accepted)
        /\ e.kind = "accepted" => rec[Last].state # "pending"
    BY <1>4, <2>2, <2>3 DEF InOrder
  <2>5. e.kind = "offer" => i = 1
    BY <2>1, <2>2, <2>4
  <2>6. ASSUME e.kind \in EndKinds, NEW j \in i .. Len(wire'[v]) PROVE wire'[v][j].kind # "accepted"
    <3>1. j \in 1 .. Len(wire'[v])
      BY <1>3, <2>2
    <3>2. PICK l \in j .. Len(wire[v]) : wire'[v][j] = wire[v][l] /\ l = IF v = w THEN j + 1 ELSE j
      BY <1>2, <3>1
    <3>3. l \in k .. Len(wire[v])
      BY <1>3, <2>1, <2>2, <3>1, <3>2
    <3> QED
      BY <2>4, <2>6, <3>2, <3>3
  <2>7. wire'[v][i] = e
    BY <2>1, <2>3
  <2>8. e.kind = "timeout" => ~Accepting /\ (page.dir = "out" => ~Shown'.accepted)
    BY <2>4
  <2> QED
    BY <2>4, <2>5, <2>6, <2>7, <2>8
<1> QED
  BY <1>5, <1>6, <1>7, <1>8, <1>9, <1>10, <1>11

(* Hearing brings no call back.                                          *)
LEMMA HeardLast ==
  ASSUME WindowTypes, OneCall, NEW w \in W!Windows, HeardQuietly(w), Ring' \in {Ring, Last, 0}
  PROVE  LastOnly' /\ \A d \in left' : ~W!Live(d)'
<1>1. HeardOne(w)
  BY HeardFacts
<1>2. \A v \in W!Windows : \A i \in 1 .. Len(wire'[v]) : wire'[v][i].call = Last
  <2> SUFFICES ASSUME NEW v \in W!Windows, NEW i \in 1 .. Len(wire'[v]) PROVE wire'[v][i].call = Last
    OBVIOUS
  <2>1. PICK k \in i .. Len(wire[v]) : wire'[v][i] = wire[v][k] /\ k = IF v = w THEN i + 1 ELSE i
    BY HeardFacts
  <2>2. k \in 1 .. Len(wire[v])
    BY FieldsTyped
  <2> QED
    BY <2>1, <2>2 DEF OneCall, LastOnly
<1> QED
  BY <1>1, <1>2 DEF OneCall, LastOnly, W!Live, HeardOne

(* A call window that closes ends the call it joined, and no other one.    *)
LEMMA ClosingKeeps ==
  ASSUME WindowTypes, OneCall, W!ClosePage \/ W!OfferCloses
  PROVE  OneCall'
<1>1. Closed
  BY ClosingEffect
<1>2. /\ page'.pc = "closed" /\ page'.dir = "none" /\ page'.call = 0 /\ ~page'.joined /\ page'.bound = 0
      /\ ~page'.timer /\ page' = W!NoPage
      /\ Shown'.view = "idle" /\ ~Shown'.accepted /\ ~Shown'.ended /\ ~Shown'.listens /\ ~Shown'.told
  BY <1>1 DEF Closed, W!NoPage, W!Blank, Shown
<1>3. /\ Last' = Last /\ Last \in Nat /\ (Last # 0 => Last \in 1 .. Last)
      /\ again' = again /\ taken' = taken /\ Same("main") /\ Ring' = Ring
      /\ wire'["page"] = <<>> /\ Len(wire'["page"]) = 0 /\ wire'["main"] = wire["main"]
      /\ left' = left \cup ({page.bound} \cap 1 .. Last)
      /\ store'.id = store.id /\ store'.caller = store.caller
  BY <1>1, FieldsTyped DEF Closed, Same, Ring
<1>4. page.bound # 0 => page.bound = Last /\ page.call = Last /\ Last # 0
  BY FieldsTyped DEF OneCall, LastOnly
<1>5. /\ \A d \in 1 .. Last : /\ rec'[d].dir = rec[d].dir
                              /\ rec'[d].state = rec[d].state \/ (d = Last /\ rec'[d].state = "ended")
      /\ page.bound # 0 => rec'[Last].state = "ended"
      /\ page.bound = 0 => rec' = rec
  <2>1. CASE page.bound \in 1 .. Last /\ W!Live(page.bound) /\ EndsOne(page.bound)
    BY <1>3, <1>4, <2>1 DEF EndsOne
  <2>2. CASE ~(page.bound \in 1 .. Last /\ W!Live(page.bound)) /\ rec' = rec
    BY <1>3, <1>4, <2>2 DEF W!Live
  <2> QED
    BY <1>1, <2>1, <2>2 DEF Closed
<1>6. Last # 0 => /\ rec'[Last].dir = rec[Last].dir
                  /\ rec'[Last].state = rec[Last].state \/ rec'[Last].state = "ended"
  <2> SUFFICES ASSUME Last # 0
               PROVE  /\ rec'[Last].dir = rec[Last].dir
                      /\ rec'[Last].state = rec[Last].state \/ rec'[Last].state = "ended"
    OBVIOUS
  <2>1. Last \in 1 .. Last
    BY <1>3
  <2> QED
    BY <1>5, <2>1
<1>7. store'.start = "none"
  BY <1>1 DEF Closed, OneCall, StartTold
<1>8. LastOnly' /\ \A d \in left' : ~W!Live(d)'
  <2>1. \A d \in 1 .. Last : d < Last \/ d \in left \/ d \in left' \/ d \in again => rec'[d].state = "ended"
    BY <1>3, <1>4, <1>5 DEF OneCall, LastOnly, W!Live
  <2>2. \A v \in W!Windows : \A i \in 1 .. Len(wire'[v]) : wire'[v][i].call = Last
    BY <1>3, FieldsTyped DEF OneCall, LastOnly
  <2>3. left' \subseteq 1 .. Last /\ again \subseteq 1 .. Last
    BY <1>3 DEF WindowTypes
  <2> QED
    BY <1>2, <1>3, <2>1, <2>2, <2>3 DEF OneCall, LastOnly, W!Live
<1>9. InOrder'
  <2> SUFFICES ASSUME NEW i \in 1 .. Len(wire["main"])
               PROVE  LET e == wire["main"][i] IN
                      /\ e.kind = "offer" => rec'[Last].dir = "in" /\ i = 1
                      /\ e.kind \in {"created", "accepted", "rejected"} => rec'[Last].dir = "out"
                      /\ e.kind \in EndKinds => /\ rec'[Last].state = "ended"
                                                /\ \A j \in i .. Len(wire["main"]) : wire["main"][j].kind # "accepted"
                      /\ e.kind = "accepted" => rec'[Last].state # "pending"
    BY <1>2, <1>3 DEF InOrder, W!Live, Accepting, W!Windows
  <2>1. Last # 0
    BY FieldsTyped
  <2>2. PICK e : e = wire["main"][i]
    OBVIOUS
  <2>3. /\ e.kind = "offer" => rec[Last].dir = "in" /\ i = 1
        /\ e.kind \in {"created", "accepted", "rejected"} => rec[Last].dir = "out"
        /\ e.kind \in EndKinds => /\ rec[Last].state = "ended"
                                  /\ \A j \in i .. Len(wire["main"]) : wire["main"][j].kind # "accepted"
        /\ e.kind = "accepted" => rec[Last].state # "pending"
    BY <2>2 DEF OneCall, InOrder, W!Live, W!Windows
  <2>4. rec'[Last].dir = rec[Last].dir /\ (rec'[Last].state = rec[Last].state \/ rec'[Last].state = "ended")
    BY <1>6, <2>1
  <2> QED
    BY <2>2, <2>3, <2>4
<1>10. Ring # 0 \/ Offered => Last # 0 /\ rec[Last].dir = "in" /\ page.bound = 0
  <2>1. Ring # 0 => Last # 0 /\ rec[Last].dir = "in" /\ page.dir # "in"
    BY <1>3, FieldsTyped DEF OneCall, MainShaped, PageShaped, LastOnly, Ring
  <2>2. Offered => Last # 0 /\ rec[Last].dir = "in" /\ page.dir # "in"
    BY FieldsTyped DEF OneCall, InOrder, PageShaped, Offered
  <2>3. page.dir # "in" /\ rec[Last].dir = "in" => page.call = 0
    BY FieldsTyped DEF OneCall, PageShaped
  <2> QED
    BY <1>4, <2>1, <2>2, <2>3
<1>11. PageShaped'
  BY <1>2, <1>3 DEF PageShaped
<1>12. MainShaped'
  <2>1. Ring # 0 => rec'[Last].dir = "in"
    BY <1>3, <1>5, <1>10
  <2> QED
    BY <1>3, <2>1 DEF OneCall, MainShaped, Same, Offered
<1>13. StartTold'
  <2>1. Tells => Last # 0 /\ rec[Last].dir = "out"
    BY <1>3, FieldsTyped DEF OneCall, StartTold, Tells, PageShaped, LastOnly
  <2>2. Last # 0 /\ rec[Last].dir = "in" => ~win'["main"].told
    BY <1>1, <2>1, FieldsTyped DEF Closed, OneCall, StartTold
  <2> QED
    BY <1>2, <1>3, <1>7, <1>6, <2>2 DEF StartTold, Shown, W!Windows
<1>14. StoreNames'
  <2>1. Ring # 0 => rec' = rec
    BY <1>5, <1>10
  <2>2. Ring # 0 => (store.id = Last /\ store.caller # Nobody) \/ (store.id = 0 /\ rec[Last].state = "ended")
    BY DEF OneCall, StoreNames, W!Live
  <2> QED
    BY <1>2, <1>3, <2>1, <2>2 DEF StoreNames, W!Live
<1>15. OutShown'
  BY <1>2 DEF OutShown
<1>16. Rings'
  <2>1. Offered' <=> Offered
    BY <1>3 DEF Offered
  <2>2. Ending("main")' <=> Ending("main")
    BY <1>3 DEF Ending
  <2>3. Ring # 0 \/ Offered => rec' = rec
    BY <1>5, <1>10
  <2>4. Last # 0 /\ rec'[Last].state = "pending" => rec[Last].state = "pending" /\ rec'[Last].dir = rec[Last].dir
    BY <1>3, <1>5
  <2> QED
    BY <1>3, <2>1, <2>2, <2>3, <2>4 DEF OneCall, Rings, W!Pending
<1> QED
  BY <1>8, <1>9, <1>11, <1>12, <1>13, <1>14, <1>15, <1>16 DEF OneCall

(* A window that is told of the end of an outgoing call forgets it.        *)
LEMMA HandleStorageChangeKeeps ==
  ASSUME WindowTypes, OneCall, NEW w \in W!Windows, W!HandleStorageChange(w)
  PROVE  OneCall'
<1>1. /\ WindowTypes' /\ ~win'[w].told /\ win[w].told
      /\ \A o \in W!Windows \ {w} : win'[o] = win[o]
      /\ UNCHANGED <<rec, again, wire, store, page, left, taken>> /\ Last' = Last
  BY HandleStorageChangeTypes DEF W!HandleStorageChange, Last
<1>2. /\ win'[w].view \in {win[w].view, "idle"} /\ (win'[w].accepted => win[w].accepted)
      /\ win'[w].ring \in {win[w].ring, 0} /\ win'[w].listens = win[w].listens
      /\ win[w].view = "idle" => win'[w].view = "idle"
  BY HandleStorageChangeTypes DEF Forgets, SameBut
<1>3. Last # 0 => rec[Last].dir = "out"
  <2>1. Last # 0 => Last \in 1 .. Last
    BY FieldsTyped
  <2> QED
    BY <1>1, <2>1, RecTyped DEF OneCall, StartTold, CallRecord
<1>4. Ring = 0 /\ Ring' = 0
  <2>1. Ring = 0
    BY <1>3, FieldsTyped DEF OneCall, MainShaped, LastOnly, Ring
  <2> QED
    BY <1>1, <1>2, <2>1 DEF Ring, W!Windows
<1>5. page.dir # "in"
  BY <1>3, FieldsTyped DEF OneCall, PageShaped, LastOnly
<1>6. \/ w = "main" /\ Shown' = Shown
      \/ /\ w = "page" /\ win'["main"] = win["main"] /\ store.start = "none" /\ ~W!Live(Last)
         /\ (Shown'.accepted => Shown.accepted) /\ Shown'.listens = Shown.listens /\ ~Shown'.told
         /\ Shown.view = "idle" => Shown'.view = "idle"
  BY <1>1, <1>2 DEF OneCall, StartTold, Shown, W!Windows
<1>7. LastOnly' /\ \A d \in left' : ~W!Live(d)'
  BY <1>1, <1>4 DEF OneCall, LastOnly, W!Live
<1>8. InOrder'
  <2>1. Shown'.accepted => Shown.accepted
    BY <1>6
  <2> QED
    BY <1>1, <2>1 DEF OneCall, InOrder, W!Live, Accepting
<1>9. PageShaped'
  BY <1>1, <1>5, <1>6 DEF OneCall, PageShaped, Offered
<1>10. MainShaped'
  BY <1>1, <1>2, <1>4, <1>6, FieldsTyped DEF OneCall, MainShaped, W!Windows
<1>11. StartTold'
  <2>1. \A v \in W!Windows : win'[v].told => win[v].told
    BY <1>1
  <2> QED
    BY <1>1, <1>6, <2>1 DEF OneCall, StartTold, W!Live, Shown
<1>12. StoreNames' /\ OutShown'
  BY <1>1, <1>4, <1>5, <1>6 DEF OneCall, StoreNames, OutShown, W!Live, Accepting, Ending
<1>13. Rings'
  BY <1>1, <1>4 DEF OneCall, Rings, W!Pending, Ending, Offered
<1> QED
  BY <1>7, <1>8, <1>9, <1>10, <1>11, <1>12, <1>13 DEF OneCall

(* No outgoing call goes on when an offer is heard: it is the main window  *)
(* that hears it, and nothing keeps it from ringing.                       *)
LEMMA OfferHeard ==
  ASSUME WindowTypes, OneCall, NEW w \in W!Windows, W!Heard(w)
  PROVE  /\ w = "main" /\ store.start = "none" /\ win["main"].view # "calling"
         /\ wire["main"][1].kind = "offer" /\ wire["main"][1].call = Last /\ rec[Last].dir = "in"
         /\ Offered /\ Ring = 0 /\ page.dir # "in" /\ ~page.joined
<1>1. wire[w] # <<>> /\ wire[w][1].kind = "offer" /\ ~(w = "page" /\ Shown.view = "idle")
  BY DEF W!Heard, W!Head1, Shown
<1>2. 1 \in 1 .. Len(wire[w])
  BY <1>1, HeadTyped
<1>3. rec[Last].dir = "in" /\ (w = "page" => page.call = 0) /\ wire[w][1].call = Last
  BY <1>1, <1>2 DEF OneCall, InOrder, LastOnly
<1>4. w = "main"
  BY <1>1, <1>3, FieldsTyped DEF OneCall, PageShaped
<1>5. Offered
  BY <1>1, <1>2, <1>4 DEF Offered
<1>6. Ring = 0 /\ page.dir # "in"
  BY <1>5 DEF OneCall, MainShaped, PageShaped
<1>7. ~page.joined
  BY <1>3, <1>6, FieldsTyped DEF OneCall, PageShaped
<1>8. store.start = "none" /\ win["main"].view # "calling"
  BY <1>7 DEF OneCall, StartTold, MainShaped
<1> QED
  BY <1>1, <1>3, <1>4, <1>5, <1>6, <1>7, <1>8

(* So no offer is ignored or turned down.                                *)
LEMMA OfferHeardRings ==
  ASSUME WindowTypes, OneCall, NEW w \in W!Windows, W!OfferIgnored(w) \/ W!OfferRejected(w)
  PROVE  FALSE
<1>1. W!Heard(w)
  BY DEF W!OfferIgnored, W!OfferRejected
<1>2. w = "main" /\ store.start = "none" /\ win["main"].view # "calling"
  BY <1>1, OfferHeard
<1> QED
  BY <1>2 DEF W!OfferIgnored, W!OfferRejected, W!MayBeGlare, W!Busy

(* The notification rings for the last call, which is offered no more.     *)
LEMMA OfferRingsKeeps ==
  ASSUME WindowTypes, OneCall, NEW w \in W!Windows, W!OfferRings(w)
  PROVE  OneCall'
<1>1. /\ w = "main" /\ store.start = "none" /\ wire["main"][1].kind = "offer"
      /\ wire["main"][1].call = Last /\ rec[Last].dir = "in"
      /\ Offered /\ Ring = 0 /\ page.dir # "in" /\ ~page.joined
  BY OfferHeard DEF W!OfferRings
<1>2. HeardQuietly(w) /\ HeardOne(w) /\ (page.pc # "open" => wire'["page"] = <<>>)
  BY OfferRingsEffect, HeardFacts
<1>3. /\ store'.id = Last /\ store'.caller # Nobody /\ store'.start = "none"
      /\ win'["main"].view = "ringing" /\ Ring' = Last
      /\ win'["main"].accepted = win["main"].accepted /\ win'["main"].listens = win["main"].listens
      /\ win'["main"].told = win["main"].told /\ win'["page"] = win["page"] /\ Shown' = Shown
  <2>1. rec[Last].peer # Nobody
    BY <1>2, RecTyped, WindowsAssumption DEF CallRecord, HeardOne
  <2> QED
    BY <1>1, <2>1, OfferRingsEffect DEF Ring, Shown, W!Windows
<1>4. /\ UNCHANGED <<rec, again, left, taken, page>> /\ Last' = Last /\ Last # 0
  BY <1>2 DEF HeardOne
<1>5. /\ InOrder' /\ ~Offered' /\ (~Accepting => ~Accepting') /\ (Ending("main") => Ending("main")')
  <2>1. Shown'.accepted => Shown.accepted \/ Accepting
    BY <1>3
  <2>2. wire[w][1].kind \notin EndKinds /\ "main" \in W!Windows
    BY <1>1 DEF EndKinds, W!Windows
  <2> QED
    BY <1>1, <1>2, <2>1, <2>2, HeardOrder
<1>6. LastOnly' /\ \A d \in left' : ~W!Live(d)'
  <2>1. Ring' \in {Ring, Last, 0}
    BY <1>3
  <2> QED
    BY <1>2, <2>1, HeardLast
<1>7. PageShaped' /\ MainShaped'
  BY <1>1, <1>2, <1>3, <1>4, <1>5 DEF OneCall, PageShaped, MainShaped
<1>8. StartTold'
  <2>1. \A v \in W!Windows : win'[v].told = win[v].told
    BY <1>3 DEF W!Windows
  <2> QED
    BY <1>3, <1>4, <2>1 DEF OneCall, StartTold, W!Live
<1>9. StoreNames' /\ OutShown'
  BY <1>1, <1>3, <1>4 DEF StoreNames, OutShown
<1>10. Rings'
  BY <1>1, <1>3, <1>4, <1>5 DEF OneCall, Rings, W!Pending
<1> QED
  BY <1>5, <1>6, <1>7, <1>8, <1>9, <1>10 DEF OneCall

(* The id of an outgoing call is stored, and nothing rings meanwhile.      *)
LEMMA HandleCreatedKeeps ==
  ASSUME WindowTypes, OneCall, NEW w \in W!Windows, W!HandleCreated(w)
  PROVE  OneCall'
<1>1. /\ HeardQuietly(w) /\ HeardOne(w) /\ (page.pc # "open" => wire'["page"] = <<>>)
      /\ win' = win /\ wire[w][1].kind = "created"
  BY HandleCreatedEffect, HeardFacts
<1>2. /\ UNCHANGED <<rec, again, left, taken, page, win>> /\ Last' = Last /\ Last # 0 /\ Last \in 1 .. Last
      /\ Ring' = Ring /\ Shown' = Shown /\ wire[w][1].call = Last /\ Last \in Nat
  BY <1>1 DEF HeardOne, Ring, Shown
<1>3. rec[Last].dir = "out"
  BY <1>1 DEF OneCall, InOrder, HeardOne
<1>4. /\ store'.id = Last /\ store'.partner # Nobody /\ store'.start = store.start
  <2>1. rec[Last].peer # Nobody
    BY <1>2, RecTyped, WindowsAssumption DEF CallRecord
  <2> QED
    BY <1>2, <2>1, HandleCreatedEffect
<1>5. Ring = 0 /\ ~Offered /\ page.dir # "in"
  BY <1>3 DEF OneCall, MainShaped, PageShaped, InOrder, Offered, W!Windows
<1>6. /\ InOrder' /\ ~Offered' /\ (~Accepting => ~Accepting') /\ (Ending("page") => Ending("page")')
  <2>1. Shown'.accepted => Shown.accepted \/ Accepting
    BY <1>2
  <2>2. wire[w][1].kind \notin EndKinds /\ "page" \in W!Windows
    BY <1>1 DEF EndKinds, W!Windows
  <2> QED
    BY <1>1, <1>5, <2>1, <2>2, HeardOrder
<1>7. LastOnly' /\ \A d \in left' : ~W!Live(d)'
  <2>1. Ring' \in {Ring, Last, 0}
    BY <1>2
  <2> QED
    BY <1>1, <2>1, HeardLast
<1>8. PageShaped' /\ MainShaped' /\ StartTold'
  BY <1>1, <1>2, <1>4, <1>5 DEF OneCall, PageShaped, MainShaped, StartTold, W!Live
<1>9. StoreNames'
  <2>1. W!Named(store'.id) = Last
    BY <1>2, <1>4 DEF W!Named
  <2> QED
    BY <1>2, <1>4, <1>5, <2>1 DEF StoreNames, W!Named
<1>10. OutShown' /\ Rings'
  BY <1>2, <1>3, <1>5, <1>6 DEF OneCall, OutShown, Rings, W!Live, W!Pending
<1> QED
  BY <1>6, <1>7, <1>8, <1>9, <1>10 DEF OneCall

(* Only the window of an outgoing call listens for its acceptance.       *)
LEMMA HandleAcceptedKeeps ==
  ASSUME WindowTypes, OneCall, NEW w \in W!Windows, W!HandleAccepted(w)
  PROVE  OneCall'
<1>1. /\ HeardQuietly(w) /\ HeardOne(w) /\ (page.pc # "open" => wire'["page"] = <<>>)
      /\ store' = store /\ wire[w][1].kind = "accepted"
  BY HandleAcceptedEffect, HeardFacts
<1>2. /\ UNCHANGED <<rec, again, left, taken, page, store>> /\ Last' = Last /\ Last # 0 /\ Last \in 1 .. Last
      /\ 1 \in 1 .. Len(wire[w])
  BY <1>1 DEF HeardOne
<1>3. rec[Last].dir = "out" /\ rec[Last].state # "pending"
  BY <1>1 DEF OneCall, InOrder, HeardOne
<1>4. Ring = 0 /\ ~Offered /\ page.dir # "in"
  BY <1>3 DEF OneCall, MainShaped, PageShaped, InOrder, Offered, W!Windows
<1>5. \/ win' = win
      \/ /\ w = "page" /\ win'["main"] = win["main"] /\ page.joined /\ page.dir = "out" /\ Accepting
         /\ Shown'.accepted /\ ~Shown'.ended /\ Shown'.view = "connected" /\ ~Shown'.listens
         /\ Shown'.link = Shown.link /\ Shown'.told = Shown.told
  <2>1. CASE ~win[w].listens
    BY <2>1, HandleAcceptedEffect
  <2>2. CASE win[w].listens
    <3>1. w = "page" /\ page.joined
      BY <2>2 DEF OneCall, MainShaped, PageShaped, Shown, W!Windows
    <3>2. page.dir = "out"
      BY <1>4, <3>1, FieldsTyped DEF OneCall, PageShaped, W!NoPage
    <3>3. Accepting
      BY <1>1, <1>2, <3>1 DEF Accepting
    <3> QED
      BY <2>2, <3>1, <3>2, <3>3, HandleAcceptedEffect DEF Shown, W!Windows
  <2> QED
    BY <2>1, <2>2
<1>6. Ring' = Ring
  BY <1>5 DEF Ring
<1>7. /\ InOrder' /\ ~Offered' /\ (~Accepting => ~Accepting') /\ (Ending("page") => Ending("page")')
  <2>1. Shown'.accepted => Shown.accepted \/ Accepting
    BY <1>5 DEF Shown
  <2>2. wire[w][1].kind \notin EndKinds /\ "page" \in W!Windows
    BY <1>1 DEF EndKinds, W!Windows
  <2> QED
    BY <1>1, <1>4, <2>1, <2>2, HeardOrder
<1>8. LastOnly' /\ \A d \in left' : ~W!Live(d)'
  <2>1. Ring' \in {Ring, Last, 0}
    BY <1>6
  <2> QED
    BY <1>1, <2>1, HeardLast
<1>9. PageShaped'
  BY <1>1, <1>2, <1>4, <1>5 DEF OneCall, PageShaped, Shown
<1>10. MainShaped'
  BY <1>2, <1>4, <1>5, <1>6 DEF OneCall, MainShaped
<1>11. StartTold'
  <2>1. \A v \in W!Windows : win'[v].told = win[v].told
    BY <1>5 DEF W!Windows, Shown
  <2> QED
    BY <1>2, <1>5, <2>1 DEF OneCall, StartTold, W!Live, Shown
<1>12. StoreNames'
  BY <1>2, <1>4, <1>5, <1>6 DEF OneCall, StoreNames, OutShown, W!Live, W!Named, Shown
<1>13. OutShown' /\ Rings'
  BY <1>2, <1>3, <1>4, <1>5, <1>6, <1>7 DEF OneCall, OutShown, Rings, W!Live, W!Pending, Shown
<1> QED
  BY <1>7, <1>8, <1>9, <1>10, <1>11, <1>12, <1>13 DEF OneCall

(* A window that hears of the end forgets the call, and the storage too.   *)
LEMMA EndHeardKeeps ==
  ASSUME WindowTypes, OneCall, NEW w \in W!Windows, HeardQuietly(w), CleansUp(w),
         wire[w][1].kind \in EndKinds
  PROVE  OneCall'
<1>1. /\ HeardOne(w) /\ (page.pc # "open" => wire'["page"] = <<>>)
  BY HeardFacts
<1>2. /\ UNCHANGED <<rec, again, left, taken, page>> /\ Last' = Last /\ Last # 0
      /\ rec[Last].state = "ended"
  BY <1>1 DEF HeardOne, OneCall, InOrder, W!Live
<1>3. store'.start = "none" /\ store'.id = 0 /\ store'.signal = 0
  BY DEF CleansUp, W!NoStore
<1>4. \/ /\ w = "main" /\ Ring' = 0 /\ win'["main"].view = "idle" /\ ~win'["main"].accepted
         /\ win'["main"].listens = win["main"].listens /\ win'["main"].told = win["main"].told
         /\ Same("page") /\ (Shown'.told <=> (Shown.told \/ Tells))
      \/ /\ w = "page" /\ Shown'.view = "idle" /\ ~Shown'.accepted /\ Shown'.listens = Shown.listens
         /\ Shown'.told = Shown.told /\ Ring' = Ring
         /\ Same("main") /\ (win'["main"].told <=> (win["main"].told \/ Tells))
  BY DEF CleansUp, Forgets, Same, Ring, Shown, W!Windows
<1>5. Shown'.accepted => Shown.accepted
  BY <1>4 DEF Same, Shown
<1>6. /\ InOrder' /\ (~Offered => ~Offered') /\ (w = "main" => ~Offered') /\ (~Accepting => ~Accepting')
      /\ w = "page" => ~Accepting' /\ (Ending("main") => Ending("main")')
      /\ w = "main" => (Ending("page") => Ending("page")')
  <2>1. Shown'.accepted => Shown.accepted \/ Accepting
    BY <1>5
  <2>2. "main" \in W!Windows /\ "page" \in W!Windows
    BY DEF W!Windows
  <2> QED
    BY <2>1, <2>2, HeardOrder
<1>7. LastOnly' /\ \A d \in left' : ~W!Live(d)'
  <2>1. Ring' \in {Ring, Last, 0}
    BY <1>4
  <2> QED
    BY <2>1, HeardLast
<1>8. PageShaped'
  <2>1. page.dir = "in" => Ring' = 0 /\ ~Offered' /\ ~Shown'.listens /\ (Shown'.accepted => Shown'.link = page.call)
    BY <1>4, <1>6 DEF OneCall, PageShaped, Same, Shown
  <2>2. ~page.joined => Shown'.view = "idle" /\ ~Shown'.accepted /\ ~Shown'.listens
    BY <1>4 DEF OneCall, PageShaped, Same, Shown
  <2> QED
    BY <1>1, <1>2, <2>1, <2>2 DEF OneCall, PageShaped
<1>9. MainShaped'
  BY <1>2, <1>4, <1>6 DEF OneCall, MainShaped, Same, Ring
<1>10. StartTold'
  <2>1. Tells => rec[Last].dir = "out"
    BY DEF OneCall, StartTold, Tells, PageShaped
  <2>2. rec[Last].dir = "in" => \A v \in W!Windows : ~win'[v].told
    BY <1>2, <1>4, <2>1 DEF OneCall, StartTold, Shown, W!Windows
  <2> QED
    BY <1>2, <1>3, <2>2 DEF StartTold, W!Live
<1>11. StoreNames'
  BY <1>2, <1>3 DEF StoreNames, W!Live
<1>12. OutShown'
  <2>1. CASE w = "main"
    <3>1. Shown'.accepted = Shown.accepted
      BY <1>4, <2>1 DEF Same, Shown
    <3> QED
      BY <1>2, <1>6, <2>1, <3>1 DEF OneCall, OutShown, W!Live
  <2>2. CASE w = "page"
    BY <1>2, <1>4, <1>6, <2>2 DEF OutShown, W!Live
  <2> QED
    BY <2>1, <2>2 DEF W!Windows
<1>13. Rings'
  BY <1>2, <1>4, <1>6 DEF OneCall, Rings, W!Pending
<1> QED
  BY <1>6, <1>7, <1>8, <1>9, <1>10, <1>11, <1>12, <1>13 DEF OneCall

(* An end and a rejection alike.                                         *)
LEMMA HandleEndedKeeps ==
  ASSUME WindowTypes, OneCall, NEW w \in W!Windows, W!HandleEnded(w)
  PROVE  OneCall'
<1>1. HeardQuietly(w) /\ CleansUp(w) /\ wire[w][1].kind \in EndKinds
  BY HandleEndedEffect DEF EndKinds
<1> QED
  BY <1>1, EndHeardKeeps

(* The timeout of another call is one that the storage does not name.      *)
LEMMA HandleTimeoutKeeps ==
  ASSUME WindowTypes, OneCall, NEW w \in W!Windows, W!HandleTimeout(w)
  PROVE  OneCall'
<1>1. HeardQuietly(w) /\ wire[w][1].kind = "timeout" /\ wire[w][1].kind \in EndKinds
  BY HandleTimeoutEffect DEF EndKinds
<1>2. CASE CleansUp(w)
  BY <1>1, <1>2, EndHeardKeeps
<1>3. CASE W!OthersTimeout(wire[w][1].call) /\ store' = store /\ win' = win
  <2>1. /\ HeardOne(w) /\ (page.pc # "open" => wire'["page"] = <<>>)
    BY <1>1, HeardFacts
  <2>2. /\ UNCHANGED <<rec, again, left, taken, page, win, store>> /\ Last' = Last /\ Last # 0
        /\ Ring' = Ring /\ Shown' = Shown
        /\ rec[Last].state = "ended" /\ ~Accepting /\ (page.dir = "out" => ~Shown.accepted)
    BY <1>1, <1>3, <2>1 DEF HeardOne, OneCall, InOrder, W!Live, Ring, Shown
  <2>3. Ring = 0
    BY <1>3, <2>1 DEF HeardOne, W!OthersTimeout, OneCall, StoreNames
  <2>4. /\ InOrder' /\ (~Offered => ~Offered') /\ (w = "main" => ~Offered') /\ ~Accepting'
        /\ w = "page" => (Ending("main") => Ending("main")')
        /\ w = "main" => (Ending("page") => Ending("page")')
    <3>1. Shown'.accepted => Shown.accepted \/ Accepting
      BY <2>2
    <3>2. "main" \in W!Windows /\ "page" \in W!Windows
      BY DEF W!Windows
    <3> QED
      BY <1>1, <2>2, <3>1, <3>2, HeardOrder
  <2>5. LastOnly' /\ \A d \in left' : ~W!Live(d)'
    <3>1. Ring' \in {Ring, Last, 0}
      BY <2>2
    <3> QED
      BY <1>1, <3>1, HeardLast
  <2>6. PageShaped' /\ MainShaped'
    BY <2>1, <2>2, <2>4 DEF OneCall, PageShaped, MainShaped
  <2>7. StartTold' /\ StoreNames'
    BY <2>2 DEF OneCall, StartTold, StoreNames, W!Live
  <2>8. OutShown'
    BY <2>2, <2>4 DEF OutShown, W!Live
  <2>9. Rings'
    BY <2>2, <2>3, <2>4 DEF OneCall, Rings, W!Pending, W!Windows
  <2> QED
    BY <2>4, <2>5, <2>6, <2>7, <2>8, <2>9 DEF OneCall
<1> QED
  BY <1>2, <1>3, HandleTimeoutEffect

(* The invariant: the shapes, and that one call is going on at most unless *)
(* one of them crossed another.                                            *)
WindowInv == WindowTypes /\ (~mixed => OneCall)

(* At first nothing goes on.                                             *)
LEMMA WindowsInit ==
  ASSUME W!Init
  PROVE  WindowInv
<1>1. /\ rec = <<>> /\ Last = 0 /\ again = {} /\ left = {} /\ taken = {} /\ mixed = FALSE
      /\ wire["main"] = <<>> /\ wire["page"] = <<>> /\ Len(wire["main"]) = 0 /\ Len(wire["page"]) = 0
      /\ store = W!NoStore /\ win["main"] = W!Blank /\ win["page"] = W!Blank /\ page = W!NoPage
      /\ wire \in [W!Windows -> Seq(Word)]
  BY DEF W!Init, Last, W!Windows
<1>2. rec \in Seq(CallRecord) /\ 0 \in 0 .. Last
  BY <1>1
<1>3. W!NoPage \in PageRecord
  BY <1>2 DEF W!NoPage, PageRecord
<1>4. W!NoStore \in StoreRecord
  BY <1>2 DEF W!NoStore, StoreRecord
<1>5. W!Blank \in WindowRecord
  BY <1>2 DEF W!Blank, WindowRecord
<1>6. win \in [W!Windows -> WindowRecord]
  BY <1>5 DEF W!Init
<1>7. WindowTypes
  BY <1>1, <1>2, <1>3, <1>4, <1>6 DEF WindowTypes, W!NoPage
<1>8. /\ page.pc = "closed" /\ page.dir = "none" /\ page.call = 0 /\ page.bound = 0 /\ ~page.joined
      /\ ~page.timer /\ store.start = "none" /\ Ring = 0
  BY <1>1 DEF W!NoPage, W!NoStore, W!Blank, Ring
<1>9. \A v \in W!Windows : /\ win[v].view = "idle" /\ ~win[v].accepted /\ ~win[v].listens /\ ~win[v].told
  BY <1>1 DEF W!Blank, W!Windows
<1>10. LastOnly /\ InOrder /\ PageShaped /\ MainShaped
  BY <1>1, <1>8, <1>9 DEF LastOnly, InOrder, PageShaped, MainShaped, W!Windows, Shown
<1>11. StartTold /\ StoreNames /\ OutShown /\ Rings
  BY <1>1, <1>8, <1>9 DEF StartTold, StoreNames, OutShown, Rings, W!Windows, Shown, Offered
<1> QED
  BY <1>1, <1>7, <1>10, <1>11 DEF WindowInv, OneCall

(* The steps keep the shapes, and what has crossed is remembered.          *)
LEMMA WindowTypesStep ==
  ASSUME WindowTypes, W!Next
  PROVE  WindowTypes' /\ (mixed => mixed')
<1>1. ASSUME NEW p \in Peers, W!Offer(p) PROVE WindowTypes' /\ (mixed => mixed')
  <2>1. /\ Starts(p, "in") /\ mixed' = (mixed \/ ~W!Quiet) /\ again' = again
        /\ ServerSays(<<[kind |-> "offer", call |-> Last']>>)
    BY <1>1, OfferEffect
  <2>2. again' \subseteq 1 .. Last'
    BY <2>1, ShapesStay DEF WindowTypes, Starts
  <2> QED
    BY <2>1, <2>2, ServerSaysTypes DEF Starts
<1>2. ASSUME NEW p \in Peers, W!CallFromChat(p) PROVE WindowTypes' /\ (mixed => mixed')
  BY <1>2, CallFromChatTypes DEF W!CallFromChat
<1>3. ASSUME NEW c \in 1 .. Last, W!PeerCancels(c) \/ W!Timeout(c) \/ W!PeerHangsUp(c)
      PROVE  WindowTypes' /\ (mixed => mixed')
  <2>1. PICK kind : ServerEnds(c, kind)
    BY <1>3, PeerCancelsEffect, TimeoutEffect, PeerHangsUpEffect
  <2>2. again' \in {again, again \cup {c}}
    BY <1>3, PeerCancelsEffect, TimeoutEffect, PeerHangsUpEffect
  <2>3. again' \subseteq 1 .. Last'
    BY <2>1, <2>2 DEF WindowTypes, ServerEnds, EndsOne
  <2>4. mixed \in BOOLEAN /\ mixed' = mixed
    BY <2>1 DEF WindowTypes, ServerEnds
  <2> QED
    BY <2>1, <2>3, <2>4, ServerSaysTypes DEF ServerEnds, EndsOne
<1>4. ASSUME NEW c \in 1 .. Last, W!PeerAccepts(c) PROVE WindowTypes' /\ (mixed => mixed')
  <2>1. /\ Answers(c) /\ mixed' = mixed /\ again' = again
        /\ ServerSays(<<[kind |-> "accepted", call |-> c]>>)
    BY <1>4, PeerAcceptsEffect
  <2>2. again' \subseteq 1 .. Last' /\ mixed' \in BOOLEAN
    BY <2>1 DEF WindowTypes, Answers
  <2> QED
    BY <2>1, <2>2, ServerSaysTypes DEF Answers
<1>5. ASSUME NEW c \in 1 .. Last, W!PeerRejects(c) PROVE WindowTypes' /\ (mixed => mixed')
  <2>1. /\ EndsOne(c) /\ mixed' = mixed /\ again' = again \cup {c}
        /\ ServerSays(<<[kind |-> "ended", call |-> c], [kind |-> "rejected", call |-> c]>>)
    BY <1>5, PeerRejectsEffect
  <2>2. again' \subseteq 1 .. Last' /\ mixed' \in BOOLEAN
    BY <2>1 DEF WindowTypes, EndsOne
  <2> QED
    BY <2>1, <2>2, ServerSaysTypes DEF EndsOne
<1>6. ASSUME NEW c \in again, W!AnnounceAgain(c) PROVE WindowTypes' /\ (mixed => mixed')
  <2>1. /\ rec' = rec /\ Kept /\ mixed' = mixed /\ again' = again \ {c}
        /\ ServerSays(<<[kind |-> "ended", call |-> c]>>)
    BY <1>6, AnnounceAgainEffect
  <2>2. again' \subseteq 1 .. Last' /\ mixed' \in BOOLEAN
    BY <2>1 DEF WindowTypes, Last
  <2> QED
    BY <2>1, <2>2, ServerSaysTypes
<1>7. CASE W!HandleAnswer \/ W!Loaded \/ W!ForgetSignal \/ W!Age
  BY <1>7, HandleAnswerTypes, LoadedTypes, ForgetSignalTypes, AgeTypes
  DEF W!HandleAnswer, W!Loaded, W!ForgetSignal, W!Age
<1>8. CASE W!JoinOutgoing
  BY <1>8, JoinOutgoingEffect
<1>9. CASE W!JoinIncoming \/ W!Reject \/ W!Hangup
  BY <1>9, JoinIncomingEffect, RejectEffect, HangupEffect DEF W!JoinIncoming, W!Reject, W!Hangup
<1>10. CASE W!ClosePage \/ W!OfferCloses
  BY <1>10, ClosingEffect DEF Closed
<1>11. ASSUME NEW w \in W!Windows, W!HandleStorageChange(w) \/ W!OfferRejected(w)
       PROVE  WindowTypes' /\ (mixed => mixed')
  <2>1. CASE W!HandleStorageChange(w)
    BY <2>1, HandleStorageChangeTypes DEF W!HandleStorageChange
  <2>2. CASE W!OfferRejected(w)
    <3>1. mixed' = mixed
      BY <2>2 DEF W!OfferRejected
    <3> QED
      BY <2>2, <3>1, OfferRejectedTypes
  <2> QED
    BY <1>11, <2>1, <2>2
<1>12. ASSUME NEW w \in W!Windows,
              \/ W!HandleCreated(w) \/ W!HandleAccepted(w) \/ W!HandleEnded(w) \/ W!HandleTimeout(w)
              \/ W!OfferIgnored(w) \/ W!OfferRings(w)
       PROVE  WindowTypes' /\ (mixed => mixed')
  <2>1. HeardQuietly(w)
    BY <1>12, HandleCreatedEffect, HandleAcceptedEffect, HandleEndedEffect, HandleTimeoutEffect,
       OfferIgnoredEffect, OfferRingsEffect
  <2> QED
    BY <2>1 DEF HeardQuietly
<1>13. W!Calls = 1 .. Last
  BY RecTyped
<1> QED
  BY <1>1, <1>2, <1>3, <1>4, <1>5, <1>6, <1>7, <1>8, <1>9, <1>10, <1>11, <1>12, <1>13 DEF W!Next

(* While nothing crosses, a step keeps the one call.                     *)
LEMMA OneCallStep ==
  ASSUME WindowTypes, OneCall, W!Next, ~mixed'
  PROVE  OneCall'
<1>1. ASSUME NEW p \in Peers, W!Offer(p) \/ W!CallFromChat(p) PROVE OneCall'
  BY <1>1, OfferKeeps, CallFromChatKeeps
<1>2. ASSUME NEW c \in 1 .. Last,
             W!PeerCancels(c) \/ W!Timeout(c) \/ W!PeerAccepts(c) \/ W!PeerRejects(c) \/ W!PeerHangsUp(c)
      PROVE  OneCall'
  BY <1>2, PeerEndsKeeps, TimeoutKeeps, PeerAcceptsKeeps, PeerRejectsKeeps
<1>3. ASSUME NEW c \in again, W!AnnounceAgain(c) PROVE OneCall'
  BY <1>3, AnnounceAgainKeeps
<1>4. CASE W!HandleAnswer \/ W!Loaded \/ W!JoinOutgoing \/ W!JoinIncoming \/ W!ForgetSignal \/ W!Age
  BY <1>4, HandleAnswerKeeps, LoadedKeeps, JoinOutgoingKeeps, JoinIncomingKeeps, ForgetSignalKeeps, AgeKeeps
<1>5. CASE W!Reject \/ W!Hangup \/ W!ClosePage \/ W!OfferCloses
  BY <1>5, RejectKeeps, HangupKeeps, ClosingKeeps
<1>6. ASSUME NEW w \in W!Windows,
             \/ W!HandleStorageChange(w) \/ W!HandleCreated(w) \/ W!HandleAccepted(w) \/ W!HandleEnded(w)
             \/ W!HandleTimeout(w) \/ W!OfferIgnored(w) \/ W!OfferRejected(w) \/ W!OfferRings(w)
      PROVE  OneCall'
  BY <1>6, HandleStorageChangeKeeps, HandleCreatedKeeps, HandleAcceptedKeeps, HandleEndedKeeps,
     HandleTimeoutKeeps, OfferHeardRings, OfferRingsKeeps
<1>7. W!Calls = 1 .. Last
  BY RecTyped
<1>8. CASE \/ \E p \in Peers : W!Offer(p) \/ W!CallFromChat(p)
           \/ \E c \in again : W!AnnounceAgain(c)
  BY <1>1, <1>3, <1>8
<1>9. CASE \E c \in W!Calls : \/ W!PeerCancels(c) \/ W!Timeout(c) \/ W!PeerAccepts(c)
                             \/ W!PeerRejects(c) \/ W!PeerHangsUp(c)
  BY <1>2, <1>7, <1>9
<1>10. CASE \E w \in W!Windows :
              \/ W!HandleStorageChange(w) \/ W!HandleCreated(w) \/ W!HandleAccepted(w) \/ W!HandleEnded(w)
              \/ W!HandleTimeout(w) \/ W!OfferIgnored(w) \/ W!OfferRejected(w) \/ W!OfferRings(w)
  BY <1>6, <1>10
<1> QED
  BY <1>4, <1>5, <1>8, <1>9, <1>10 DEF W!Next

(* A step of the windows keeps their invariant.                          *)
LEMMA WindowsStep ==
  ASSUME WindowInv, W!Next \/ UNCHANGED windowVars
  PROVE  WindowInv'
<1>1. CASE W!Next
  BY <1>1, WindowTypesStep, OneCallStep DEF WindowInv
<1>2. CASE UNCHANGED windowVars
  <2>1. UNCHANGED <<rec, again, wire, store, win, page, left, taken, mixed>>
    BY <1>2 DEF windowVars
  <2>2. WindowTypes'
    BY <2>1, ZenonT(30) DEF WindowInv, WindowTypes, StoreRecord, WindowRecord, PageRecord, Word, Last
  <2>3. OneCall => OneCall'
    <3>1. Last' = Last /\ Ring' = Ring /\ Shown' = Shown
      BY <2>1 DEF Last, Ring, Shown
    <3>2. LastOnly => LastOnly'
      BY <2>1, <3>1 DEF LastOnly, W!Live
    <3>3. InOrder => InOrder'
      BY <2>1, <3>1 DEF InOrder, W!Live, Accepting
    <3>4. (PageShaped => PageShaped') /\ (MainShaped => MainShaped')
      BY <2>1, <3>1 DEF PageShaped, MainShaped, Offered
    <3>5. (StartTold => StartTold') /\ (StoreNames => StoreNames')
      BY <2>1, <3>1 DEF StartTold, StoreNames, W!Live
    <3>6. (OutShown => OutShown') /\ (Rings => Rings')
      BY <2>1, <3>1 DEF OutShown, Rings, W!Live, W!Pending, Ending, Accepting, Offered
    <3> QED
      BY <2>1, <3>2, <3>3, <3>4, <3>5, <3>6 DEF OneCall, W!Live
  <2> QED
    BY <2>1, <2>2, <2>3 DEF WindowInv
<1> QED
  BY <1>1, <1>2

(* What the invariant says of the windows.                                 *)
LEMMA WindowsTruthful ==
  ASSUME WindowInv
  PROVE  W!TypeOK /\ W!CallShown /\ W!RingHonest /\ W!LeftIsOver
<1>1. W!TypeOK /\ W!Calls = 1 .. Last /\ WindowTypes /\ Last \in Nat
  BY WindowTyped DEF WindowInv
<1>2. W!CallShown
  <2> SUFFICES ASSUME Shown.accepted, OneCall
               PROVE  \/ page.call \in left \/ W!Coming("page", page.call)
                      \/ /\ Shown.link = page.call
                         /\ page.dir = "out" => rec[page.call].state = "answered"
    BY DEF W!CallShown, WindowInv, Shown
  <2>1. page.joined
    BY DEF OneCall, PageShaped
  <2>2. CASE page.dir = "in"
    BY <2>2 DEF OneCall, PageShaped
  <2>3. CASE page.dir = "none"
    BY <2>1, <2>3 DEF OneCall, PageShaped, W!NoPage
  <2>4. CASE page.dir = "out"
    <3>1. page.call = Last /\ Last # 0 /\ Last \in 1 .. Last
      BY <1>1, <2>1, <2>4 DEF OneCall, PageShaped, LastOnly
    <3>2. CASE W!Live(Last)
      <4>1. rec[Last].state = "answered" /\ Shown.link = Last
        BY <1>1, <2>1, <2>4, <3>1, <3>2, RecTyped DEF OneCall, OutShown, W!Live, CallRecord
      <4> QED
        BY <3>1, <4>1
    <3>3. CASE Last \in left
      BY <3>1, <3>3
    <3>4. CASE Ending("page")
      BY <3>1, <3>4 DEF OneCall, LastOnly, Ending, EndKinds, W!Coming, W!Windows
    <3> QED
      BY <2>1, <2>4, <3>2, <3>3, <3>4 DEF OneCall, OutShown
  <2> QED
    BY <1>1, <2>2, <2>3, <2>4, FieldsTyped
<1>3. W!RingHonest
  <2> SUFFICES ASSUME OneCall, NEW c \in 1 .. Last
               PROVE  /\ Ring = c => rec[c].state = "pending" \/ W!Coming("main", c)
                      /\ W!Pending(c, "in") /\ c \notin taken =>
                           Ring = c \/ \E i \in 1 .. Len(wire["main"]) : wire["main"][i] = W!Ev("offer", c)
    BY <1>1 DEF W!RingHonest, WindowInv, Ring
  <2>1. Ring = c => rec[c].state = "pending" \/ W!Coming("main", c)
    <3> SUFFICES ASSUME Ring = c PROVE rec[c].state = "pending" \/ W!Coming("main", c)
      OBVIOUS
    <3>1. c = Last /\ Ring # 0
      BY <1>1 DEF OneCall, LastOnly
    <3>2. Ending("main") => W!Coming("main", c)
      BY <3>1 DEF OneCall, LastOnly, Ending, EndKinds, W!Coming, W!Windows
    <3> QED
      BY <3>1, <3>2 DEF OneCall, Rings
  <2>2. ASSUME W!Pending(c, "in"), c \notin taken
        PROVE  Ring = c \/ \E i \in 1 .. Len(wire["main"]) : wire["main"][i] = W!Ev("offer", c)
    <3>1. c = Last /\ Last # 0
      BY <1>1, <2>2, LiveIsLast DEF W!Pending
    <3>2. ASSUME Offered PROVE \E i \in 1 .. Len(wire["main"]) : wire["main"][i] = W!Ev("offer", c)
      <4>1. PICK i \in 1 .. Len(wire["main"]) : wire["main"][i].kind = "offer"
        BY <3>2 DEF Offered
      <4>2. wire["main"][i].call = c /\ wire["main"][i] \in Word
        <5>1. wire["main"] \in Seq(Word) /\ "main" \in W!Windows
          BY <1>1 DEF WindowTypes, W!Windows
        <5> QED
          BY <3>1, <5>1 DEF OneCall, LastOnly
      <4>3. wire["main"][i] = [kind |-> "offer", call |-> c]
        BY <4>1, <4>2 DEF Word
      <4> QED
        BY <4>3 DEF W!Ev
    <3> QED
      BY <2>2, <3>1, <3>2 DEF OneCall, Rings
  <2> QED
    BY <2>1, <2>2
<1>4. W!LeftIsOver
  BY DEF W!LeftIsOver, WindowInv, OneCall
<1> QED
  BY <1>1, <1>2, <1>3, <1>4

-----------------------------------------------------------------------------
(* The theorems.                                                           *)

(* In a behaviour of the session its invariant holds always.               *)
LEMMA SessionAlways == Spec => [](part = "session" => SessionInv)
<1>1. Init => (part = "session" => SessionInv)
  BY SessionInit DEF Init
<1>2. (part = "session" => SessionInv) /\ [Next]_<<part, sessionVars, windowVars, bookVars>>
        => (part = "session" => SessionInv)'
  BY SessionStep DEF Next
<1> QED
  BY <1>1, <1>2, PTL DEF Spec

(* In a behaviour of the call history its invariant holds always.          *)
LEMMA BookAlways == Spec => [](part = "book" => BookInv)
<1>1. Init => (part = "book" => BookInv)
  BY BookInit DEF Init
<1>2. (part = "book" => BookInv) /\ [Next]_<<part, sessionVars, windowVars, bookVars>>
        => (part = "book" => BookInv)'
  BY BookStep DEF Next
<1> QED
  BY <1>1, <1>2, PTL DEF Spec

(* A request is carried out at most once, through refusals, refreshes and  *)
(* lost answers, and for the account its page showed, unless the cookie    *)
(* went to another account meanwhile (axiosClient.js).                     *)
THEOREM RequestsAreHonest == Spec => []RequestsHonest
<1>1. (part = "session" => SessionInv) => RequestsHonest
  BY SessionHonest DEF RequestsHonest
<1> QED
  BY <1>1, SessionAlways, PTL

(* After a sign-out that nothing was crossing the browser has no session   *)
(* until somebody signs in (authController.js, AuthProvider.jsx).          *)
THEOREM SignOutIsFinal == Spec => []SignedOutStays
<1>1. (part = "session" => SessionInv) => SignedOutStays
  BY DEF SessionInv, Quieted, SignedOutStays, S!SignedOutStays
<1> QED
  BY <1>1, SessionAlways, PTL

(* A reset link replaces no password but the one it was made of, unless    *)
(* two resets were both between their read and their save.                 *)
THEOREM LinksAreSpentOnce == Spec => []LinkSpentOnce
<1>1. (part = "session" => SessionInv) => LinkSpentOnce
  BY DEF SessionInv, Apart, LinkSpentOnce
<1> QED
  BY <1>1, SessionAlways, PTL

(* With nothing under way the badge of missed calls counts the records     *)
(* nobody has seen, unless something is known to have crossed the last     *)
(* count; and the history modal shows its records in one unbroken run,     *)
(* whichever pages were lost or came late (useMissedCalls.js,              *)
(* useCallHistory.js).                                                     *)
THEOREM BookIsExact == Spec => []BookExact
<1>1. (part = "book" => BookInv) => BookExact
  BY BookHonest DEF BookExact
<1> QED
  BY <1>1, BookAlways, PTL

(* In a behaviour of the windows their invariant holds always.             *)
LEMMA WindowsAlways == Spec => [](part = "windows" => WindowInv)
<1>1. Init => (part = "windows" => WindowInv)
  BY WindowsInit DEF Init
<1>2. (part = "windows" => WindowInv) /\ [Next]_<<part, sessionVars, windowVars, bookVars>>
        => (part = "windows" => WindowInv)'
  BY WindowsStep DEF Next
<1> QED
  BY <1>1, <1>2, PTL DEF Spec

(* The call window shows the call that the server has, a notification rings *)
(* for a call that can be answered and every such call rings, and what the  *)
(* user has left is over on the server, unless calls crossed                *)
(* (useCallActions.js, useSocketEvents.js, useWindowSync.js).                *)
THEOREM WindowsAreHonest == Spec => []WindowsHonest
<1>1. (part = "windows" => WindowInv) => WindowsHonest
  BY WindowsTruthful DEF WindowsHonest
<1> QED
  BY <1>1, WindowsAlways, PTL
=============================================================================
