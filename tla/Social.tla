------------------------------- MODULE Social -------------------------------
(***************************************************************************)
(* Friends, presence and the profile cache: the friend requests of         *)
(* userController.js, the write-through friend sets of                     *)
(* friendCacheService.js, the presence of several tabs on several replicas *)
(* (presenceHandler.js, presenceService.js), the cache-aside profile of    *)
(* cacheService.js, and the friendship flags that clients keep             *)
(* (useFriendSocket.js, useFriendActions.js, friendshipState.js).          *)
(*                                                                         *)
(* A handler in flight is a task; its pc names the next command it sends   *)
(* to Redis or Mongo, and every command is one step.  Two commands that    *)
(* the code starts with Promise.all are done in either order: todo holds   *)
(* the users whose command is still to come.                               *)
(***************************************************************************)
EXTENDS Naturals, FiniteSets, Bags

CONSTANTS
  Users,
  Sockets,      \* connections, each opened at most once
  Owner,        \* the user of a socket
  Nodes,        \* replicas of the server
  Home,         \* the replica a socket is connected to
  Tasks,        \* bounds the handlers in flight
  Place,        \* the replica a task runs on
  Befriend,     \* the users who send friend requests
  Readers,      \* the users whose lists and profiles are read and edited
  MaxEvents,    \* bounds the handlers that are started
  MaxEdits,     \* bounds the profile updates of a user
  MaxFailures,  \* bounds the Redis and Mongo commands that fail
  MaxExpiries,  \* bounds the presence hashes that expire under a live socket
  MaxCrashes,   \* bounds the crashes of replicas
  NoFriends,    \* the marker member "__no_friends__"
  None

ASSUME OwnerAssumption == Owner \in [Sockets -> Users] /\ Home \in [Sockets -> Nodes]
ASSUME PlaceAssumption == Place \in [Tasks -> Nodes]
ASSUME RoleAssumption == Befriend \subseteq Users /\ Readers \subseteq Users
ASSUME MarkAssumption ==
  /\ NoFriends \notin Users /\ None \notin Users \cup Sockets \cup Tasks \cup Nat
ASSUME BoundAssumption ==
  /\ MaxEvents \in Nat /\ MaxEdits \in Nat /\ MaxFailures \in Nat
  /\ MaxExpiries \in Nat /\ MaxCrashes \in Nat

VARIABLES
  friends,   \* Mongo: User.friends
  requests,  \* Mongo: User.friendRequests, a bag, since $push keeps duplicates
  cache,     \* Redis: cache:friends:u, {} when the key is missing
  mayEnd,    \* the keys of cache that have a TTL
  profile,   \* Mongo: the version of the user's profile
  cached,    \* Redis: the version in cache:user:u, None when the key is missing
  sock,      \* sockets: "new", "live", "closed", or "lost" with their replica
  members,   \* Redis: user_sockets:u
  flag,      \* Redis: offline_timer:u, the task that set it
  hash,      \* Redis: presence:u
  global,    \* Redis: global_online_users
  activity,  \* Mongo: activityStatus.state
  task,      \* the handlers in flight
  inbox,     \* events on their way to a user's pages
  view,      \* the isFriend flags in a user's pages
  raced,     \* history: pairs with two handlers or an event at once
  stale,     \* history: users whose cached lists, profile or page may be old
  excused,   \* history: users who lost their presence while connected
  torn,      \* history: users whose hash a crash or a failure left without TTL
  unlisted,  \* history: sockets whose addNewUser failed before its SADD
  spent      \* the bounds used up

redis == <<cache, mayEnd, cached>>
people == <<friends, requests, profile, redis>>
presence == <<sock, members, flag, hash, global, activity>>
clients == <<inbox, view>>
past == <<raced, stale, excused, torn, unlisted>>
vars == <<people, presence, task, clients, past, spent>>

Pair(u, v) == {u, v}
Idle == [pc |-> "idle", me |-> None, peer |-> None, sock |-> None,
         todo |-> {}, seen |-> {}, ver |-> 0, ok |-> TRUE]

(* The commands of connect, heartbeat and disconnect, of the friend        *)
(* requests, and of the readers of the two caches.                         *)
JoinPc == {"delFlag", "sAdd", "sCard"}
OnlinePc == {"exists", "mongoOn", "hSet", "expire", "globalAdd"}
BeatPc == {"hbExists", "hbSet", "hbExpire"}
LeavePc == {"sRem", "sCardOff", "setEx"}
GracePc == {"grace", "getFlag", "finalCard", "mongoOff", "delHash", "globalRem"}
FriendPc == {"reqRead", "reqPush", "accRead", "accPull", "accMongo", "accCache", "accEmit",
             "rejPull", "remRead", "remMongo", "remCache", "remEmit"}
CachePc == {"listExists", "listRead", "listFill", "listMark", "listMembers",
            "proGet", "proRead", "proFill", "proWrite", "proDrop"}
Pc == {"idle"} \cup JoinPc \cup OnlinePc \cup BeatPc \cup LeavePc \cup GracePc
      \cup FriendPc \cup CachePc

Event == [kind : {"accepted", "removed"}, peer : Users]
Hash == [status : {"none", "active", "bare"}, ttl : BOOLEAN]
NoHash == [status |-> "none", ttl |-> FALSE]

TypeOK ==
  /\ friends \in [Users -> SUBSET Users]
  /\ \A u \in Users : DOMAIN requests[u] \subseteq Users /\ IsABag(requests[u])
  /\ cache \in [Users -> SUBSET (Users \cup {NoFriends})] /\ mayEnd \subseteq Users
  /\ \A u \in mayEnd : cache[u] # {}
  /\ profile \in [Users -> 0..MaxEdits] /\ cached \in [Users -> (0..MaxEdits) \cup {None}]
  /\ sock \in [Sockets -> {"new", "live", "closed", "lost"}]
  /\ \A u \in Users : members[u] \subseteq {s \in Sockets : Owner[s] = u}
  /\ flag \in [Users -> Tasks \cup {None}] /\ hash \in [Users -> Hash]
  /\ \A u \in Users : hash[u].status = "none" => ~hash[u].ttl
  /\ global \subseteq Users /\ activity \in [Users -> {"active", "offline"}]
  /\ task \in [Tasks -> [pc : Pc, me : Users \cup {None}, peer : Users \cup {None},
                         sock : Sockets \cup {None}, todo : SUBSET Users,
                         seen : SUBSET (Users \cup Sockets), ver : 0..MaxEdits, ok : BOOLEAN]]
  /\ \A u \in Users : BagToSet(inbox[u]) \subseteq Event
  /\ view \in [Users -> SUBSET Users]
  /\ raced \subseteq SUBSET Users /\ stale \subseteq Users
  /\ excused \subseteq Users /\ torn \subseteq Users /\ unlisted \subseteq Sockets
  /\ spent \in [events : 0..MaxEvents, failures : 0..MaxFailures,
                expiries : 0..MaxExpiries, crashes : 0..MaxCrashes]

Init ==
  /\ friends = [u \in Users |-> {}] /\ requests = [u \in Users |-> EmptyBag]
  /\ cache = [u \in Users |-> {}] /\ mayEnd = {}
  /\ profile = [u \in Users |-> 0] /\ cached = [u \in Users |-> None]
  /\ sock = [s \in Sockets |-> "new"] /\ members = [u \in Users |-> {}]
  /\ flag = [u \in Users |-> None] /\ hash = [u \in Users |-> NoHash]
  /\ global = {} /\ activity = [u \in Users |-> "offline"]
  /\ task = [t \in Tasks |-> Idle]
  /\ inbox = [u \in Users |-> EmptyBag] /\ view = [u \in Users |-> {}]
  /\ raced = {} /\ stale = {} /\ excused = {} /\ torn = {} /\ unlisted = {}
  /\ spent = [events |-> 0, failures |-> 0, expiries |-> 0, crashes |-> 0]

-----------------------------------------------------------------------------
(* Starting, advancing and ending a handler *)

Spend(b) == spent' = [spent EXCEPT ![b] = @ + 1]
Budget == [events |-> MaxEvents, failures |-> MaxFailures,
           expiries |-> MaxExpiries, crashes |-> MaxCrashes]
Left(b) == spent[b] < Budget[b]

(* A handler in flight between u and v, or an event about one of them. *)
FriendBusy(u, v) ==
  \/ \E t \in Tasks : task[t].pc \in FriendPc /\ {task[t].me, task[t].peer} = {u, v}
  \/ \E e \in Event : \/ e.peer = v /\ BagIn(e, inbox[u])
                      \/ e.peer = u /\ BagIn(e, inbox[v])

(* A request between u and v changes what a reader of either list holds:   *)
(* one that has read the list and is going to write it to the cache is     *)
(* writing an old one.                                                     *)
Reading(u, pcs) == \E t \in Tasks : task[t].me = u /\ task[t].pc \in pcs

Start(t, pc, me, peer, s) ==
  /\ task[t].pc = "idle" /\ Left("events") /\ Spend("events")
  /\ task' = [task EXCEPT ![t] = [Idle EXCEPT !.pc = pc, !.me = me, !.peer = peer, !.sock = s]]

At(t, pc) == task[t].pc = pc
Goto(t, pc) == task' = [task EXCEPT ![t] = [@ EXCEPT !.pc = pc]]
Return(t) == task' = [task EXCEPT ![t] = Idle]

-----------------------------------------------------------------------------
(* Presence: a tab connects, sends its heartbeat, and disconnects *)

(* addNewUser, which the client emits on connect; authentication has been  *)
(* done, and joining the rooms writes no state here.                       *)
Connect(t, s) ==
  /\ sock[s] = "new" /\ Place[t] = Home[s]
  /\ Start(t, "delFlag", Owner[s], None, s)
  /\ sock' = [sock EXCEPT ![s] = "live"]
  /\ UNCHANGED <<people, members, flag, hash, global, activity, clients, past>>

DelFlag(t) ==
  /\ At(t, "delFlag")
  /\ flag' = [flag EXCEPT ![task[t].me] = None]
  /\ Goto(t, "sAdd")
  /\ UNCHANGED <<people, sock, members, hash, global, activity, clients, past, spent>>

Register(t) ==
  /\ At(t, "sAdd")
  /\ members' = [members EXCEPT ![task[t].me] = @ \cup {task[t].sock}]
  /\ Goto(t, "sCard")
  /\ UNCHANGED <<people, sock, flag, hash, global, activity, clients, past, spent>>

(* A socket id that no disconnect handler is going to remove. *)
Leaked(u) ==
  \E s \in members[u] :
    sock[s] # "live" /\ ~ \E t \in Tasks : task[t].sock = s /\ task[t].pc = "sRem"

(* Only the first connection of a user sets the presence; the others renew *)
(* a hash that they take to exist.                                         *)
CountIn(t) ==
  LET u == task[t].me
      first == Cardinality(members[u]) = 1
      together == \E o \in Tasks \ {t} : task[o].me = u /\ task[o].pc = "sCard"
  IN /\ At(t, "sCard")
     /\ Goto(t, IF first THEN "exists" ELSE "hbExists")
     /\ excused' = IF ~first /\ (together \/ Leaked(u)) THEN excused \cup {u} ELSE excused
     /\ UNCHANGED <<people, presence, clients, raced, stale, torn, unlisted, spent>>

(* setPresenceWriteThrough(online): Mongo is written when the hash is      *)
(* missing, the hash always, and its TTL by a command of its own.          *)
OnlineExists(t) ==
  /\ At(t, "exists")
  /\ Goto(t, IF hash[task[t].me].status = "none" THEN "mongoOn" ELSE "hSet")
  /\ UNCHANGED <<people, presence, clients, past, spent>>

OnlineMongo(t) ==
  /\ At(t, "mongoOn")
  /\ activity' = [activity EXCEPT ![task[t].me] = "active"]
  /\ Goto(t, "hSet")
  /\ UNCHANGED <<people, sock, members, flag, hash, global, clients, past, spent>>

OnlineHash(t) ==
  /\ At(t, "hSet")
  /\ hash' = [hash EXCEPT ![task[t].me] = [@ EXCEPT !.status = "active"]]
  /\ excused' = excused \ {task[t].me}
  /\ Goto(t, "expire")
  /\ UNCHANGED <<people, sock, members, flag, global, activity, clients, raced, stale, torn, unlisted, spent>>

(* Mutant: the hash is written without a TTL. *)
OnlineForever(t) ==
  /\ At(t, "expire")
  /\ Goto(t, "globalAdd")
  /\ UNCHANGED <<people, presence, clients, past, spent>>

(* EXPIRE has no effect on a key that is missing. *)
Renewed(u) == [hash EXCEPT ![u] = [@ EXCEPT !.ttl = (hash[u].status # "none")]]
OnlineExpire(t) ==
  /\ At(t, "expire")
  /\ hash' = Renewed(task[t].me)
  /\ torn' = torn \ {task[t].me}
  /\ Goto(t, "globalAdd")
  /\ UNCHANGED <<people, sock, members, flag, global, activity, clients, raced, stale, excused, unlisted, spent>>

OnlineGlobal(t) ==
  /\ At(t, "globalAdd")
  /\ global' = global \cup {task[t].me}
  /\ Return(t)
  /\ UNCHANGED <<people, sock, members, flag, hash, activity, clients, past, spent>>

(* renewHeartbeat: a hash that has expired stays away, and one that        *)
(* expires after EXISTS comes back without a status.                       *)
Heartbeat(t, s) ==
  /\ sock[s] = "live" /\ Place[t] = Home[s]
  /\ Start(t, "hbExists", Owner[s], None, s)
  /\ UNCHANGED <<people, presence, clients, past>>

BeatExists(t) ==
  /\ At(t, "hbExists")
  /\ IF hash[task[t].me].status = "none" THEN Return(t) ELSE Goto(t, "hbSet")
  /\ UNCHANGED <<people, presence, clients, past, spent>>

BeatSet(t) ==
  /\ At(t, "hbSet")
  /\ hash' = IF hash[task[t].me].status = "none"
             THEN [hash EXCEPT ![task[t].me] = [@ EXCEPT !.status = "bare"]] ELSE hash
  /\ Goto(t, "hbExpire")
  /\ UNCHANGED <<people, sock, members, flag, global, activity, clients, past, spent>>

BeatExpire(t) ==
  /\ At(t, "hbExpire")
  /\ hash' = Renewed(task[t].me)
  /\ torn' = torn \ {task[t].me}
  /\ Return(t)
  /\ UNCHANGED <<people, sock, members, flag, global, activity, clients, raced, stale, excused, unlisted, spent>>

(* The socket closes, even while its addNewUser is still running. *)
Disconnect(t, s) ==
  /\ sock[s] = "live" /\ Place[t] = Home[s]
  /\ Start(t, "sRem", Owner[s], None, s)
  /\ sock' = [sock EXCEPT ![s] = "closed"]
  /\ UNCHANGED <<people, members, flag, hash, global, activity, clients, past>>

Unregister(t) ==
  /\ At(t, "sRem")
  /\ members' = [members EXCEPT ![task[t].me] = @ \ {task[t].sock}]
  /\ Goto(t, "sCardOff")
  /\ UNCHANGED <<people, sock, flag, hash, global, activity, clients, past, spent>>

CountOut(t) ==
  /\ At(t, "sCardOff")
  /\ IF members[task[t].me] = {} THEN Goto(t, "setEx") ELSE Return(t)
  /\ UNCHANGED <<people, presence, clients, past, spent>>

(* The flag lives 5 s and the timer fires after 5.5 s: a timer finds its   *)
(* own flag gone, and perhaps that of a later disconnect.                  *)
SetFlag(t) ==
  /\ At(t, "setEx")
  /\ flag' = [flag EXCEPT ![task[t].me] = t]
  /\ Goto(t, "grace")
  /\ UNCHANGED <<people, sock, members, hash, global, activity, clients, past, spent>>

GraceOver(t) ==
  /\ At(t, "grace") /\ flag[task[t].me] # t
  /\ Goto(t, "getFlag")
  /\ UNCHANGED <<people, presence, clients, past, spent>>

GetFlag(t) ==
  /\ At(t, "getFlag")
  /\ task' = [task EXCEPT ![t] = [@ EXCEPT !.pc = "finalCard", !.ok = (flag[task[t].me] = None)]]
  /\ UNCHANGED <<people, presence, clients, past, spent>>

(* Mutant: the timer also takes the user offline when one tab is left. *)
FinalCountOne(t) ==
  LET m == members[task[t].me]
  IN /\ At(t, "finalCard")
     /\ task' = [task EXCEPT ![t] = IF task[t].ok /\ Cardinality(m) <= 1
                                    THEN [@ EXCEPT !.pc = "mongoOff", !.seen = m] ELSE Idle]
     /\ UNCHANGED <<people, presence, clients, past, spent>>

FinalCount(t) ==
  LET m == members[task[t].me]
  IN /\ At(t, "finalCard")
     /\ task' = [task EXCEPT ![t] = IF task[t].ok /\ m = {}
                                    THEN [@ EXCEPT !.pc = "mongoOff", !.seen = m] ELSE Idle]
     /\ UNCHANGED <<people, presence, clients, past, spent>>

OfflineMongo(t) ==
  /\ At(t, "mongoOff")
  /\ activity' = [activity EXCEPT ![task[t].me] = "offline"]
  /\ Goto(t, "delHash")
  /\ UNCHANGED <<people, sock, members, flag, hash, global, clients, past, spent>>

(* A tab that registered after the timer's count loses its presence. *)
OfflineHash(t) ==
  LET u == task[t].me
  IN /\ At(t, "delHash")
     /\ hash' = [hash EXCEPT ![u] = NoHash]
     /\ excused' = IF members[u] \ task[t].seen # {} THEN excused \cup {u} ELSE excused
     /\ torn' = torn \ {u}
     /\ Goto(t, "globalRem")
     /\ UNCHANGED <<people, sock, members, flag, global, activity, clients, raced, stale, unlisted, spent>>

OfflineGlobal(t) ==
  /\ At(t, "globalRem")
  /\ global' = global \ {task[t].me}
  /\ Return(t)
  /\ UNCHANGED <<people, sock, members, flag, hash, activity, clients, past, spent>>

(* A Redis or Mongo command of any of these handlers fails: the handler    *)
(* logs it and does nothing more, and nobody tries again.  A command that  *)
(* was carried out though its answer was lost is its step, followed by the *)
(* failure of the next command.                                            *)
PresenceFails(t) ==
  LET u == task[t].me
      pc == task[t].pc
  IN /\ pc \in JoinPc \cup OnlinePc \cup BeatPc \cup LeavePc \cup (GracePc \ {"grace"})
     /\ Left("failures") /\ Spend("failures")
     /\ unlisted' = IF pc \in {"delFlag", "sAdd"} THEN unlisted \cup {task[t].sock} ELSE unlisted
     /\ excused' = IF pc \in {"sCard", "exists", "mongoOn", "hSet"} /\ hash[u].status # "active"
                   THEN excused \cup {u} ELSE excused
     /\ torn' = IF pc \in {"expire", "hbExpire"} /\ hash[u].status # "none" /\ ~hash[u].ttl
                THEN torn \cup {u} ELSE torn
     /\ Return(t)
     /\ UNCHANGED <<people, presence, clients, raced, stale>>

(* Redis: the TTLs of the flag and of the hash.  While a socket is live a  *)
(* hash expires only when no heartbeat renews it for 30 s.                 *)
FlagExpires(u) ==
  /\ flag[u] # None
  /\ flag' = [flag EXCEPT ![u] = None]
  /\ UNCHANGED <<people, sock, members, hash, global, activity, task, clients, past, spent>>

Live(u) == \E s \in Sockets : Owner[s] = u /\ sock[s] = "live"
HashExpires(u) ==
  /\ hash[u].ttl
  /\ IF Live(u) THEN Left("expiries") /\ Spend("expiries") ELSE UNCHANGED spent
  /\ hash' = [hash EXCEPT ![u] = NoHash]
  /\ excused' = IF members[u] # {} THEN excused \cup {u} ELSE excused
  /\ UNCHANGED <<people, sock, members, flag, global, activity, task, clients, raced, stale, torn, unlisted>>

(* A replica dies with its sockets, handlers and timers. *)
Crash(n) ==
  /\ Left("crashes") /\ Spend("crashes")
  /\ sock' = [s \in Sockets |-> IF Home[s] = n /\ sock[s] = "live" THEN "lost" ELSE sock[s]]
  /\ task' = [t \in Tasks |-> IF Place[t] = n THEN Idle ELSE task[t]]
  /\ torn' = torn \cup {u \in Users : /\ ~hash[u].ttl /\ hash[u].status # "none"
                                      /\ \E t \in Tasks : Place[t] = n /\ task[t].me = u
                                           /\ task[t].pc \in {"expire", "hbExpire"}}
  /\ raced' = raced \cup {Pair(task[t].me, task[t].peer) :
                            t \in {o \in Tasks : Place[o] = n /\ task[o].pc \in FriendPc}}
  /\ stale' = stale \cup {task[t].me : t \in {o \in Tasks : Place[o] = n /\ task[o].pc = "proDrop"}}
  /\ excused' = excused \cup {task[t].me : t \in {o \in Tasks : Place[o] = n
                                                  /\ task[o].pc \in {"exists", "mongoOn", "hSet"}}}
  /\ UNCHANGED <<people, members, flag, hash, global, activity, clients, unlisted>>

-----------------------------------------------------------------------------
(* Friend requests *)

(* A handler on a pair is raced when another one works on the pair, an     *)
(* event about it is still on its way, or a page of one is loading.        *)
Listing == {"listExists", "listRead", "listFill", "listMark", "listMembers"}
StartFriend(t, pc, u, v) ==
  /\ u # v
  /\ Start(t, pc, u, v, None)
  /\ raced' = IF FriendBusy(u, v) \/ Reading(u, Listing) \/ Reading(v, Listing) THEN raced \cup {Pair(u, v)} ELSE raced
  /\ UNCHANGED <<people, presence, clients, stale, excused, torn, unlisted>>

SendRequest(t, u, v) == u \in Befriend /\ StartFriend(t, "reqRead", u, v)
AcceptRequest(t, u, v) == v \in Befriend /\ StartFriend(t, "accRead", u, v)
RejectRequest(t, u, v) == v \in Befriend /\ StartFriend(t, "rejPull", u, v)
RemoveFriend(t, u, v) == v \in friends[u] \cup view[u] /\ StartFriend(t, "remRead", u, v)

Post(box, u, kind, about) == [box EXCEPT ![u] = @ (+) SetToBag({[kind |-> kind, peer |-> about]})]

(* sendFriendRequest: one already sent, or a friend, is refused. *)
RequestRead(t) ==
  LET u == task[t].me  v == task[t].peer
  IN /\ At(t, "reqRead")
     /\ IF BagIn(u, requests[v]) \/ u \in friends[v] THEN Return(t) ELSE Goto(t, "reqPush")
     /\ UNCHANGED <<people, presence, clients, past, spent>>

RequestPush(t) ==
  LET u == task[t].me  v == task[t].peer
  IN /\ At(t, "reqPush")
     /\ requests' = [requests EXCEPT ![v] = @ (+) SetToBag({u})]
     /\ Return(t)
     /\ UNCHANGED <<friends, profile, redis, presence, clients, past, spent>>

(* accceptFriendRequest: the request is taken away first, and both lists   *)
(* are then written side by side, Mongo before Redis.                      *)
AcceptRead(t) ==
  /\ At(t, "accRead")
  /\ IF BagIn(task[t].peer, requests[task[t].me]) THEN Goto(t, "accPull") ELSE Return(t)
  /\ UNCHANGED <<people, presence, clients, past, spent>>

Without(bag, x) == [y \in DOMAIN bag \ {x} |-> bag[y]]
AcceptPull(t) ==
  LET u == task[t].me  v == task[t].peer
  IN /\ At(t, "accPull")
     /\ requests' = [requests EXCEPT ![u] = Without(@, v)]
     /\ task' = [task EXCEPT ![t] = [@ EXCEPT !.pc = "accMongo", !.todo = {u, v}]]
     /\ UNCHANGED <<friends, profile, redis, presence, clients, past, spent>>

(* The next of two side-by-side commands, for user x of the pair. *)
Other(t, x) == CHOOSE y \in {task[t].me, task[t].peer} : y # x
Advance(t, x, next) ==
  task' = [task EXCEPT ![t] = IF @.todo = {x}
             THEN [@ EXCEPT !.pc = next, !.todo = {task[t].me, task[t].peer}]
             ELSE [@ EXCEPT !.todo = task[t].todo \ {x}]]

AcceptMongo(t, x) ==
  /\ At(t, "accMongo") /\ x \in task[t].todo
  /\ friends' = [friends EXCEPT ![x] = @ \cup {Other(t, x)}]
  /\ Advance(t, x, "accCache")
  /\ UNCHANGED <<requests, profile, redis, presence, clients, past, spent>>

(* SADD creates a missing key with the one new friend in it, and readers   *)
(* take that one for all the friends of x.                                 *)
AcceptCache(t, x) ==
  /\ At(t, "accCache") /\ x \in task[t].todo
  /\ cache' = [cache EXCEPT ![x] = @ \cup {Other(t, x)}]
  /\ stale' = IF cache[x] = {} /\ friends[x] \ {Other(t, x)} # {} THEN stale \cup {x} ELSE stale
  /\ Advance(t, x, "accEmit")
  /\ UNCHANGED <<friends, requests, profile, mayEnd, cached, presence, clients, raced, excused, torn, unlisted, spent>>

(* Redis refuses one of the commands: the handler answers 500 and tells    *)
(* nobody of the friendship it has stored.                                 *)
AcceptFails(t, x) ==
  /\ At(t, "accCache") /\ x \in task[t].todo /\ Left("failures") /\ Spend("failures")
  /\ raced' = raced \cup {Pair(task[t].me, task[t].peer)}
  /\ Return(t)
  /\ UNCHANGED <<people, presence, clients, stale, excused, torn, unlisted>>

AcceptEmit(t) ==
  LET u == task[t].me  v == task[t].peer
  IN /\ At(t, "accEmit")
     /\ inbox' = Post(Post(inbox, v, "accepted", u), u, "accepted", v)
     /\ Return(t)
     /\ UNCHANGED <<people, presence, view, past, spent>>

(* rejectFriendRequest takes the request away, whether there is one or not. *)
RejectPull(t) ==
  LET u == task[t].me  v == task[t].peer
  IN /\ At(t, "rejPull")
     /\ requests' = [requests EXCEPT ![u] = Without(@, v)]
     /\ Return(t)
     /\ UNCHANGED <<friends, profile, redis, presence, clients, past, spent>>

(* removeFriend: done already when the caller's own list lacks the friend. *)
RemoveRead(t) ==
  /\ At(t, "remRead")
  /\ task' = [task EXCEPT ![t] = IF task[t].peer \in friends[task[t].me]
                                 THEN [@ EXCEPT !.pc = "remMongo", !.todo = {task[t].me, task[t].peer}] ELSE Idle]
  /\ UNCHANGED <<people, presence, clients, past, spent>>

(* A reader that has read the list before this removal is going to put the *)
(* removed friend back into the cache.                                     *)
RemoveMongo(t, x) ==
  /\ At(t, "remMongo") /\ x \in task[t].todo
  /\ friends' = [friends EXCEPT ![x] = @ \ {Other(t, x)}]
  /\ requests' = [requests EXCEPT ![x] = Without(@, Other(t, x))]
  /\ stale' = IF Reading(x, {"listFill"}) THEN stale \cup {x} ELSE stale
  /\ Advance(t, x, "remCache")
  /\ UNCHANGED <<profile, redis, presence, clients, raced, excused, torn, unlisted, spent>>

(* Mutant: only the caller's own set is updated. *)
RemoveCacheOwn(t, x) ==
  /\ At(t, "remCache") /\ x \in task[t].todo
  /\ cache' = IF x = task[t].me THEN [cache EXCEPT ![x] = @ \ {Other(t, x)}] ELSE cache
  /\ mayEnd' = {u \in mayEnd : cache'[u] # {}}
  /\ Advance(t, x, "remEmit")
  /\ UNCHANGED <<friends, requests, profile, cached, presence, clients, past, spent>>

(* A set that loses its last member is gone, and its TTL with it. *)
RemoveCache(t, x) ==
  /\ At(t, "remCache") /\ x \in task[t].todo
  /\ cache' = [cache EXCEPT ![x] = @ \ {Other(t, x)}]
  /\ mayEnd' = {u \in mayEnd : cache'[u] # {}}
  /\ Advance(t, x, "remEmit")
  /\ UNCHANGED <<friends, requests, profile, cached, presence, clients, past, spent>>

(* A failing SREM is logged and forgotten: the set keeps the friend. *)
RemoveFails(t, x) ==
  /\ At(t, "remCache") /\ x \in task[t].todo /\ Left("failures") /\ Spend("failures")
  /\ stale' = stale \cup {x}
  /\ Advance(t, x, "remEmit")
  /\ UNCHANGED <<people, presence, clients, raced, excused, torn, unlisted>>

RemoveEmit(t) ==
  LET u == task[t].me  v == task[t].peer
  IN /\ At(t, "remEmit")
     /\ inbox' = Post(Post(inbox, u, "removed", v), v, "removed", u)
     /\ Return(t)
     /\ UNCHANGED <<people, presence, view, past, spent>>

(* A page applies the events it gets, in any order: they come from several *)
(* replicas.  Only the isFriend flag is kept here.                         *)
Receive(u, e) ==
  /\ BagIn(e, inbox[u])
  /\ inbox' = [inbox EXCEPT ![u] = @ (-) SetToBag({e})]
  /\ view' = [view EXCEPT ![u] = IF e.kind = "accepted" THEN @ \cup {e.peer} ELSE @ \ {e.peer}]
  /\ UNCHANGED <<people, presence, task, past, spent>>

-----------------------------------------------------------------------------
(* The readers of the friend set and of the profile *)

(* A page loads its sidebar: getSidebarUsers takes the friends from        *)
(* getFriendIdsFromCache, and the page replaces its list by the answer.    *)
ListFriends(t, u) ==
  /\ Start(t, "listExists", u, None, None)
  /\ raced' = raced \cup {Pair(u, v) : v \in {w \in Users \ {u} : FriendBusy(u, w)}}
  /\ UNCHANGED <<people, presence, clients, stale, excused, torn, unlisted>>

Answer(t, ids) == view' = [view EXCEPT ![task[t].me] = ids]

ListExists(t) ==
  /\ At(t, "listExists")
  /\ IF cache[task[t].me] = {} THEN Goto(t, "listRead") ELSE Goto(t, "listMembers")
  /\ UNCHANGED <<people, presence, clients, past, spent>>

(* SMEMBERS: the answer leaves the marker out, and is empty for a set that *)
(* has expired since EXISTS.                                               *)
ListMembers(t) ==
  LET u == task[t].me
  IN /\ At(t, "listMembers")
     /\ Answer(t, cache[u] \ {NoFriends})
     /\ stale' = IF cache[u] = {} THEN stale \cup {u} ELSE stale
     /\ Return(t)
     /\ UNCHANGED <<people, presence, inbox, raced, excused, torn, unlisted, spent>>

ListRead(t) ==
  /\ At(t, "listRead")
  /\ task' = [task EXCEPT ![t] = [@ EXCEPT !.pc = "listFill", !.seen = friends[task[t].me]]]
  /\ UNCHANGED <<people, presence, clients, past, spent>>

ListFill(t) ==
  LET u == task[t].me  ids == task[t].seen
  IN /\ At(t, "listFill")
     /\ cache' = [cache EXCEPT ![u] = @ \cup IF ids = {} THEN {NoFriends} ELSE ids]
     /\ IF ids = {} THEN Goto(t, "listMark") /\ UNCHANGED view ELSE Return(t) /\ Answer(t, ids)
     /\ UNCHANGED <<friends, requests, profile, mayEnd, cached, presence, inbox, past, spent>>

(* The TTL of the marker is a TTL of the whole set. *)
ListMark(t) ==
  /\ At(t, "listMark")
  /\ mayEnd' = IF cache[task[t].me] # {} THEN mayEnd \cup {task[t].me} ELSE mayEnd
  /\ Answer(t, {})
  /\ Return(t)
  /\ UNCHANGED <<friends, requests, profile, cache, cached, presence, inbox, past, spent>>

SetExpires(u) ==
  /\ u \in mayEnd
  /\ cache' = [cache EXCEPT ![u] = {}] /\ mayEnd' = mayEnd \ {u}
  /\ UNCHANGED <<friends, requests, profile, cached, presence, task, clients, past, spent>>

(* getCachedUserProfile: cache-aside. *)
ReadProfile(t, u) ==
  /\ Start(t, "proGet", u, None, None)
  /\ UNCHANGED <<people, presence, clients, past>>

ProfileGet(t) ==
  /\ At(t, "proGet")
  /\ IF cached[task[t].me] = None THEN Goto(t, "proRead") ELSE Return(t)
  /\ UNCHANGED <<people, presence, clients, past, spent>>

ProfileRead(t) ==
  /\ At(t, "proRead")
  /\ task' = [task EXCEPT ![t] = [@ EXCEPT !.pc = "proFill", !.ver = profile[task[t].me]]]
  /\ UNCHANGED <<people, presence, clients, past, spent>>

ProfileFill(t) ==
  /\ At(t, "proFill")
  /\ cached' = [cached EXCEPT ![task[t].me] = task[t].ver]
  /\ Return(t)
  /\ UNCHANGED <<friends, requests, profile, cache, mayEnd, presence, clients, past, spent>>

(* updateUserProfile: Mongo, then the key is deleted.  A reader between    *)
(* its read and its SETEX puts the old profile back.                       *)
EditProfile(t, u) ==
  /\ profile[u] < MaxEdits
  /\ Start(t, "proWrite", u, None, None)
  /\ UNCHANGED <<people, presence, clients, past>>

ProfileWrite(t) ==
  LET u == task[t].me
  IN /\ At(t, "proWrite") /\ profile[u] < MaxEdits
     /\ profile' = [profile EXCEPT ![u] = @ + 1]
     /\ stale' = IF Reading(u, {"proFill"}) THEN stale \cup {u} ELSE stale
     /\ Goto(t, "proDrop")
     /\ UNCHANGED <<friends, requests, redis, presence, clients, raced, excused, torn, unlisted, spent>>

ProfileDrop(t) ==
  /\ At(t, "proDrop")
  /\ cached' = [cached EXCEPT ![task[t].me] = None]
  /\ Return(t)
  /\ UNCHANGED <<friends, requests, profile, cache, mayEnd, presence, clients, past, spent>>

(* DEL fails, is logged and forgotten; and the TTL of 900 s. *)
DropFails(t) ==
  /\ At(t, "proDrop") /\ Left("failures") /\ Spend("failures")
  /\ stale' = stale \cup {task[t].me}
  /\ Return(t)
  /\ UNCHANGED <<people, presence, clients, raced, excused, torn, unlisted>>

ProfileExpires(u) ==
  /\ cached[u] # None
  /\ cached' = [cached EXCEPT ![u] = None]
  /\ UNCHANGED <<friends, requests, profile, cache, mayEnd, presence, task, clients, past, spent>>

-----------------------------------------------------------------------------
PresenceStep(t) ==
  \/ DelFlag(t) \/ Register(t) \/ CountIn(t)
  \/ OnlineExists(t) \/ OnlineMongo(t) \/ OnlineHash(t) \/ OnlineExpire(t) \/ OnlineGlobal(t)
  \/ BeatExists(t) \/ BeatSet(t) \/ BeatExpire(t)
  \/ Unregister(t) \/ CountOut(t) \/ SetFlag(t) \/ GraceOver(t) \/ GetFlag(t) \/ FinalCount(t)
  \/ OfflineMongo(t) \/ OfflineHash(t) \/ OfflineGlobal(t)

FriendStep(t) ==
  \/ RequestRead(t) \/ RequestPush(t)
  \/ AcceptRead(t) \/ AcceptPull(t) \/ AcceptEmit(t)
  \/ RejectPull(t) \/ RemoveRead(t) \/ RemoveEmit(t)
  \/ \E x \in Users : AcceptMongo(t, x) \/ AcceptCache(t, x) \/ RemoveMongo(t, x) \/ RemoveCache(t, x)

ReaderStep(t) ==
  \/ ListExists(t) \/ ListMembers(t) \/ ListRead(t) \/ ListFill(t) \/ ListMark(t)
  \/ ProfileGet(t) \/ ProfileRead(t) \/ ProfileFill(t) \/ ProfileWrite(t) \/ ProfileDrop(t)

Begin(t) ==
  \/ \E s \in Sockets : Connect(t, s) \/ Heartbeat(t, s) \/ Disconnect(t, s)
  \/ \E u \in Readers : ListFriends(t, u) \/ ReadProfile(t, u) \/ EditProfile(t, u)
  \/ \E u, v \in Users :
       SendRequest(t, u, v) \/ AcceptRequest(t, u, v) \/ RejectRequest(t, u, v) \/ RemoveFriend(t, u, v)

Fails(t) == PresenceFails(t) \/ DropFails(t) \/ \E x \in Users : AcceptFails(t, x) \/ RemoveFails(t, x)
Expires(u) == FlagExpires(u) \/ HashExpires(u) \/ SetExpires(u) \/ ProfileExpires(u)

Next ==
  \/ \E t \in Tasks : Begin(t) \/ PresenceStep(t) \/ FriendStep(t) \/ ReaderStep(t) \/ Fails(t)
  \/ \E u \in Users : Expires(u)
  \/ \E u \in Users, e \in Event : Receive(u, e)
  \/ \E n \in Nodes : Crash(n)

Spec == Init /\ [][Next]_vars

(* Redis drops what has expired, every command is answered or fails, and   *)
(* timers fire.                                                            *)
FairSpec ==
  /\ Spec
  /\ \A t \in Tasks : WF_vars(PresenceStep(t))
  /\ \A u \in Users : WF_vars(FlagExpires(u)) /\ WF_vars(HashExpires(u))

-----------------------------------------------------------------------------
Resting(u) == \A t \in Tasks : task[t].me # u /\ task[t].peer # u
Quiet(u, v) == Resting(u) /\ Resting(v) /\ ~FriendBusy(u, v)

(* Two users' lists in Mongo, the cached sets and the flags in their pages *)
(* agree on whether they are friends, and a cached profile is the stored   *)
(* one, once all handlers are done, unless two handlers met, a crash cut   *)
(* one short, a reader of the lists met a removal or the end of a TTL, a   *)
(* set that had expired began again with one new friend, or Redis refused  *)
(* a command (friendCacheService.js, userController.js,                    *)
(* useFriendSocket.js, cacheService.js).                                   *)
FriendsAgree ==
  \A u, v \in Users :
    /\ (u # v /\ Quiet(u, v) /\ Pair(u, v) \notin raced) =>
         /\ v \in friends[u] <=> u \in friends[v]
         /\ u \notin stale => /\ v \in view[u] <=> v \in friends[u]
                              /\ v \in cache[u] => v \in friends[u]
    /\ Resting(u) /\ u \notin stale => cached[u] \in {None, profile[u]}

(* A user is present while one of his tabs is live and in his set of       *)
(* sockets, unless two tabs registered at once, a socket id was leaked, a  *)
(* tab registered between the last read of a grace timer and its write,    *)
(* the hash expired while a socket was registered, or the handler that was *)
(* to write the hash died with its replica or had its SCARD, EXISTS, HSET  *)
(* or Mongo update fail.  A tab whose addNewUser failed before its SADD is *)
(* in no set and does not count (presenceHandler.js, presenceService.js).  *)
Present(u) == hash[u].status = "active"
Tab(u, s) == Owner[s] = u /\ sock[s] = "live" /\ s \notin unlisted
PresenceKept ==
  /\ TypeOK
  /\ \A u \in Users :
       Resting(u) /\ (\E s \in Sockets : Tab(u, s)) /\ ~Present(u) => u \in excused

(* A user without a tab does not stay present, whatever crashed or failed, *)
(* unless the EXPIRE after a HSET fell to a crash or a failure             *)
(* (presenceService.js, "Ghost Online Fix").                               *)
GhostGone == \A u \in Users : ~Live(u) ~> (hash[u].status = "none" \/ Live(u) \/ u \in torn)
=============================================================================
