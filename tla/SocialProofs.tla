---------------------------- MODULE SocialProofs ----------------------------
(***************************************************************************)
(* Proofs about Social: a tab that has registered keeps its user present   *)
(* (PresenceKept), and lists, cached sets, pages and cached profiles agree *)
(* once everything is quiet (FriendsAgree), for any number of users,       *)
(* sockets, replicas and handlers.                                         *)
(***************************************************************************)
EXTENDS Social, FiniteSetTheorems, TLAPS

TaskType == [pc : Pc, me : Users \cup {None}, peer : Users \cup {None},
             sock : Sockets \cup {None}, todo : SUBSET Users,
             seen : SUBSET (Users \cup Sockets), ver : 0..MaxEdits, ok : BOOLEAN]

(* What a handler in flight knows of its users and its socket.             *)
TabPc == JoinPc \cup {"sRem"}
SidePc == {"accMongo", "accCache", "remMongo", "remCache"}
Shape(r, t, ss) ==
  /\ r.pc # "idle" => r.me \in Users
  /\ r.pc \in FriendPc => r.peer \in Users /\ r.peer # r.me
  /\ r.pc \in SidePc => r.todo \subseteq {r.me, r.peer}
  /\ r.pc \in TabPc => /\ r.sock \in Sockets /\ r.me = Owner[r.sock]
                       /\ Place[t] = Home[r.sock] /\ ss[r.sock] # "new"
  /\ r.pc = "sRem" => ss[r.sock] # "live"
  /\ r.pc \in {"mongoOff", "delHash"} => r.seen = {}
  /\ r.pc = "listFill" => r.seen \subseteq Users

PeopleTypes ==
  /\ friends \in [Users -> SUBSET Users]
  /\ requests = [u \in Users |-> requests[u]]
  /\ \A u \in Users : DOMAIN requests[u] \subseteq Users /\ IsABag(requests[u])
  /\ cache \in [Users -> SUBSET (Users \cup {NoFriends})] /\ mayEnd \subseteq Users
  /\ \A u \in mayEnd : cache[u] # {}
  /\ profile \in [Users -> 0..MaxEdits] /\ cached \in [Users -> (0..MaxEdits) \cup {None}]
PresenceTypes ==
  /\ sock \in [Sockets -> {"new", "live", "closed", "lost"}]
  /\ members \in [Users -> SUBSET Sockets] /\ \A u \in Users : \A s \in members[u] : Owner[s] = u
  /\ flag \in [Users -> Tasks \cup {None}] /\ hash \in [Users -> Hash]
  /\ \A u \in Users : hash[u].status = "none" => ~hash[u].ttl
  /\ global \subseteq Users /\ activity \in [Users -> {"active", "offline"}]
TaskTypes == task \in [Tasks -> TaskType] /\ \A t \in Tasks : Shape(task[t], t, sock)
ClientTypes ==
  /\ inbox = [u \in Users |-> inbox[u]]
  /\ \A u \in Users : BagToSet(inbox[u]) \subseteq Event /\ IsABag(inbox[u])
  /\ view \in [Users -> SUBSET Users]
PastTypes ==
  /\ raced \subseteq SUBSET Users /\ stale \subseteq Users /\ excused \subseteq Users /\ torn \subseteq Users
  /\ unlisted \subseteq Sockets
SpentTypes ==
  spent \in [events : 0..MaxEvents, failures : 0..MaxFailures,
             expiries : 0..MaxExpiries, crashes : 0..MaxCrashes]

Types == PeopleTypes /\ PresenceTypes /\ TaskTypes /\ ClientTypes /\ PastTypes /\ SpentTypes

-----------------------------------------------------------------------------
(* Presence.  A live tab is a member of its user's set, is still to        *)
(* register, or failed to.                                                 *)
Registered ==
  \A s \in Sockets :
    /\ sock[s] = "live" =>
         \/ s \in members[Owner[s]] \/ s \in unlisted
         \/ \E t \in Tasks : task[t].sock = s /\ task[t].pc \in {"delFlag", "sAdd"}
    /\ \A u \in Users : s \in members[u] => sock[s] # "new"

(* When the hash of a user is not active, either a handler is about to     *)
(* write it, or every member is an id that nobody will remove or belongs   *)
(* to a tab that is about to count the members.                            *)
Writing == {"exists", "mongoOn", "hSet"}
LostId(s) ==
  sock[s] # "live" /\ ~ \E t \in Tasks : task[t].sock = s /\ task[t].pc = "sRem"
Counting(s) == \E t \in Tasks : task[t].sock = s /\ task[t].pc = "sCard"
Covered ==
  \A u \in Users :
    u \notin excused /\ hash[u].status # "active" =>
      \/ \E t \in Tasks : task[t].me = u /\ task[t].pc \in Writing
      \/ \A s \in members[u] : LostId(s) \/ Counting(s)

PresenceInv == Types /\ Registered /\ Covered

-----------------------------------------------------------------------------
(* Friendship.  On a pair that is not raced at most one handler works, no  *)
(* event about it is on its way meanwhile, and no page of the two loads    *)
(* its list meanwhile, or while such an event is on its way.               *)
On(t, u, v) == task[t].pc \in FriendPc /\ {task[t].me, task[t].peer} = {u, v}
News(u, v) == \E e \in Event : e.peer = v /\ BagIn(e, inbox[u])
Clear(u, v) == u # v /\ Pair(u, v) \notin raced
AloneAt(u, v) ==
  /\ \A t, o \in Tasks : On(t, u, v) /\ On(o, u, v) => t = o
  /\ \A t \in Tasks : On(t, u, v) => ~News(u, v) /\ ~Reading(u, Listing)
  /\ News(u, v) => ~Reading(u, Listing) /\ ~Reading(v, Listing)

(* Until a handler's first write to the lists of the pair these agree;     *)
(* then each user's list has been written or is still to do.               *)
Early == {"reqRead", "reqPush", "accRead", "accPull", "rejPull", "remRead"}
Before(u, v) == \A t \in Tasks : On(t, u, v) => task[t].pc \in Early
ListsAt(u, v) ==
  /\ Before(u, v) => (v \in friends[u] <=> u \in friends[v])
  /\ \A t \in Tasks : On(t, u, v) =>
       /\ task[t].pc = "accMongo" /\ u \notin task[t].todo => v \in friends[u]
       /\ task[t].pc \in {"accCache", "accEmit"} => v \in friends[u]
       /\ task[t].pc = "remMongo" /\ u \notin task[t].todo => v \notin friends[u]
       /\ task[t].pc \in {"remCache", "remEmit"} => v \notin friends[u]

(* An event on its way says what the lists say.                            *)
ToldAt(u, v) ==
  \A e \in Event : e.peer = v /\ BagIn(e, inbox[u]) => (e.kind = "accepted" <=> v \in friends[u])

(* A set that is there is exact, unless the handler at work on the pair    *)
(* has still to write it.                                                  *)
CacheDue(t, u) ==
  \/ task[t].pc \in {"accMongo", "remMongo"}
  \/ task[t].pc \in {"accCache", "remCache"} /\ u \in task[t].todo
Written(u, v) == \A t \in Tasks : On(t, u, v) => ~CacheDue(t, u)
CacheAt(u, v) ==
  u \notin stale /\ cache[u] # {} /\ Written(u, v) => (v \in cache[u] <=> v \in friends[u])

(* A page, and a reader on the way to one, hold what the list says.        *)
PageAt(u, v) ==
  /\ u \notin stale /\ Before(u, v) /\ ~News(u, v) => (v \in view[u] <=> v \in friends[u])
  /\ \A t \in Tasks : task[t].me = u =>
       /\ task[t].pc = "listFill" => (v \in task[t].seen <=> v \in friends[u])
       /\ task[t].pc = "listMark" => v \notin friends[u]

PairInv(u, v) ==
  Clear(u, v) => AloneAt(u, v) /\ ListsAt(u, v) /\ ToldAt(u, v) /\ CacheAt(u, v) /\ PageAt(u, v)

(* A cached profile is the stored one unless a writer is about to drop it. *)
ProfileExact ==
  \A u \in Users : u \notin stale =>
    /\ cached[u] \notin {None, profile[u]} =>
         \E t \in Tasks : task[t].me = u /\ task[t].pc = "proDrop"
    /\ \A t \in Tasks : task[t].me = u /\ task[t].pc = "proFill" => task[t].ver = profile[u]

FriendInv == Types /\ (\A u, v \in Users : PairInv(u, v)) /\ ProfileExact

-----------------------------------------------------------------------------
(* The types of the parts are the types of the whole.                      *)
LEMMA TypesSuffice == Types => TypeOK
BY DEF Types, PeopleTypes, PresenceTypes, TaskTypes, ClientTypes, PastTypes, SpentTypes, TypeOK, TaskType

(* A handler that is not running has the type of one.                      *)
LEMMA IdleType == Idle \in TaskType /\ Idle.pc = "idle"
BY BoundAssumption DEF Idle, TaskType, Pc

(* An idle handler knows nothing.                                          *)
LEMMA NoRole ==
  ASSUME NEW r, NEW t, NEW ss, r.pc = "idle"
  PROVE  Shape(r, t, ss)
BY DEF Shape, FriendPc, TabPc, JoinPc, SidePc

(* One handler moves and the others stay.                                  *)
LEMMA OneMoves ==
  ASSUME task \in [Tasks -> TaskType], NEW t \in Tasks, NEW r \in TaskType,
         task' = [task EXCEPT ![t] = r]
  PROVE  task' \in [Tasks -> TaskType] /\ task'[t] = r /\ \A o \in Tasks \ {t} : task'[o] = task[o]
OBVIOUS

(* A handler that goes on to its next command is what it was but for that. *)
LEMMA GoesOn ==
  ASSUME task \in [Tasks -> TaskType], NEW t \in Tasks, NEW pc \in Pc, Goto(t, pc)
  PROVE  /\ task' \in [Tasks -> TaskType] /\ \A o \in Tasks \ {t} : task'[o] = task[o]
         /\ task'[t].pc = pc /\ task'[t].me = task[t].me /\ task'[t].peer = task[t].peer
         /\ task'[t].sock = task[t].sock /\ task'[t].todo = task[t].todo
         /\ task'[t].seen = task[t].seen /\ task'[t].ver = task[t].ver /\ task'[t].ok = task[t].ok
BY DEF Goto, TaskType

(* A handler that is done is idle again.                                   *)
LEMMA GoesHome ==
  ASSUME task \in [Tasks -> TaskType], NEW t \in Tasks, Return(t)
  PROVE  /\ task' \in [Tasks -> TaskType] /\ \A o \in Tasks \ {t} : task'[o] = task[o]
         /\ task'[t] = Idle /\ task'[t].pc = "idle"
BY IdleType DEF Return

(* Shapes of the others are kept when the sockets stay.                    *)
LEMMA ShapesKept ==
  ASSUME TaskTypes, NEW t \in Tasks, task' \in [Tasks -> TaskType],
         \A o \in Tasks \ {t} : task'[o] = task[o], UNCHANGED sock, Shape(task'[t], t, sock)
  PROVE  TaskTypes'
BY DEF TaskTypes, Shape

(* A step of a handler of a family moves that handler within the family,   *)
(* with the users and the socket it has, or ends it.                       *)
Moves(t, pcs) ==
  /\ task' \in [Tasks -> TaskType] /\ \A o \in Tasks \ {t} : task'[o] = task[o]
  /\ task[t].pc \in pcs /\ task'[t].pc \in pcs \cup {"idle"}
  /\ task'[t].pc # "idle" =>
       task'[t].me = task[t].me /\ task'[t].peer = task[t].peer /\ task'[t].sock = task[t].sock

PresencePc == JoinPc \cup OnlinePc \cup BeatPc \cup LeavePc \cup GracePc

(* A step of a presence handler keeps the shape of its task: it enters     *)
(* mongoOff only after an empty count.                                     *)
LEMMA PresenceMoves ==
  ASSUME Types, NEW t \in Tasks, PresenceStep(t)
  PROVE  /\ Moves(t, PresencePc) /\ Shape(task'[t], t, sock)
         /\ UNCHANGED <<people, sock, clients, raced, stale, spent>>
<1>1. task \in [Tasks -> TaskType] /\ task[t] \in TaskType /\ Shape(task[t], t, sock)
  BY DEF Types, TaskTypes
<1> DEFINE Goal == /\ Moves(t, PresencePc) /\ Shape(task'[t], t, sock)
                   /\ UNCHANGED <<people, sock, clients, raced, stale, spent>>
<1> USE DEF PresencePc, JoinPc, OnlinePc, BeatPc, LeavePc, GracePc, FriendPc, Pc, TabPc, SidePc, Shape, Moves,
            presence, past, At
<1>2. CASE DelFlag(t)
  BY <1>1, <1>2, GoesOn DEF DelFlag
<1>3. CASE Register(t)
  BY <1>1, <1>3, GoesOn DEF Register
<1>4. CASE CountIn(t)
  BY <1>1, <1>4, GoesOn DEF CountIn
<1>5. CASE OnlineExists(t)
  BY <1>1, <1>5, GoesOn DEF OnlineExists
<1>6. CASE OnlineMongo(t)
  BY <1>1, <1>6, GoesOn DEF OnlineMongo
<1>7. CASE OnlineHash(t)
  BY <1>1, <1>7, GoesOn DEF OnlineHash
<1>8. CASE OnlineExpire(t)
  BY <1>1, <1>8, GoesOn DEF OnlineExpire
<1>9. CASE OnlineGlobal(t)
  BY <1>1, <1>9, GoesHome DEF OnlineGlobal
<1>10. CASE BeatExists(t)
  BY <1>1, <1>10, GoesHome, GoesOn DEF BeatExists
<1>11. CASE BeatSet(t)
  BY <1>1, <1>11, GoesOn DEF BeatSet
<1>12. CASE BeatExpire(t)
  BY <1>1, <1>12, GoesHome DEF BeatExpire
<1>13. CASE Unregister(t)
  BY <1>1, <1>13, GoesOn DEF Unregister
<1>14. CASE CountOut(t)
  BY <1>1, <1>14, GoesHome, GoesOn DEF CountOut
<1>15. CASE SetFlag(t)
  BY <1>1, <1>15, GoesOn DEF SetFlag
<1>16. CASE GraceOver(t)
  BY <1>1, <1>16, GoesOn DEF GraceOver
<1>17. CASE GetFlag(t)
  BY ZenonT(40), <1>1, <1>17, IdleType DEF GetFlag, TaskType
<1>18. CASE FinalCount(t)
  BY ZenonT(40), <1>1, <1>18, IdleType DEF FinalCount, TaskType
<1>19. CASE OfflineMongo(t)
  BY <1>1, <1>19, GoesOn DEF OfflineMongo
<1>20. CASE OfflineHash(t)
  BY <1>1, <1>20, GoesOn DEF OfflineHash
<1>21. CASE OfflineGlobal(t)
  BY <1>1, <1>21, GoesHome DEF OfflineGlobal
<1> QED
  BY <1>2, <1>3, <1>4, <1>5, <1>6, <1>7, <1>8, <1>9, <1>10, <1>11, <1>12, <1>13, <1>14, <1>15, <1>16, <1>17, <1>18, <1>19, <1>20, <1>21 DEF PresenceStep

(* EXPIRE changes the TTL of a hash that is there, and nothing else.       *)
LEMMA RenewedHash ==
  ASSUME hash \in [Users -> Hash], NEW u \in Users
  PROVE  /\ Renewed(u) \in [Users -> Hash]
         /\ \A w \in Users : Renewed(u)[w].status = hash[w].status
         /\ \A w \in Users \ {u} : Renewed(u)[w] = hash[w]
         /\ Renewed(u)[u].ttl <=> hash[u].status # "none"
         /\ \A w \in Users : (hash[w].status = "none" => ~hash[w].ttl) =>
                              (Renewed(u)[w].status = "none" => ~Renewed(u)[w].ttl)
<1> DEFINE there == (hash[u].status # "none")
<1>1. there \in BOOLEAN
  OBVIOUS
<1>2. Renewed(u) = [hash EXCEPT ![u] = [@ EXCEPT !.ttl = there]]
  BY Zenon DEF Renewed
<1>3. hash[u].status # "none" <=> there
  OBVIOUS
<1> HIDE DEF there
<1> QED
  BY <1>1, <1>2, <1>3 DEF Hash

(* The presence keys and the user rows keep their types.                   *)
LEMMA PresenceValues ==
  ASSUME Types, NEW t \in Tasks, PresenceStep(t)
  PROVE  PresenceTypes' /\ PastTypes'
<1>1. /\ PresenceTypes /\ PastTypes
      /\ task[t].pc # "idle" => task[t].me \in Users
      /\ task[t].pc \in TabPc => task[t].sock \in Sockets /\ task[t].me = Owner[task[t].sock]
  BY DEF Types, TaskTypes, Shape
<1>2. UNCHANGED <<sock, raced, stale>>
  BY PresenceMoves
<1> USE DEF PresenceTypes, PastTypes, At, Hash, NoHash, TabPc, JoinPc, presence, past
<1>3. CASE DelFlag(t)
  BY <1>1, <1>2, <1>3 DEF DelFlag
<1>4. CASE Register(t)
  BY <1>1, <1>2, <1>4 DEF Register
<1>5. CASE CountIn(t)
  BY <1>1, <1>2, <1>5 DEF CountIn
<1>6. CASE OnlineExists(t)
  BY <1>1, <1>2, <1>6 DEF OnlineExists
<1>7. CASE OnlineMongo(t)
  BY <1>1, <1>2, <1>7 DEF OnlineMongo
<1>8. CASE OnlineHash(t)
  BY <1>1, <1>2, <1>8 DEF OnlineHash
<1>9. CASE OnlineExpire(t)
  <2>1. task[t].me \in Users /\ hash' = Renewed(task[t].me) /\ torn' \subseteq torn
    BY <1>1, <1>9 DEF OnlineExpire
  <2>2. UNCHANGED <<members, flag, global, activity, excused, unlisted>>
    BY <1>9 DEF OnlineExpire
  <2>3. hash' \in [Users -> Hash]
    BY <1>1, <2>1, RenewedHash
  <2>4. \A u \in Users : hash'[u].status = "none" => ~hash'[u].ttl
    BY <1>1, <2>1, RenewedHash
  <2> QED
    BY <1>1, <1>2, <2>1, <2>2, <2>3, <2>4
<1>10. CASE OnlineGlobal(t)
  BY <1>1, <1>2, <1>10 DEF OnlineGlobal
<1>11. CASE BeatExists(t)
  BY <1>1, <1>2, <1>11 DEF BeatExists
<1>12. CASE BeatSet(t)
  BY <1>1, <1>2, <1>12 DEF BeatSet
<1>13. CASE BeatExpire(t)
  <2>1. task[t].me \in Users /\ hash' = Renewed(task[t].me) /\ torn' \subseteq torn
    BY <1>1, <1>13 DEF BeatExpire
  <2>2. UNCHANGED <<members, flag, global, activity, excused, unlisted>>
    BY <1>13 DEF BeatExpire
  <2>3. hash' \in [Users -> Hash]
    BY <1>1, <2>1, RenewedHash
  <2>4. \A u \in Users : hash'[u].status = "none" => ~hash'[u].ttl
    BY <1>1, <2>1, RenewedHash
  <2> QED
    BY <1>1, <1>2, <2>1, <2>2, <2>3, <2>4
<1>14. CASE Unregister(t)
  BY <1>1, <1>2, <1>14 DEF Unregister
<1>15. CASE CountOut(t)
  BY <1>1, <1>2, <1>15 DEF CountOut
<1>16. CASE SetFlag(t)
  BY <1>1, <1>2, <1>16 DEF SetFlag
<1>17. CASE GraceOver(t)
  BY <1>1, <1>2, <1>17 DEF GraceOver
<1>18. CASE GetFlag(t)
  BY <1>1, <1>2, <1>18 DEF GetFlag
<1>19. CASE FinalCount(t)
  BY <1>1, <1>2, <1>19 DEF FinalCount
<1>20. CASE OfflineMongo(t)
  BY <1>1, <1>2, <1>20 DEF OfflineMongo
<1>21. CASE OfflineHash(t)
  BY <1>1, <1>2, <1>21 DEF OfflineHash
<1>22. CASE OfflineGlobal(t)
  BY <1>1, <1>2, <1>22 DEF OfflineGlobal
<1> QED
  BY <1>3, <1>4, <1>5, <1>6, <1>7, <1>8, <1>9, <1>10, <1>11, <1>12, <1>13, <1>14, <1>15, <1>16, <1>17, <1>18, <1>19, <1>20, <1>21, <1>22 DEF PresenceStep

(* A step of a presence handler keeps the types.                           *)
LEMMA PresenceStepTypes ==
  ASSUME Types, NEW t \in Tasks, PresenceStep(t)
  PROVE  Types'
<1>1. /\ Moves(t, PresencePc) /\ Shape(task'[t], t, sock)
      /\ UNCHANGED <<people, sock, clients, raced, stale, spent>>
  BY PresenceMoves
<1>2. TaskTypes'
  BY <1>1, ShapesKept DEF Types, Moves
<1>3. PeopleTypes' /\ ClientTypes' /\ SpentTypes'
  BY <1>1 DEF Types, PeopleTypes, ClientTypes, SpentTypes, people, redis, clients
<1> QED
  BY <1>2, <1>3, PresenceValues DEF Types

-----------------------------------------------------------------------------
(* One more copy in a bag.                                                 *)
LEMMA BagGrows ==
  ASSUME NEW b, NEW e, IsABag(b)
  PROVE  IsABag(b (+) SetToBag({e})) /\ DOMAIN (b (+) SetToBag({e})) = DOMAIN b \cup {e}
BY DEF (+), SetToBag, IsABag

(* One copy fewer.                                                         *)
LEMMA BagShrinks ==
  ASSUME NEW b, NEW e, IsABag(b)
  PROVE  /\ IsABag(b (-) SetToBag({e}))
         /\ DOMAIN (b (-) SetToBag({e})) \subseteq DOMAIN b
         /\ DOMAIN b \ {e} \subseteq DOMAIN (b (-) SetToBag({e}))
BY DEF (-), SetToBag, IsABag

(* All copies gone.                                                        *)
LEMMA BagForgets ==
  ASSUME NEW b, NEW e, IsABag(b)
  PROVE  IsABag(Without(b, e)) /\ DOMAIN Without(b, e) \subseteq DOMAIN b
BY DEF Without, IsABag

(* Posting an event adds it to one box and leaves the others.              *)
BoxTypes(box) ==
  /\ box = [u \in Users |-> box[u]]
  /\ \A u \in Users : BagToSet(box[u]) \subseteq Event /\ IsABag(box[u])

(* The box of one user has one event more.                                 *)
LEMMA PostAdds ==
  ASSUME NEW box, BoxTypes(box), NEW u \in Users, NEW v \in Users, NEW kind \in {"accepted", "removed"}
  PROVE  /\ BoxTypes(Post(box, u, kind, v))
         /\ \A w \in Users \ {u} : Post(box, u, kind, v)[w] = box[w]
         /\ \A e : BagIn(e, Post(box, u, kind, v)[u]) <=>
                     BagIn(e, box[u]) \/ e = [kind |-> kind, peer |-> v]
<1> DEFINE e == [kind |-> kind, peer |-> v]
           new == box[u] (+) SetToBag({e})
<1>1. e \in Event
  BY DEF Event
<1>2. Post(box, u, kind, v) = [box EXCEPT ![u] = new]
  BY DEF Post
<1>3. IsABag(new) /\ DOMAIN new = DOMAIN box[u] \cup {e}
  BY BagGrows DEF BoxTypes
<1>4. Post(box, u, kind, v)[u] = new /\ \A w \in Users \ {u} : Post(box, u, kind, v)[w] = box[w]
  BY <1>2 DEF BoxTypes
<1>5. Post(box, u, kind, v) = [w \in Users |-> Post(box, u, kind, v)[w]]
  BY <1>2 DEF BoxTypes
<1> HIDE DEF e, new
<1>6. BoxTypes(Post(box, u, kind, v))
  BY <1>1, <1>3, <1>4, <1>5 DEF BoxTypes, BagToSet
<1> QED
  BY <1>3, <1>4, <1>6 DEF BagIn, BagToSet, e

-----------------------------------------------------------------------------
(* The other one of the pair that a handler works on.                      *)
LEMMA OtherOne ==
  ASSUME NEW t, task[t].me # task[t].peer, NEW x \in {task[t].me, task[t].peer}
  PROVE  Other(t, x) # x /\ {x, Other(t, x)} = {task[t].me, task[t].peer}
<1>1. \E y \in {task[t].me, task[t].peer} : y # x
  OBVIOUS
<1>2. Other(t, x) \in {task[t].me, task[t].peer} /\ Other(t, x) # x
  BY <1>1 DEF Other
<1> QED
  BY <1>2

(* One of two side-by-side commands: the handler goes on after the second. *)
LEMMA AdvanceMoves ==
  ASSUME Types, NEW t \in Tasks, task[t].pc \in SidePc, NEW x \in task[t].todo,
         NEW next \in FriendPc, Advance(t, x, next)
  PROVE  /\ task' \in [Tasks -> TaskType] /\ \A o \in Tasks \ {t} : task'[o] = task[o]
         /\ task'[t].me = task[t].me /\ task'[t].peer = task[t].peer /\ task'[t].sock = task[t].sock
         /\ task'[t].seen = task[t].seen /\ task'[t].ver = task[t].ver
         /\ \/ /\ task[t].todo = {x} /\ task'[t].pc = next
               /\ task'[t].todo = {task[t].me, task[t].peer}
            \/ task'[t].pc = task[t].pc /\ task'[t].todo = task[t].todo \ {x}
         /\ task'[t].pc \in FriendPc /\ Shape(task'[t], t, sock)
<1> DEFINE r == task[t]
           gone == [r EXCEPT !.pc = next, !.todo = {r.me, r.peer}]
           stays == [r EXCEPT !.todo = r.todo \ {x}]
<1>1. task \in [Tasks -> TaskType] /\ r \in TaskType /\ Shape(r, t, sock)
  BY DEF Types, TaskTypes
<1>2. r.pc \in FriendPc /\ r.me \in Users /\ r.peer \in Users /\ r.me # r.peer /\ r.todo \subseteq {r.me, r.peer}
  BY <1>1 DEF Shape, FriendPc, SidePc
<1>3. task' = [task EXCEPT ![t] = IF r.todo = {x} THEN gone ELSE stays]
  BY DEF Advance
<1>4. next \in Pc /\ next # "idle" /\ next \notin TabPc /\ next \notin {"mongoOff", "delHash", "sRem", "listFill"}
  BY DEF FriendPc, Pc, TabPc, JoinPc
<1>5. /\ gone \in TaskType /\ stays \in TaskType
      /\ gone.pc = next /\ gone.todo = {r.me, r.peer} /\ stays.pc = r.pc /\ stays.todo = r.todo \ {x}
      /\ gone.me = r.me /\ gone.peer = r.peer /\ gone.sock = r.sock /\ gone.seen = r.seen /\ gone.ver = r.ver
      /\ stays.me = r.me /\ stays.peer = r.peer /\ stays.sock = r.sock
      /\ stays.seen = r.seen /\ stays.ver = r.ver
  BY <1>1, <1>2, <1>4 DEF TaskType
<1>6. Shape(gone, t, sock) /\ Shape(stays, t, sock)
  BY <1>1, <1>2, <1>4, <1>5 DEF Shape
<1>7. /\ task' \in [Tasks -> TaskType] /\ \A o \in Tasks \ {t} : task'[o] = task[o]
      /\ task'[t] = IF r.todo = {x} THEN gone ELSE stays
  BY <1>1, <1>3, <1>5
<1> QED
  BY <1>2, <1>5, <1>6, <1>7

FriendFails(t) == \E x \in Users : AcceptFails(t, x) \/ RemoveFails(t, x)

(* A step of a handler of a pair keeps its users, and leaves the presence  *)
(* and the profiles alone.                                                 *)
LEMMA FriendMoves ==
  ASSUME Types, NEW t \in Tasks, FriendStep(t) \/ FriendFails(t)
  PROVE  /\ Moves(t, FriendPc) /\ Shape(task'[t], t, sock)
         /\ UNCHANGED <<profile, cached, presence, view, excused, torn, unlisted>>
<1>1. task \in [Tasks -> TaskType] /\ task[t] \in TaskType /\ Shape(task[t], t, sock)
  BY DEF Types, TaskTypes
<1> USE DEF JoinPc, FriendPc, Pc, TabPc, SidePc, Moves, past, people, redis, clients, At
<1>2. CASE RequestRead(t)
  BY <1>1, <1>2, GoesHome, GoesOn DEF RequestRead, Shape
<1>3. CASE RequestPush(t)
  BY <1>1, <1>3, GoesHome DEF RequestPush, Shape
<1>4. CASE AcceptRead(t)
  BY <1>1, <1>4, GoesHome, GoesOn DEF AcceptRead, Shape
<1>5. CASE AcceptPull(t)
  BY <1>1, <1>5, IdleType DEF AcceptPull, TaskType, Shape
<1>6. CASE AcceptEmit(t)
  BY <1>1, <1>6, GoesHome DEF AcceptEmit, Shape
<1>7. CASE RejectPull(t)
  BY <1>1, <1>7, GoesHome DEF RejectPull, Shape
<1>8. CASE RemoveRead(t)
  BY ZenonT(40), <1>1, <1>8, IdleType DEF RemoveRead, TaskType, Shape
<1>9. CASE RemoveEmit(t)
  BY <1>1, <1>9, GoesHome DEF RemoveEmit, Shape
<1>10. ASSUME NEW x \in Users, AcceptMongo(t, x) PROVE Moves(t, FriendPc) /\ Shape(task'[t], t, sock)
      /\ UNCHANGED <<profile, cached, presence, view, excused, torn, unlisted>>
  BY <1>1, <1>10, AdvanceMoves DEF AcceptMongo
<1>11. ASSUME NEW x \in Users, AcceptCache(t, x) PROVE Moves(t, FriendPc) /\ Shape(task'[t], t, sock)
      /\ UNCHANGED <<profile, cached, presence, view, excused, torn, unlisted>>
  BY <1>1, <1>11, AdvanceMoves DEF AcceptCache
<1>12. ASSUME NEW x \in Users, RemoveMongo(t, x) PROVE Moves(t, FriendPc) /\ Shape(task'[t], t, sock)
      /\ UNCHANGED <<profile, cached, presence, view, excused, torn, unlisted>>
  BY <1>1, <1>12, AdvanceMoves DEF RemoveMongo
<1>13. ASSUME NEW x \in Users, RemoveCache(t, x) PROVE Moves(t, FriendPc) /\ Shape(task'[t], t, sock)
      /\ UNCHANGED <<profile, cached, presence, view, excused, torn, unlisted>>
  BY <1>1, <1>13, AdvanceMoves DEF RemoveCache
<1>14. ASSUME NEW x \in Users, AcceptFails(t, x) PROVE Moves(t, FriendPc) /\ Shape(task'[t], t, sock)
      /\ UNCHANGED <<profile, cached, presence, view, excused, torn, unlisted>>
  BY <1>1, <1>14, GoesHome DEF AcceptFails, Shape
<1>15. ASSUME NEW x \in Users, RemoveFails(t, x) PROVE Moves(t, FriendPc) /\ Shape(task'[t], t, sock)
      /\ UNCHANGED <<profile, cached, presence, view, excused, torn, unlisted>>
  BY <1>1, <1>15, AdvanceMoves DEF RemoveFails
<1> QED
  BY <1>2, <1>3, <1>4, <1>5, <1>6, <1>7, <1>8, <1>9, <1>10, <1>11, <1>12, <1>13, <1>14, <1>15 DEF FriendStep, FriendFails

(* What is spent stays within its budget.                                  *)
LEMMA SpendKeeps ==
  ASSUME SpentTypes, NEW b \in {"events", "failures", "expiries", "crashes"}, Left(b), Spend(b)
  PROVE  SpentTypes'
<1>1. spent[b] + 1 \in 0..Budget[b] /\ spent' = [spent EXCEPT ![b] = spent[b] + 1]
  BY BoundAssumption DEF SpentTypes, Left, Spend, Budget
<1> QED
  BY <1>1 DEF SpentTypes, Budget

(* A command that fails ends its handler, and writes nothing else.         *)
LEMMA FailureMoves ==
  ASSUME Types, NEW t \in Tasks, PresenceFails(t)
  PROVE  /\ Types' /\ Moves(t, PresencePc) /\ task'[t] = Idle /\ task[t].me \in Users
         /\ UNCHANGED <<people, presence, clients, raced, stale>>
         /\ unlisted' = (IF task[t].pc \in {"delFlag", "sAdd"} THEN unlisted \cup {task[t].sock} ELSE unlisted)
         /\ excused \subseteq excused'
         /\ task[t].pc \in {"sCard"} \cup Writing /\ hash[task[t].me].status # "active" => task[t].me \in excused'
<1> DEFINE u == task[t].me
<1>1. /\ task \in [Tasks -> TaskType] /\ Shape(task[t], t, sock)
      /\ PastTypes /\ SpentTypes /\ PeopleTypes /\ PresenceTypes /\ ClientTypes
  BY DEF Types, TaskTypes
<1>2. /\ Return(t) /\ task[t].pc \in PresencePc /\ Left("failures") /\ Spend("failures")
      /\ UNCHANGED <<people, presence, clients, raced, stale>>
      /\ unlisted' = (IF task[t].pc \in {"delFlag", "sAdd"} THEN unlisted \cup {task[t].sock} ELSE unlisted)
      /\ excused' \in {excused, excused \cup {u}} /\ torn' \in {torn, torn \cup {u}}
      /\ task[t].pc \in {"sCard"} \cup Writing /\ hash[u].status # "active" => u \in excused'
  BY DEF PresenceFails, PresencePc, Writing
<1>3. /\ task' \in [Tasks -> TaskType] /\ \A o \in Tasks \ {t} : task'[o] = task[o]
      /\ task'[t] = Idle /\ task'[t].pc = "idle"
  BY <1>1, <1>2, GoesHome
<1>4. Moves(t, PresencePc)
  BY <1>2, <1>3 DEF Moves
<1>5. u \in Users /\ (task[t].pc \in {"delFlag", "sAdd"} => task[t].sock \in Sockets)
  BY <1>1, <1>2 DEF Shape, TabPc, PresencePc, JoinPc, OnlinePc, BeatPc, LeavePc, GracePc
<1>6. TaskTypes'
  BY <1>2, <1>3, NoRole, ShapesKept DEF presence, Types
<1>7. PastTypes'
  BY <1>1, <1>2, <1>5 DEF PastTypes
<1>8. SpentTypes'
  BY <1>1, <1>2, SpendKeeps
<1>9. PeopleTypes' /\ PresenceTypes' /\ ClientTypes'
  BY <1>1, <1>2 DEF PeopleTypes, PresenceTypes, ClientTypes, people, redis, presence, clients
<1> QED
  BY <1>2, <1>3, <1>4, <1>5, <1>6, <1>7, <1>8, <1>9 DEF Types

(* Taking a bag's copies, or adding one, keeps a user's requests a bag.    *)
LEMMA RequestsKept ==
  ASSUME PeopleTypes, NEW u \in Users, NEW b, IsABag(b), DOMAIN b \subseteq Users,
         requests' = [requests EXCEPT ![u] = b]
  PROVE  /\ requests' = [w \in Users |-> requests'[w]]
         /\ \A w \in Users : DOMAIN requests'[w] \subseteq Users /\ IsABag(requests'[w])
BY DEF PeopleTypes

(* A set that loses its last member loses its TTL.                         *)
LEMMA MayEndKept ==
  ASSUME PeopleTypes, mayEnd' = {u \in mayEnd : cache'[u] # {}}
  PROVE  mayEnd' \subseteq Users /\ \A u \in mayEnd' : cache'[u] # {}
BY DEF PeopleTypes

(* The lists, requests, sets and boxes keep their types.                   *)
LEMMA FriendValues ==
  ASSUME Types, NEW t \in Tasks, FriendStep(t) \/ FriendFails(t)
  PROVE  PeopleTypes' /\ BoxTypes(inbox)' /\ PastTypes' /\ SpentTypes'
<1>1. task[t].pc \in FriendPc /\ UNCHANGED <<profile, cached, excused, torn, unlisted>>
  BY FriendMoves DEF Moves
<1>2. /\ task[t].me \in Users /\ task[t].peer \in Users /\ task[t].me # task[t].peer
      /\ task[t].pc \in SidePc => task[t].todo \subseteq {task[t].me, task[t].peer}
  BY <1>1 DEF Types, TaskTypes, Shape, FriendPc
<1>3. PeopleTypes /\ PastTypes /\ BoxTypes(inbox) /\ SpentTypes
  BY DEF Types, ClientTypes, BoxTypes
<1>4. \A x \in task[t].todo : task[t].pc \in SidePc =>
        Other(t, x) \in Users /\ x \in Users
  BY <1>2, OtherOne
<1> DEFINE Goal == PeopleTypes' /\ BoxTypes(inbox)' /\ PastTypes' /\ SpentTypes'
<1> USE DEF past, people, redis, clients, At
<1>5. CASE RequestRead(t)
  BY <1>1, <1>3, <1>5 DEF RequestRead, PeopleTypes, BoxTypes, PastTypes, SpentTypes
<1>6. CASE AcceptRead(t)
  BY <1>1, <1>3, <1>6 DEF AcceptRead, PeopleTypes, BoxTypes, PastTypes, SpentTypes
<1>7. CASE RemoveRead(t)
  BY <1>1, <1>3, <1>7 DEF RemoveRead, PeopleTypes, BoxTypes, PastTypes, SpentTypes
<1>8. CASE RequestPush(t)
  <2>1. requests' = [requests EXCEPT ![task[t].peer] = requests[task[t].peer] (+) SetToBag({task[t].me})]
    BY <1>8 DEF RequestPush
  <2>2. /\ IsABag(requests[task[t].peer] (+) SetToBag({task[t].me}))
        /\ DOMAIN (requests[task[t].peer] (+) SetToBag({task[t].me})) \subseteq Users
    <3>1. IsABag(requests[task[t].peer]) /\ DOMAIN requests[task[t].peer] \subseteq Users
      BY <1>2, <1>3 DEF PeopleTypes
    <3>2. /\ IsABag(requests[task[t].peer] (+) SetToBag({task[t].me}))
          /\ DOMAIN (requests[task[t].peer] (+) SetToBag({task[t].me}))
               = DOMAIN requests[task[t].peer] \cup {task[t].me}
      BY <3>1, BagGrows
    <3> QED
      BY <1>2, <3>1, <3>2
  <2>3. UNCHANGED <<friends, cache, mayEnd, inbox, raced, stale, spent>>
    BY <1>8 DEF RequestPush
  <2>4. /\ requests' = [w \in Users |-> requests'[w]]
        /\ \A w \in Users : DOMAIN requests'[w] \subseteq Users /\ IsABag(requests'[w])
    BY <1>2, <1>3, <2>1, <2>2, RequestsKept
  <2> QED
    BY <1>1, <1>3, <2>3, <2>4 DEF PeopleTypes, BoxTypes, PastTypes, SpentTypes
<1>9. CASE AcceptPull(t)
  <2>1. requests' = [requests EXCEPT ![task[t].me] = Without(requests[task[t].me], task[t].peer)]
    BY <1>9 DEF AcceptPull
  <2>2. /\ IsABag(Without(requests[task[t].me], task[t].peer))
        /\ DOMAIN Without(requests[task[t].me], task[t].peer) \subseteq Users
    BY <1>2, <1>3, BagForgets DEF PeopleTypes
  <2>3. UNCHANGED <<friends, cache, mayEnd, inbox, raced, stale, spent>>
    BY <1>9 DEF AcceptPull
  <2>4. /\ requests' = [w \in Users |-> requests'[w]]
        /\ \A w \in Users : DOMAIN requests'[w] \subseteq Users /\ IsABag(requests'[w])
    BY <1>2, <1>3, <2>1, <2>2, RequestsKept
  <2> QED
    BY <1>1, <1>3, <2>3, <2>4 DEF PeopleTypes, BoxTypes, PastTypes, SpentTypes
<1>10. CASE RejectPull(t)
  <2>1. requests' = [requests EXCEPT ![task[t].me] = Without(requests[task[t].me], task[t].peer)]
    BY <1>10 DEF RejectPull
  <2>2. /\ IsABag(Without(requests[task[t].me], task[t].peer))
        /\ DOMAIN Without(requests[task[t].me], task[t].peer) \subseteq Users
    BY <1>2, <1>3, BagForgets DEF PeopleTypes
  <2>3. UNCHANGED <<friends, cache, mayEnd, inbox, raced, stale, spent>>
    BY <1>10 DEF RejectPull
  <2>4. /\ requests' = [w \in Users |-> requests'[w]]
        /\ \A w \in Users : DOMAIN requests'[w] \subseteq Users /\ IsABag(requests'[w])
    BY <1>2, <1>3, <2>1, <2>2, RequestsKept
  <2> QED
    BY <1>1, <1>3, <2>3, <2>4 DEF PeopleTypes, BoxTypes, PastTypes, SpentTypes
<1>11. CASE AcceptEmit(t)
  <2>1. inbox' = Post(Post(inbox, task[t].peer, "accepted", task[t].me), task[t].me, "accepted", task[t].peer)
    BY <1>11 DEF AcceptEmit
  <2>2. BoxTypes(Post(inbox, task[t].peer, "accepted", task[t].me))
    BY <1>2, <1>3, PostAdds
  <2>3. BoxTypes(inbox')
    BY <1>2, <2>1, <2>2, PostAdds
  <2>4. UNCHANGED <<friends, requests, cache, mayEnd, raced, stale, spent>>
    BY <1>11 DEF AcceptEmit
  <2> QED
    BY <1>1, <1>3, <2>3, <2>4 DEF PeopleTypes, BoxTypes, PastTypes, SpentTypes
<1>12. CASE RemoveEmit(t)
  <2>1. inbox' = Post(Post(inbox, task[t].me, "removed", task[t].peer), task[t].peer, "removed", task[t].me)
    BY <1>12 DEF RemoveEmit
  <2>2. BoxTypes(Post(inbox, task[t].me, "removed", task[t].peer))
    BY <1>2, <1>3, PostAdds
  <2>3. BoxTypes(inbox')
    BY <1>2, <2>1, <2>2, PostAdds
  <2>4. UNCHANGED <<friends, requests, cache, mayEnd, raced, stale, spent>>
    BY <1>12 DEF RemoveEmit
  <2> QED
    BY <1>1, <1>3, <2>3, <2>4 DEF PeopleTypes, BoxTypes, PastTypes, SpentTypes
<1>13. ASSUME NEW x \in Users, AcceptMongo(t, x) PROVE Goal
  BY <1>1, <1>3, <1>4, <1>13 DEF AcceptMongo, SidePc, PeopleTypes, BoxTypes, PastTypes, SpentTypes
<1>14. ASSUME NEW x \in Users, AcceptCache(t, x) PROVE Goal
  BY <1>1, <1>3, <1>4, <1>14 DEF AcceptCache, SidePc, PeopleTypes, BoxTypes, PastTypes, SpentTypes
<1>15. ASSUME NEW x \in Users, RemoveMongo(t, x) PROVE Goal
  <2>1. requests' = [requests EXCEPT ![x] = Without(requests[x], Other(t, x))]
    BY <1>15 DEF RemoveMongo
  <2>2. /\ IsABag(Without(requests[x], Other(t, x)))
        /\ DOMAIN Without(requests[x], Other(t, x)) \subseteq Users
    BY <1>3, BagForgets DEF PeopleTypes
  <2>3. UNCHANGED <<cache, mayEnd, inbox, raced, spent>> /\ friends' \in [Users -> SUBSET Users] /\ stale' \subseteq Users
    BY <1>3, <1>15 DEF RemoveMongo, PeopleTypes, PastTypes
  <2>4. /\ requests' = [w \in Users |-> requests'[w]]
        /\ \A w \in Users : DOMAIN requests'[w] \subseteq Users /\ IsABag(requests'[w])
    BY <1>3, <2>1, <2>2, RequestsKept
  <2> QED
    BY <1>1, <1>3, <2>3, <2>4 DEF PeopleTypes, BoxTypes, PastTypes, SpentTypes
<1>16. ASSUME NEW x \in Users, RemoveCache(t, x) PROVE Goal
  <2>1. UNCHANGED <<friends, requests, inbox, raced, stale, spent>> /\ cache' \in [Users -> SUBSET (Users \cup {NoFriends})]
    BY <1>3, <1>16 DEF RemoveCache, PeopleTypes
  <2>2. mayEnd' \subseteq Users /\ \A u \in mayEnd' : cache'[u] # {}
    BY <1>3, <1>16, MayEndKept DEF RemoveCache
  <2> QED
    BY <1>1, <1>3, <2>1, <2>2 DEF PeopleTypes, BoxTypes, PastTypes, SpentTypes
<1>17. ASSUME NEW x \in Users, AcceptFails(t, x) PROVE Goal
  <2>1. UNCHANGED <<friends, requests, cache, mayEnd, inbox, stale>> /\ raced' \subseteq SUBSET Users
    BY <1>2, <1>3, <1>17 DEF AcceptFails, PastTypes, Pair
  <2>2. SpentTypes'
    BY <1>3, <1>17, SpendKeeps DEF AcceptFails
  <2> QED
    BY <1>1, <1>3, <2>1, <2>2 DEF PeopleTypes, BoxTypes, PastTypes
<1>18. ASSUME NEW x \in Users, RemoveFails(t, x) PROVE Goal
  <2>1. UNCHANGED <<friends, requests, cache, mayEnd, inbox, raced>> /\ stale' \subseteq Users
    BY <1>2, <1>3, <1>18 DEF RemoveFails, PastTypes
  <2>2. SpentTypes'
    BY <1>3, <1>18, SpendKeeps DEF RemoveFails
  <2> QED
    BY <1>1, <1>3, <2>1, <2>2 DEF PeopleTypes, BoxTypes, PastTypes
<1> QED
  BY <1>5, <1>6, <1>7, <1>8, <1>9, <1>10, <1>11, <1>12, <1>13, <1>14, <1>15, <1>16, <1>17, <1>18 DEF FriendStep, FriendFails

(* A step of a handler of a pair keeps the types.                          *)
LEMMA FriendStepTypes ==
  ASSUME Types, NEW t \in Tasks, FriendStep(t) \/ FriendFails(t)
  PROVE  Types'
<1>1. /\ Moves(t, FriendPc) /\ Shape(task'[t], t, sock)
      /\ UNCHANGED <<presence, view, excused, torn, unlisted>>
  BY FriendMoves
<1>2. TaskTypes'
  BY <1>1, ShapesKept DEF Types, Moves, presence
<1>3. PresenceTypes'
  BY <1>1 DEF Types, PresenceTypes, presence
<1>4. ClientTypes'
  BY <1>1, FriendValues DEF Types, ClientTypes, BoxTypes
<1> QED
  BY <1>2, <1>3, <1>4, FriendValues DEF Types

-----------------------------------------------------------------------------
(* A step of a reader keeps its user, and leaves the presence and the      *)
(* documents of the lists alone.                                           *)
LEMMA ReaderMoves ==
  ASSUME Types, NEW t \in Tasks, ReaderStep(t) \/ DropFails(t)
  PROVE  /\ Moves(t, CachePc) /\ Shape(task'[t], t, sock)
         /\ UNCHANGED <<friends, requests, presence, inbox, raced, excused, torn, unlisted>>
<1>1. task \in [Tasks -> TaskType] /\ task[t] \in TaskType /\ Shape(task[t], t, sock)
  BY DEF Types, TaskTypes
<1>2. task[t].pc \in CachePc => /\ task[t].me \in Users /\ friends[task[t].me] \in SUBSET Users
                               /\ profile[task[t].me] \in 0..MaxEdits
  BY <1>1 DEF Types, PeopleTypes, Shape, CachePc
<1> USE DEF JoinPc, FriendPc, CachePc, Pc, TabPc, SidePc, Moves, Shape, past, people, redis, clients, At
<1>3. CASE ListExists(t)
  BY <1>1, <1>3, GoesOn DEF ListExists
<1>4. CASE ListMembers(t)
  BY <1>1, <1>4, GoesHome DEF ListMembers
<1>5. CASE ListRead(t)
  BY <1>1, <1>5, <1>2 DEF ListRead, TaskType
<1>6. CASE ListFill(t)
  BY <1>1, <1>6, GoesHome, GoesOn DEF ListFill
<1>7. CASE ListMark(t)
  BY <1>1, <1>7, GoesHome DEF ListMark
<1>8. CASE ProfileGet(t)
  BY <1>1, <1>8, GoesHome, GoesOn DEF ProfileGet
<1>9. CASE ProfileRead(t)
  BY <1>1, <1>9, <1>2 DEF ProfileRead, TaskType
<1>10. CASE ProfileFill(t)
  BY <1>1, <1>10, GoesHome DEF ProfileFill
<1>11. CASE ProfileWrite(t)
  BY <1>1, <1>11, GoesOn DEF ProfileWrite
<1>12. CASE ProfileDrop(t)
  BY <1>1, <1>12, GoesHome DEF ProfileDrop
<1>13. CASE DropFails(t)
  BY <1>1, <1>13, GoesHome DEF DropFails
<1> QED
  BY <1>3, <1>4, <1>5, <1>6, <1>7, <1>8, <1>9, <1>10, <1>11, <1>12, <1>13 DEF ReaderStep

(* The sets, profiles and pages keep their types.                          *)
LEMMA ReaderValues ==
  ASSUME Types, NEW t \in Tasks, ReaderStep(t) \/ DropFails(t)
  PROVE  /\ cache' \in [Users -> SUBSET (Users \cup {NoFriends})] /\ mayEnd' \subseteq Users
         /\ \A u \in mayEnd' : cache'[u] # {}
         /\ profile' \in [Users -> 0..MaxEdits] /\ cached' \in [Users -> (0..MaxEdits) \cup {None}]
         /\ view' \in [Users -> SUBSET Users] /\ stale' \subseteq Users /\ SpentTypes'
<1>1. task[t].me \in Users /\ task[t].seen \subseteq Users \cup Sockets /\ task[t].ver \in 0..MaxEdits
  <2>1. task[t].pc \in CachePc
    BY ReaderMoves DEF Moves
  <2> QED
    BY <2>1 DEF Types, TaskTypes, TaskType, Shape, CachePc
<1>2. /\ cache \in [Users -> SUBSET (Users \cup {NoFriends})] /\ mayEnd \subseteq Users
      /\ \A u \in mayEnd : cache[u] # {}
      /\ profile \in [Users -> 0..MaxEdits] /\ cached \in [Users -> (0..MaxEdits) \cup {None}]
      /\ view \in [Users -> SUBSET Users] /\ stale \subseteq Users /\ SpentTypes
  BY DEF Types, PeopleTypes, ClientTypes, PastTypes
<1>3. task[t].pc = "listFill" => task[t].seen \subseteq Users
  BY DEF Types, TaskTypes, Shape
<1> DEFINE Goal == /\ cache' \in [Users -> SUBSET (Users \cup {NoFriends})] /\ mayEnd' \subseteq Users
                   /\ \A u \in mayEnd' : cache'[u] # {}
                   /\ profile' \in [Users -> 0..MaxEdits] /\ cached' \in [Users -> (0..MaxEdits) \cup {None}]
                   /\ view' \in [Users -> SUBSET Users] /\ stale' \subseteq Users /\ SpentTypes'
<1> USE DEF past, people, redis, clients, At, Answer
<1>4. CASE ListExists(t)
  BY <1>1, <1>2, <1>3, <1>4, BoundAssumption DEF ListExists, SpentTypes
<1>5. CASE ListMembers(t)
  BY <1>1, <1>2, <1>3, <1>5, BoundAssumption DEF ListMembers, SpentTypes
<1>6. CASE ListRead(t)
  BY <1>1, <1>2, <1>3, <1>6, BoundAssumption DEF ListRead, SpentTypes
<1>7. CASE ListFill(t)
  BY <1>1, <1>2, <1>3, <1>7, BoundAssumption DEF ListFill, SpentTypes
<1>8. CASE ListMark(t)
  BY <1>1, <1>2, <1>3, <1>8, BoundAssumption DEF ListMark, SpentTypes
<1>9. CASE ProfileGet(t)
  BY <1>1, <1>2, <1>3, <1>9, BoundAssumption DEF ProfileGet, SpentTypes
<1>10. CASE ProfileRead(t)
  BY <1>1, <1>2, <1>3, <1>10, BoundAssumption DEF ProfileRead, SpentTypes
<1>11. CASE ProfileFill(t)
  BY <1>1, <1>2, <1>3, <1>11, BoundAssumption DEF ProfileFill, SpentTypes
<1>12. CASE ProfileWrite(t)
  BY <1>1, <1>2, <1>3, <1>12, BoundAssumption DEF ProfileWrite, SpentTypes
<1>13. CASE ProfileDrop(t)
  BY <1>1, <1>2, <1>3, <1>13, BoundAssumption DEF ProfileDrop, SpentTypes
<1>14. CASE DropFails(t)
  BY <1>1, <1>2, <1>14, SpendKeeps DEF DropFails
<1> QED
  BY <1>4, <1>5, <1>6, <1>7, <1>8, <1>9, <1>10, <1>11, <1>12, <1>13, <1>14 DEF ReaderStep

(* A step of a reader keeps the types.                                     *)
LEMMA ReaderStepTypes ==
  ASSUME Types, NEW t \in Tasks, ReaderStep(t) \/ DropFails(t)
  PROVE  Types'
<1>1. /\ Moves(t, CachePc) /\ Shape(task'[t], t, sock)
      /\ UNCHANGED <<friends, requests, presence, inbox, raced, excused, torn, unlisted>>
  BY ReaderMoves
<1>2. TaskTypes'
  BY <1>1, ShapesKept DEF Types, Moves, presence
<1>3. PresenceTypes'
  BY <1>1 DEF Types, PresenceTypes, presence
<1>4. PeopleTypes' /\ ClientTypes' /\ PastTypes'
  BY <1>1, ReaderValues DEF Types, PeopleTypes, ClientTypes, PastTypes
<1> QED
  BY <1>2, <1>3, <1>4, ReaderValues DEF Types

-----------------------------------------------------------------------------
(* A handler that starts was idle, and has the users and the socket it is  *)
(* given.                                                                  *)
LEMMA Starts ==
  ASSUME Types, NEW t \in Tasks, NEW pc \in Pc, NEW u \in Users, NEW v \in Users \cup {None},
         NEW s \in Sockets \cup {None}, Start(t, pc, u, v, s)
  PROVE  /\ task' \in [Tasks -> TaskType] /\ \A o \in Tasks \ {t} : task'[o] = task[o]
         /\ task[t].pc = "idle" /\ task'[t].pc = pc /\ task'[t].me = u /\ task'[t].peer = v
         /\ task'[t].sock = s /\ task'[t].todo = {} /\ SpentTypes'
<1> DEFINE r == [Idle EXCEPT !.pc = pc, !.me = u, !.peer = v, !.sock = s]
<1>1. r \in TaskType /\ r.pc = pc /\ r.me = u /\ r.peer = v /\ r.sock = s /\ r.todo = {}
  <2>1. Idle \in TaskType /\ Idle.todo = {}
    BY IdleType DEF Idle
  <2> QED
    BY <2>1 DEF TaskType
<1>2. task' = [task EXCEPT ![t] = r] /\ task[t].pc = "idle"
  BY DEF Start
<1>3. task \in [Tasks -> TaskType]
  BY DEF Types, TaskTypes
<1>4. SpentTypes'
  BY SpendKeeps DEF Start, Types
<1> HIDE DEF r
<1> QED
  BY <1>1, <1>2, <1>3, <1>4

(* Shapes are kept when sockets only open and close.                       *)
LEMMA ShapesFollow ==
  ASSUME TaskTypes, NEW t \in Tasks, task' \in [Tasks -> TaskType],
         \A o \in Tasks \ {t} : task'[o] = task[o],
         \A s \in Sockets : sock[s] # "new" =>
           sock'[s] # "new" /\ (sock[s] # "live" => sock'[s] # "live"),
         Shape(task'[t], t, sock')
  PROVE  TaskTypes'
<1>1. ASSUME NEW o \in Tasks, o # t PROVE Shape(task'[o], o, sock')
  <2>1. Shape(task[o], o, sock) /\ task'[o] = task[o]
    BY <1>1 DEF TaskTypes
  <2> QED
    BY <2>1 DEF Shape, TabPc
<1> QED
  BY <1>1 DEF TaskTypes

(* The steps that start a handler of a tab.                                *)
LEMMA TabBegins ==
  ASSUME Types, NEW t \in Tasks, NEW s \in Sockets,
         Connect(t, s) \/ Heartbeat(t, s) \/ Disconnect(t, s)
  PROVE  Types'
<1>1. Owner[s] \in Users /\ None \in Sockets \cup {None} /\ TaskTypes /\ sock \in [Sockets -> {"new", "live", "closed", "lost"}]
  BY OwnerAssumption DEF Types, PresenceTypes
<1>2. CASE Connect(t, s)
  <2>1. Start(t, "delFlag", Owner[s], None, s) /\ sock[s] = "new" /\ sock' = [sock EXCEPT ![s] = "live"]
        /\ Place[t] = Home[s] /\ UNCHANGED <<people, members, flag, hash, global, activity, clients, past>>
    BY <1>2 DEF Connect
  <2>2. "delFlag" \in Pc
    BY DEF Pc, JoinPc
  <2>3. /\ task' \in [Tasks -> TaskType] /\ \A o \in Tasks \ {t} : task'[o] = task[o]
        /\ task'[t].pc = "delFlag" /\ task'[t].me = Owner[s] /\ task'[t].sock = s /\ SpentTypes'
    BY <1>1, <2>1, <2>2, Starts
  <2>4. Shape(task'[t], t, sock')
    BY <1>1, <2>1, <2>3 DEF Shape, FriendPc, TabPc, JoinPc, SidePc
  <2>5. TaskTypes'
    BY <1>1, <2>1, <2>3, <2>4, ShapesFollow
  <2>6. PeopleTypes' /\ PresenceTypes' /\ ClientTypes' /\ PastTypes'
    BY <1>1, <2>1 DEF Types, PeopleTypes, PresenceTypes, ClientTypes, PastTypes, people, redis, clients, past
  <2> QED
    BY <2>3, <2>5, <2>6 DEF Types
<1>3. CASE Heartbeat(t, s)
  <2>1. Start(t, "hbExists", Owner[s], None, s) /\ UNCHANGED <<people, presence, clients, past>>
    BY <1>3 DEF Heartbeat
  <2>2. "hbExists" \in Pc
    BY DEF Pc, BeatPc
  <2>3. /\ task' \in [Tasks -> TaskType] /\ \A o \in Tasks \ {t} : task'[o] = task[o]
        /\ task'[t].pc = "hbExists" /\ task'[t].me = Owner[s] /\ SpentTypes'
    BY <1>1, <2>1, <2>2, Starts
  <2>4. Shape(task'[t], t, sock)
    BY <1>1, <2>3 DEF Shape, FriendPc, TabPc, JoinPc, SidePc
  <2>5. TaskTypes'
    BY <1>1, <2>1, <2>3, <2>4, ShapesKept DEF presence
  <2>6. PeopleTypes' /\ PresenceTypes' /\ ClientTypes' /\ PastTypes'
    BY <2>1 DEF Types, PeopleTypes, PresenceTypes, ClientTypes, PastTypes, people, redis, presence, clients, past
  <2> QED
    BY <2>3, <2>5, <2>6 DEF Types
<1>4. CASE Disconnect(t, s)
  <2>1. Start(t, "sRem", Owner[s], None, s) /\ sock[s] = "live" /\ sock' = [sock EXCEPT ![s] = "closed"]
        /\ Place[t] = Home[s] /\ UNCHANGED <<people, members, flag, hash, global, activity, clients, past>>
    BY <1>4 DEF Disconnect
  <2>2. "sRem" \in Pc
    BY DEF Pc, LeavePc
  <2>3. /\ task' \in [Tasks -> TaskType] /\ \A o \in Tasks \ {t} : task'[o] = task[o]
        /\ task'[t].pc = "sRem" /\ task'[t].me = Owner[s] /\ task'[t].sock = s /\ SpentTypes'
    BY <1>1, <2>1, <2>2, Starts
  <2>4. Shape(task'[t], t, sock')
    BY <1>1, <2>1, <2>3 DEF Shape, FriendPc, TabPc, JoinPc, SidePc
  <2>5. TaskTypes'
    BY <1>1, <2>1, <2>3, <2>4, ShapesFollow
  <2>6. PeopleTypes' /\ PresenceTypes' /\ ClientTypes' /\ PastTypes'
    BY <1>1, <2>1 DEF Types, PeopleTypes, PresenceTypes, ClientTypes, PastTypes, people, redis, clients, past
  <2> QED
    BY <2>3, <2>5, <2>6 DEF Types
<1> QED
  BY <1>2, <1>3, <1>4

(* The steps that start a handler of a pair, by kind.                      *)
Calls(t, u, v) ==
  SendRequest(t, u, v) \/ AcceptRequest(t, u, v) \/ RejectRequest(t, u, v) \/ RemoveFriend(t, u, v)
StartPc == {"reqRead", "accRead", "rejPull", "remRead"}

(* Each starts an idle handler, and marks a pair that is busy.             *)
LEMMA PairBegins ==
  ASSUME Types, NEW t \in Tasks, NEW u \in Users, NEW v \in Users, Calls(t, u, v)
  PROVE  /\ Types' /\ u # v
         /\ \A o \in Tasks \ {t} : task'[o] = task[o]
         /\ task[t].pc = "idle" /\ task'[t].pc \in StartPc /\ task'[t].me = u /\ task'[t].peer = v
         /\ raced' = IF FriendBusy(u, v) \/ Reading(u, Listing) \/ Reading(v, Listing)
                     THEN raced \cup {Pair(u, v)} ELSE raced
         /\ UNCHANGED <<people, presence, clients, stale, excused, torn, unlisted>>
<1>1. PICK pc \in StartPc : StartFriend(t, pc, u, v)
  BY DEF Calls, StartPc, SendRequest, AcceptRequest, RejectRequest, RemoveFriend
<1>2. /\ u # v /\ Start(t, pc, u, v, None)
      /\ raced' = IF FriendBusy(u, v) \/ Reading(u, Listing) \/ Reading(v, Listing)
                  THEN raced \cup {Pair(u, v)} ELSE raced
      /\ UNCHANGED <<people, presence, clients, stale, excused, torn, unlisted>>
  BY <1>1 DEF StartFriend
<1>3. pc \in Pc /\ None \in Sockets \cup {None} /\ v \in Users \cup {None}
  BY DEF StartPc, Pc, FriendPc
<1>4. /\ task' \in [Tasks -> TaskType] /\ \A o \in Tasks \ {t} : task'[o] = task[o]
      /\ task[t].pc = "idle" /\ task'[t].pc = pc /\ task'[t].me = u /\ task'[t].peer = v /\ SpentTypes'
  BY <1>2, <1>3, Starts
<1>5. Shape(task'[t], t, sock)
  BY <1>2, <1>4 DEF Shape, StartPc, FriendPc, TabPc, JoinPc, SidePc
<1>6. TaskTypes'
  BY <1>2, <1>4, <1>5, ShapesKept DEF Types, presence
<1>7. raced' \subseteq SUBSET Users
  <2>1. Pair(u, v) \subseteq Users /\ raced \subseteq SUBSET Users
    BY DEF Pair, Types, PastTypes
  <2> QED
    BY <1>2, <2>1
<1>8. PeopleTypes' /\ PresenceTypes' /\ ClientTypes' /\ PastTypes'
  BY <1>2, <1>7 DEF Types, PeopleTypes, PresenceTypes, ClientTypes, PastTypes, people, redis, presence, clients
<1> QED
  BY <1>2, <1>4, <1>6, <1>8 DEF Types

(* The steps that start a reader or a writer of a profile.                 *)
Reads(t, u) == ListFriends(t, u) \/ ReadProfile(t, u) \/ EditProfile(t, u)
(* Each starts an idle handler, and a list marks the busy pairs.           *)
LEMMA ReadBegins ==
  ASSUME Types, NEW t \in Tasks, NEW u \in Users, Reads(t, u)
  PROVE  /\ Types'
         /\ \A o \in Tasks \ {t} : task'[o] = task[o]
         /\ task[t].pc = "idle" /\ task'[t].pc \in {"listExists", "proGet", "proWrite"} /\ task'[t].me = u
         /\ raced \subseteq raced'
         /\ task'[t].pc = "listExists" =>
              \A w \in Users \ {u} : FriendBusy(u, w) => Pair(u, w) \in raced'
         /\ UNCHANGED <<people, presence, clients, stale, excused, torn, unlisted>>
<1>1. PICK pc \in {"listExists", "proGet", "proWrite"} : Start(t, pc, u, None, None)
  BY DEF Reads, ListFriends, ReadProfile, EditProfile
<1>2. UNCHANGED <<people, presence, clients, stale, excused, torn, unlisted>>
  BY DEF Reads, ListFriends, ReadProfile, EditProfile, past
<1>3. pc \in Pc /\ None \in Sockets \cup {None} /\ None \in Users \cup {None}
  BY DEF Pc, CachePc
<1>4. /\ task' \in [Tasks -> TaskType] /\ \A o \in Tasks \ {t} : task'[o] = task[o]
      /\ task[t].pc = "idle" /\ task'[t].pc = pc /\ task'[t].me = u /\ SpentTypes'
  <2>1. Types /\ t \in Tasks /\ u \in Users /\ pc \in Pc /\ Start(t, pc, u, None, None)
    BY <1>1, <1>3
  <2> QED
    BY ONLY <1>3, <2>1, Starts
<1>5. Shape(task'[t], t, sock)
  BY <1>4 DEF Shape, FriendPc, TabPc, JoinPc, SidePc
<1>6. TaskTypes'
  BY <1>2, <1>4, <1>5, ShapesKept DEF Types, presence
<1>7. /\ raced \subseteq raced' /\ raced' \subseteq SUBSET Users
      /\ pc = "listExists" => \A w \in Users \ {u} : FriendBusy(u, w) => Pair(u, w) \in raced'
  <2>1. CASE ListFriends(t, u)
    <3>1. raced' = raced \cup {Pair(u, w) : w \in {x \in Users \ {u} : FriendBusy(u, x)}}
      BY <2>1 DEF ListFriends
    <3>2. raced \subseteq SUBSET Users /\ \A w \in Users : Pair(u, w) \in SUBSET Users
      BY DEF Types, PastTypes, Pair
    <3> QED
      BY <3>1, <3>2
  <2>2. CASE ReadProfile(t, u) \/ EditProfile(t, u)
    <3>1. UNCHANGED raced /\ (Start(t, "proGet", u, None, None) \/ Start(t, "proWrite", u, None, None))
      BY <2>2 DEF ReadProfile, EditProfile, past
    <3>2. task'[t].pc \in {"proGet", "proWrite"}
      BY <1>3, <3>1, Starts DEF Pc, CachePc
    <3> QED
      BY <1>4, <3>1, <3>2 DEF Types, PastTypes
  <2> QED
    BY <2>1, <2>2 DEF Reads
<1>8. PeopleTypes' /\ PresenceTypes' /\ ClientTypes' /\ PastTypes'
  BY <1>2, <1>7 DEF Types, PeopleTypes, PresenceTypes, ClientTypes, PastTypes, people, redis, presence, clients
<1> QED
  BY <1>2, <1>4, <1>6, <1>7, <1>8 DEF Types

-----------------------------------------------------------------------------
(* What expires leaves handlers and sockets alone.                         *)
LEMMA ExpiresTypes ==
  ASSUME Types, NEW u \in Users, Expires(u)
  PROVE  Types' /\ UNCHANGED <<task, sock, clients, friends, requests, profile, members, raced, stale, torn, unlisted>>
<1> DEFINE Goal == Types' /\ UNCHANGED <<task, sock, clients, friends, requests, profile, members, raced, stale, torn, unlisted>>
<1> USE DEF people, redis, clients, past
<1>1. CASE FlagExpires(u)
  BY <1>1 DEF FlagExpires, Types, PeopleTypes, PresenceTypes, TaskTypes, ClientTypes, PastTypes, SpentTypes
<1>2. CASE HashExpires(u)
  <2>1. hash' = [hash EXCEPT ![u] = NoHash] /\ excused' \subseteq excused \cup {u}
        /\ UNCHANGED <<people, sock, members, flag, global, activity, task, clients, raced, stale, torn, unlisted>>
    BY <1>2 DEF HashExpires
  <2>2. SpentTypes'
    <3>1. CASE Left("expiries") /\ Spend("expiries")
      BY <3>1, SpendKeeps DEF Types
    <3>2. CASE UNCHANGED spent
      BY <3>2 DEF Types, SpentTypes
    <3> QED
      BY <1>2, <3>1, <3>2 DEF HashExpires
  <2>3. PresenceTypes'
    BY <2>1 DEF Types, PresenceTypes, Hash, NoHash
  <2>4. PeopleTypes' /\ TaskTypes' /\ ClientTypes' /\ PastTypes'
    BY <2>1 DEF Types, PeopleTypes, TaskTypes, ClientTypes, PastTypes
  <2> QED
    BY <2>1, <2>2, <2>3, <2>4 DEF Types
<1>3. CASE SetExpires(u)
  <2>1. cache' = [cache EXCEPT ![u] = {}] /\ mayEnd' = mayEnd \ {u}
        /\ UNCHANGED <<friends, requests, profile, cached, presence, task, clients, past, spent>>
    BY <1>3 DEF SetExpires
  <2>2. PeopleTypes'
    BY <2>1 DEF Types, PeopleTypes
  <2>3. PresenceTypes' /\ TaskTypes' /\ ClientTypes' /\ PastTypes' /\ SpentTypes'
    BY <2>1 DEF Types, PresenceTypes, presence, TaskTypes, ClientTypes, PastTypes, SpentTypes
  <2> QED
    BY <2>1, <2>2, <2>3 DEF Types, presence
<1>4. CASE ProfileExpires(u)
  <2>1. cached' = [cached EXCEPT ![u] = None]
        /\ UNCHANGED <<friends, requests, profile, cache, mayEnd, presence, task, clients, past, spent>>
    BY <1>4 DEF ProfileExpires
  <2>2. PeopleTypes'
    BY <2>1 DEF Types, PeopleTypes
  <2>3. PresenceTypes' /\ TaskTypes' /\ ClientTypes' /\ PastTypes' /\ SpentTypes'
    BY <2>1 DEF Types, PresenceTypes, presence, TaskTypes, ClientTypes, PastTypes, SpentTypes
  <2> QED
    BY <2>1, <2>2, <2>3 DEF Types, presence
<1> QED
  BY <1>1, <1>2, <1>3, <1>4 DEF Expires

(* An event that a page takes leaves its box, and sets the flag it names.  *)
LEMMA ReceiveTypes ==
  ASSUME Types, NEW u \in Users, NEW e \in Event, Receive(u, e)
  PROVE  /\ Types' /\ UNCHANGED <<people, presence, task, past, spent>>
         /\ \A w \in Users \ {u} : inbox'[w] = inbox[w] /\ view'[w] = view[w]
         /\ view'[u] = (IF e.kind = "accepted" THEN view[u] \cup {e.peer} ELSE view[u] \ {e.peer})
         /\ BagIn(e, inbox[u])
         /\ \A d : BagIn(d, inbox'[u]) => BagIn(d, inbox[u])
         /\ \A d : d # e /\ BagIn(d, inbox[u]) => BagIn(d, inbox'[u])
<1> DEFINE rest == inbox[u] (-) SetToBag({e})
           flags == IF e.kind = "accepted" THEN view[u] \cup {e.peer} ELSE view[u] \ {e.peer}
<1>1. ClientTypes /\ e.peer \in Users
  BY DEF Types, Event
<1>2. /\ BagIn(e, inbox[u]) /\ inbox' = [inbox EXCEPT ![u] = rest] /\ view' = [view EXCEPT ![u] = flags]
      /\ UNCHANGED <<people, presence, task, past, spent>>
  BY DEF Receive
<1>3. IsABag(rest) /\ DOMAIN rest \subseteq DOMAIN inbox[u] /\ DOMAIN inbox[u] \ {e} \subseteq DOMAIN rest
  BY <1>1, BagShrinks DEF ClientTypes
<1>4. flags \subseteq Users
  BY <1>1 DEF ClientTypes
<1>5. /\ inbox'[u] = rest /\ view'[u] = flags
      /\ \A w \in Users \ {u} : inbox'[w] = inbox[w] /\ view'[w] = view[w]
      /\ inbox' = [w \in Users |-> inbox'[w]]
  BY <1>1, <1>2 DEF ClientTypes
<1>6. view' \in [Users -> SUBSET Users]
  BY <1>1, <1>2, <1>4 DEF ClientTypes
<1> HIDE DEF rest
<1>7. \A w \in Users : BagToSet(inbox'[w]) \subseteq Event /\ IsABag(inbox'[w])
  BY <1>1, <1>3, <1>5 DEF ClientTypes, BagToSet
<1>8. ClientTypes'
  BY <1>5, <1>6, <1>7 DEF ClientTypes
<1>9. PeopleTypes' /\ PresenceTypes' /\ TaskTypes' /\ PastTypes' /\ SpentTypes'
  BY <1>2 DEF Types, PeopleTypes, PresenceTypes, TaskTypes, PastTypes, SpentTypes, people, redis, presence, past
<1>10. /\ \A d : BagIn(d, inbox'[u]) => BagIn(d, inbox[u])
       /\ \A d : d # e /\ BagIn(d, inbox[u]) => BagIn(d, inbox'[u])
  BY <1>3, <1>5 DEF BagIn, BagToSet
<1> QED
  BY <1>2, <1>5, <1>8, <1>9, <1>10 DEF Types

(* A crash closes the live sockets of its replica and ends its handlers.   *)
LEMMA CrashTypes ==
  ASSUME Types, NEW n \in Nodes, Crash(n)
  PROVE  /\ Types' /\ UNCHANGED <<people, members, flag, hash, global, activity, clients, unlisted>>
         /\ \A t \in Tasks : task'[t] = IF Place[t] = n THEN Idle ELSE task[t]
         /\ \A s \in Sockets : sock'[s] = IF Home[s] = n /\ sock[s] = "live" THEN "lost" ELSE sock[s]
<1>1. /\ sock' = [s \in Sockets |-> IF Home[s] = n /\ sock[s] = "live" THEN "lost" ELSE sock[s]]
      /\ task' = [t \in Tasks |-> IF Place[t] = n THEN Idle ELSE task[t]]
      /\ UNCHANGED <<people, members, flag, hash, global, activity, clients, unlisted>>
      /\ Left("crashes") /\ Spend("crashes")
  BY DEF Crash
<1>2. PeopleTypes' /\ PresenceTypes' /\ ClientTypes'
  BY <1>1 DEF Types, PeopleTypes, PresenceTypes, ClientTypes, people, redis, clients
<1>3. SpentTypes'
  BY <1>1, SpendKeeps DEF Types
<1>4. task' \in [Tasks -> TaskType]
  BY <1>1, IdleType DEF Types, TaskTypes
<1>5. ASSUME NEW t \in Tasks PROVE Shape(task'[t], t, sock')
  <2>1. CASE Place[t] = n
    <3>1. task'[t] = Idle
      BY <1>1, <2>1
    <3> QED
      BY <3>1, IdleType, NoRole
  <2>2. CASE Place[t] # n
    <3>1. task'[t] = task[t] /\ Shape(task[t], t, sock)
      BY <1>1, <2>2 DEF Types, TaskTypes
    <3> QED
      BY <1>1, <3>1 DEF Shape, TabPc
  <2> QED
    BY <2>1, <2>2
<1>6. PastTypes'
  <2>1. \A t \in Tasks : /\ task[t].pc # "idle" => task[t].me \in Users
                         /\ task[t].pc \in FriendPc => task[t].peer \in Users
    BY DEF Types, TaskTypes, Shape
  <2>2. raced' \subseteq SUBSET Users
    <3>1. \A t \in Tasks : task[t].pc \in FriendPc => Pair(task[t].me, task[t].peer) \in SUBSET Users
      BY <2>1 DEF Pair, FriendPc
    <3>2. raced' = raced \cup {Pair(task[t].me, task[t].peer) :
                                t \in {o \in Tasks : Place[o] = n /\ task[o].pc \in FriendPc}}
      BY DEF Crash
    <3> QED
      BY <3>1, <3>2 DEF Types, PastTypes
  <2>3. stale' \subseteq Users
    BY <2>1 DEF Crash, Types, PastTypes
  <2>4. excused' \subseteq Users
    BY <2>1 DEF Crash, Types, PastTypes
  <2>5. torn' \subseteq Users /\ unlisted' \subseteq Sockets
    BY DEF Crash, Types, PastTypes
  <2> QED
    BY <2>2, <2>3, <2>4, <2>5 DEF PastTypes
<1> QED
  BY <1>1, <1>2, <1>3, <1>4, <1>5, <1>6 DEF Types, TaskTypes

(* The steps of the system, by what they do.                               *)
Handles(t) ==
  \/ \E s \in Sockets : Connect(t, s) \/ Heartbeat(t, s) \/ Disconnect(t, s)
  \/ \E u, v \in Users : Calls(t, u, v)
  \/ \E u \in Users : Reads(t, u)
  \/ PresenceStep(t) \/ PresenceFails(t)
  \/ FriendStep(t) \/ FriendFails(t)
  \/ ReaderStep(t) \/ DropFails(t)

(* There is no step of another kind.                                       *)
LEMMA StepKinds ==
  ASSUME Next
  PROVE  \/ \E t \in Tasks : Handles(t)
         \/ \E u \in Users : Expires(u)
         \/ \E u \in Users, e \in Event : Receive(u, e)
         \/ \E n \in Nodes : Crash(n)
<1>1. \A t \in Tasks : Begin(t) => Handles(t)
  BY RoleAssumption DEF Begin, Handles, Calls, Reads
<1>2. \A t \in Tasks : Fails(t) => Handles(t)
  BY DEF Fails, Handles, FriendFails
<1> QED
  BY <1>1, <1>2 DEF Next, Handles

(* Types hold at first.                                                    *)
LEMMA TypesInit == Init => Types
<1> SUFFICES ASSUME Init PROVE Types
  OBVIOUS
<1>1. PeopleTypes
  BY BoundAssumption DEF Init, PeopleTypes, EmptyBag, SetToBag, IsABag
<1>2. PresenceTypes
  BY DEF Init, PresenceTypes, Hash, NoHash
<1>3. TaskTypes
  <2>1. task \in [Tasks -> TaskType] /\ \A t \in Tasks : task[t] = Idle
    BY IdleType DEF Init
  <2> QED
    BY <2>1, IdleType, NoRole DEF TaskTypes
<1>4. ClientTypes
  BY DEF Init, ClientTypes, EmptyBag, SetToBag, IsABag, BagToSet
<1>5. PastTypes /\ SpentTypes
  BY BoundAssumption DEF Init, PastTypes, SpentTypes
<1> QED
  BY <1>1, <1>2, <1>3, <1>4, <1>5 DEF Types

(* Every step keeps the types.                                             *)
LEMMA TypesKept == Types /\ [Next]_vars => Types'
<1> SUFFICES ASSUME Types, [Next]_vars PROVE Types'
  OBVIOUS
<1>1. CASE Next
  BY <1>1, StepKinds, TabBegins, PairBegins, ReadBegins, PresenceStepTypes, FailureMoves, FriendStepTypes,
     ReaderStepTypes, ExpiresTypes, ReceiveTypes, CrashTypes DEF Handles
<1>2. CASE UNCHANGED vars
  BY <1>2 DEF vars, people, redis, presence, clients, past, Types, PeopleTypes, PresenceTypes,
              TaskTypes, ClientTypes, PastTypes, SpentTypes
<1> QED
  BY <1>1, <1>2

-----------------------------------------------------------------------------
(* Steps that move no handler near a registration or a write of the hash,  *)
(* change no socket and no set, and take no hash away, keep the presence.  *)
WatchPc == {"delFlag", "sAdd", "sCard", "sRem"} \cup Writing
Unwatched(t) ==
  \/ task'[t] = task[t]
  \/ task[t].pc \notin WatchPc /\ task'[t].pc \notin WatchPc

(* Such steps keep the presence.                                           *)
LEMMA PresenceAside ==
  ASSUME Registered, Covered, UNCHANGED <<sock, members>>, excused \subseteq excused', unlisted \subseteq unlisted',
         \A u \in Users : hash[u].status = "active" => hash'[u].status = "active",
         \A t \in Tasks : Unwatched(t)
  PROVE  Registered' /\ Covered'
<1>1. \A t \in Tasks : /\ task[t].pc \in WatchPc => task'[t] = task[t]
                       /\ task'[t].pc \in WatchPc => task'[t] = task[t]
  BY DEF Unwatched
<1>2. Registered'
  <2> SUFFICES ASSUME NEW s \in Sockets
               PROVE  /\ sock'[s] = "live" =>
                           \/ s \in members'[Owner[s]] \/ s \in unlisted'
                           \/ \E t \in Tasks : task'[t].sock = s /\ task'[t].pc \in {"delFlag", "sAdd"}
                      /\ \A u \in Users : s \in members'[u] => sock'[s] # "new"
    BY DEF Registered
  <2> QED
    BY <1>1 DEF Registered, WatchPc
<1>3. Covered'
  <2> SUFFICES ASSUME NEW u \in Users, u \notin excused', hash'[u].status # "active"
               PROVE  \/ \E t \in Tasks : task'[t].me = u /\ task'[t].pc \in Writing
                      \/ \A s \in members'[u] : LostId(s)' \/ Counting(s)'
    BY DEF Covered
  <2>1. u \notin excused /\ hash[u].status # "active"
    OBVIOUS
  <2>2. CASE \E t \in Tasks : task[t].me = u /\ task[t].pc \in Writing
    BY <1>1, <2>2 DEF WatchPc
  <2>3. CASE \A s \in members[u] : LostId(s) \/ Counting(s)
    <3>1. \A s : Counting(s) => Counting(s)'
      BY <1>1 DEF Counting, WatchPc
    <3>2. \A s : LostId(s) => LostId(s)'
      BY <1>1 DEF LostId, WatchPc
    <3> QED
      BY <2>3, <3>1, <3>2
  <2> QED
    BY <2>1, <2>2, <2>3 DEF Covered
<1> QED
  BY <1>2, <1>3

(* A tab that connects is about to register; one that closes is live no    *)
(* more, and a heartbeat is neither.                                       *)
LEMMA TabKeepsPresence ==
  ASSUME PresenceInv, NEW t \in Tasks, NEW s \in Sockets,
         Connect(t, s) \/ Heartbeat(t, s) \/ Disconnect(t, s)
  PROVE  Registered' /\ Covered'
<1> USE DEF PresenceInv
<1>1. Owner[s] \in Users /\ None \in Sockets \cup {None} /\ sock \in [Sockets -> {"new", "live", "closed", "lost"}]
      /\ None \in Users \cup {None}
  BY OwnerAssumption DEF Types, PresenceTypes
<1>2. {"delFlag", "hbExists", "sRem"} \subseteq Pc
  BY DEF Pc, JoinPc, BeatPc, LeavePc
<1>3. \A u \in Users : members[u] \subseteq Sockets
  BY DEF Types, PresenceTypes
<1>4. CASE Connect(t, s)
  <2>1. /\ Start(t, "delFlag", Owner[s], None, s) /\ sock[s] = "new" /\ sock' = [sock EXCEPT ![s] = "live"]
        /\ UNCHANGED <<members, hash, excused, unlisted>>
    BY <1>4 DEF Connect, past
  <2>2. /\ \A o \in Tasks \ {t} : task'[o] = task[o]
        /\ task[t].pc = "idle" /\ task'[t].pc = "delFlag" /\ task'[t].me = Owner[s] /\ task'[t].sock = s
    BY ZenonT(40), <1>1, <1>2, <2>1, Starts
  <2>3. \A x \in Sockets \ {s} : sock'[x] = sock[x]
    BY <1>1, <2>1
  <2>4. sock'[s] = "live"
    BY <1>1, <2>1
  <2>5. Registered'
    BY <2>1, <2>2, <2>3, <2>4 DEF Registered
  <2>6. ASSUME NEW u \in Users, u \notin excused', hash'[u].status # "active",
               ~ \E o \in Tasks : task'[o].me = u /\ task'[o].pc \in Writing,
               NEW x \in members'[u]
        PROVE  LostId(x)' \/ Counting(x)'
    <3>1. ~ \E o \in Tasks : task[o].me = u /\ task[o].pc \in Writing
      BY <2>2, <2>6 DEF Writing
    <3>2. LostId(x) \/ Counting(x)
      BY <2>1, <2>6, <3>1 DEF Covered
    <3>3. x # s /\ x \in Sockets
      BY <1>3, <2>1, <2>6 DEF Registered
    <3> QED
      BY <2>2, <2>3, <3>2, <3>3 DEF LostId, Counting
  <2> QED
    BY <2>5, <2>6 DEF Covered
<1>5. CASE Heartbeat(t, s)
  <2>1. Start(t, "hbExists", Owner[s], None, s) /\ UNCHANGED <<sock, members, hash, excused, unlisted>>
    BY <1>5 DEF Heartbeat, past, presence
  <2>2. /\ \A o \in Tasks \ {t} : task'[o] = task[o]
        /\ task[t].pc = "idle" /\ task'[t].pc = "hbExists"
    BY <1>1, <1>2, <2>1, Starts
  <2> QED
    <3>1. \A o \in Tasks : Unwatched(o)
      BY <2>2 DEF WatchPc, Writing, Unwatched
    <3>2. \A u \in Users : hash[u].status = "active" => hash'[u].status = "active"
      BY <2>1
    <3> QED
      BY <2>1, <3>1, <3>2, PresenceAside
<1>6. CASE Disconnect(t, s)
  <2>1. /\ Start(t, "sRem", Owner[s], None, s) /\ sock[s] = "live" /\ sock' = [sock EXCEPT ![s] = "closed"]
        /\ UNCHANGED <<members, hash, excused, unlisted>>
    BY <1>6 DEF Disconnect, past
  <2>2. /\ \A o \in Tasks \ {t} : task'[o] = task[o]
        /\ task[t].pc = "idle" /\ task'[t].pc = "sRem" /\ task'[t].me = Owner[s] /\ task'[t].sock = s
    BY ZenonT(40), <1>1, <1>2, <2>1, Starts
  <2>3. \A x \in Sockets \ {s} : sock'[x] = sock[x]
    BY <1>1, <2>1
  <2>4. sock'[s] = "closed"
    BY <1>1, <2>1
  <2>5. Registered'
    BY <2>1, <2>2, <2>3, <2>4 DEF Registered
  <2>6. ASSUME NEW u \in Users, u \notin excused', hash'[u].status # "active",
               ~ \E o \in Tasks : task'[o].me = u /\ task'[o].pc \in Writing,
               NEW x \in members'[u]
        PROVE  LostId(x)' \/ Counting(x)'
    <3>1. ~ \E o \in Tasks : task[o].me = u /\ task[o].pc \in Writing
      BY <2>2, <2>6 DEF Writing
    <3>2. LostId(x) \/ Counting(x)
      BY <2>1, <2>6, <3>1 DEF Covered
    <3>3. x \in Sockets
      BY <1>3, <2>1, <2>6
    <3>4. CASE Counting(x)
      BY <2>2, <3>4 DEF Counting
    <3>5. CASE LostId(x)
      <4>1. x # s
        BY <2>1, <3>5 DEF LostId
      <4> QED
        BY <2>2, <2>3, <3>3, <3>5, <4>1 DEF LostId
    <3> QED
      BY <3>2, <3>4, <3>5
  <2> QED
    BY <2>5, <2>6 DEF Covered
<1> QED
  BY <1>4, <1>5, <1>6

(* A set that does not have one member has none, or one beside any given.  *)
LEMMA NotOne ==
  ASSUME NEW S, Cardinality(S) # 1, NEW a
  PROVE  S = {} \/ \E b \in S : b # a
<1>1. Cardinality({a}) = 1
  BY FS_Singleton
<1>2. (\A b \in S : b = a) /\ S # {} => S = {a}
  OBVIOUS
<1> QED
  BY <1>1, <1>2

(* A tab that has counted writes the hash itself when it is alone; it      *)
(* leaves the hash to another only when that one has written it, is        *)
(* counting too, or has left its id behind.                                *)
LEMMA CountInKeeps ==
  ASSUME PresenceInv, NEW t \in Tasks, CountIn(t)
  PROVE  Registered' /\ Covered'
<1> DEFINE u == task[t].me
           s == task[t].sock
           first == Cardinality(members[u]) = 1
           together == \E o \in Tasks \ {t} : task[o].me = u /\ task[o].pc = "sCard"
<1> USE DEF PresenceInv
<1>1. /\ task \in [Tasks -> TaskType] /\ task[t].pc = "sCard" /\ u \in Users
      /\ \A o \in Tasks : task[o].pc = "sCard" => task[o].me = Owner[task[o].sock]
      /\ \A w \in Users : \A x \in members[w] : x \in Sockets /\ Owner[x] = w
  BY DEF Types, TaskTypes, PresenceTypes, Shape, TabPc, JoinPc, CountIn, At
<1>2. /\ Goto(t, IF first THEN "exists" ELSE "hbExists")
      /\ excused' = IF ~first /\ (together \/ Leaked(u)) THEN excused \cup {u} ELSE excused
      /\ UNCHANGED <<sock, members, hash, unlisted>>
  BY DEF CountIn, presence
<1>3. /\ \A o \in Tasks \ {t} : task'[o] = task[o]
      /\ task'[t].pc = (IF first THEN "exists" ELSE "hbExists") /\ task'[t].me = u
  BY <1>1, <1>2, GoesOn DEF Pc, OnlinePc, BeatPc
<1>4. Registered'
  BY <1>1, <1>2, <1>3 DEF Registered
<1>5. \A x \in Sockets : LostId(x) => LostId(x)'
  BY <1>1, <1>2, <1>3 DEF LostId
<1>6. \A x \in Sockets : Counting(x) /\ x # s => Counting(x)'
  BY <1>1, <1>3 DEF Counting
<1>7. ASSUME NEW w \in Users, w \notin excused', hash'[w].status # "active"
      PROVE  \/ \E o \in Tasks : task'[o].me = w /\ task'[o].pc \in Writing
             \/ \A x \in members'[w] : LostId(x)' \/ Counting(x)'
  <2>1. w \notin excused /\ hash[w].status # "active"
    BY <1>2, <1>7
  <2>2. CASE \E o \in Tasks : task[o].me = w /\ task[o].pc \in Writing
    BY <1>1, <1>3, <2>2 DEF Writing
  <2>3. CASE \A x \in members[w] : LostId(x) \/ Counting(x)
    <3>1. CASE w # u
      <4>1. \A x \in members[w] : x # s
        BY <1>1, <3>1
      <4> QED
        BY <1>1, <1>2, <1>5, <1>6, <2>3, <4>1
    <3>2. CASE w = u /\ first
      BY <1>3, <3>2 DEF Writing
    <3>3. CASE w = u /\ ~first
      <4>1. ~together /\ ~Leaked(u)
        BY <1>2, <1>7, <3>3
      <4>2. \A x \in members[u] : ~LostId(x)
        BY <4>1 DEF Leaked, LostId
      <4>3. \A x \in members[u] : x = s
        BY <1>1, <2>3, <3>3, <4>1, <4>2 DEF Counting
      <4>4. members[u] = {}
        BY <3>3, <4>3, NotOne
      <4> QED
        BY <1>2, <3>3, <4>4
    <3> QED
      BY <3>1, <3>2, <3>3
  <2> QED
    BY <2>1, <2>2, <2>3 DEF Covered
<1> QED
  BY <1>4, <1>7 DEF Covered

(* A tab that registers is about to count; one whose id is removed is not  *)
(* live.                                                                   *)
LEMMA RegisterKeeps ==
  ASSUME PresenceInv, NEW t \in Tasks, Register(t) \/ Unregister(t)
  PROVE  Registered' /\ Covered'
<1> DEFINE u == task[t].me
           s == task[t].sock
<1> USE DEF PresenceInv
<1>1. /\ task \in [Tasks -> TaskType] /\ task[t].pc \in {"sAdd", "sRem"}
      /\ u \in Users /\ s \in Sockets /\ u = Owner[s] /\ sock[s] # "new"
      /\ task[t].pc = "sRem" => sock[s] # "live"
      /\ members \in [Users -> SUBSET Sockets]
      /\ \A w \in Users : \A x \in members[w] : Owner[x] = w
  BY DEF Types, TaskTypes, PresenceTypes, Shape, TabPc, JoinPc, Register, Unregister, At
<1>2. UNCHANGED <<sock, hash, excused, unlisted>>
  BY DEF Register, Unregister, past
<1>3. CASE Register(t)
  <2>1. /\ task[t].pc = "sAdd" /\ Goto(t, "sCard") /\ members' = [members EXCEPT ![u] = @ \cup {s}]
    BY <1>3 DEF Register, At
  <2>2. /\ \A o \in Tasks \ {t} : task'[o] = task[o]
        /\ task'[t].pc = "sCard" /\ task'[t].sock = s
    BY <1>1, <2>1, GoesOn DEF Pc, JoinPc
  <2>3. /\ members'[u] = members[u] \cup {s} /\ \A w \in Users \ {u} : members'[w] = members[w]
    BY <1>1, <2>1
  <2>4. Registered'
    <3>1. \A x \in Sockets : Owner[x] \in Users
      BY OwnerAssumption
    <3> QED
      BY <1>1, <1>2, <2>1, <2>2, <2>3, <3>1 DEF Registered
  <2>5. \A x \in Sockets : /\ LostId(x) => LostId(x)'
                           /\ Counting(x) => Counting(x)'
    BY <1>2, <2>1, <2>2 DEF LostId, Counting
  <2>6. \A x \in Sockets : x = s => Counting(x)'
    BY <2>2 DEF Counting
  <2>7. ASSUME NEW w \in Users, w \notin excused', hash'[w].status # "active",
               ~ \E o \in Tasks : task'[o].me = w /\ task'[o].pc \in Writing,
               NEW x \in members'[w]
        PROVE  LostId(x)' \/ Counting(x)'
    <3>1. ~ \E o \in Tasks : task[o].me = w /\ task[o].pc \in Writing
      BY <2>1, <2>2, <2>7 DEF Writing
    <3>2. x = s \/ x \in members[w]
      BY <2>3, <2>7
    <3>3. x \in members[w] => x \in Sockets /\ (LostId(x) \/ Counting(x))
      BY <1>1, <1>2, <2>7, <3>1 DEF Covered
    <3> QED
      BY <1>1, <2>5, <2>6, <3>2, <3>3
  <2> QED
    BY <2>4, <2>7 DEF Covered
<1>4. CASE Unregister(t)
  <2>1. /\ task[t].pc = "sRem" /\ Goto(t, "sCardOff") /\ members' = [members EXCEPT ![u] = @ \ {s}]
    BY <1>4 DEF Unregister, At
  <2>2. /\ \A o \in Tasks \ {t} : task'[o] = task[o]
        /\ task'[t].pc = "sCardOff"
    BY <1>1, <2>1, GoesOn DEF Pc, LeavePc
  <2>3. /\ members'[u] = members[u] \ {s} /\ \A w \in Users \ {u} : members'[w] = members[w]
    BY <1>1, <2>1
  <2>4. Registered'
    <3>1. \A x \in Sockets : Owner[x] \in Users
      BY OwnerAssumption
    <3> QED
      BY <1>1, <1>2, <2>1, <2>2, <2>3, <3>1 DEF Registered
  <2>5. \A x \in Sockets : /\ LostId(x) => LostId(x)'
                           /\ Counting(x) => Counting(x)'
    BY <1>2, <2>1, <2>2 DEF LostId, Counting
  <2>7. ASSUME NEW w \in Users, w \notin excused', hash'[w].status # "active",
               ~ \E o \in Tasks : task'[o].me = w /\ task'[o].pc \in Writing,
               NEW x \in members'[w]
        PROVE  LostId(x)' \/ Counting(x)'
    <3>1. ~ \E o \in Tasks : task[o].me = w /\ task[o].pc \in Writing
      BY <2>1, <2>2, <2>7 DEF Writing
    <3>2. x \in members[w]
      BY <2>3, <2>7
    <3>3. x \in Sockets /\ (LostId(x) \/ Counting(x))
      BY <1>1, <1>2, <2>7, <3>1, <3>2 DEF Covered
    <3> QED
      BY <2>5, <3>3
  <2> QED
    BY <2>4, <2>7 DEF Covered
<1> QED
  BY <1>3, <1>4

(* A write of the hash makes it active; only a timer that counted nobody   *)
(* takes it away, and a user who has members by then is excused.           *)
LEMMA HashKeeps ==
  ASSUME PresenceInv, NEW t \in Tasks, OnlineHash(t) \/ OfflineHash(t)
  PROVE  Registered' /\ Covered'
<1> DEFINE u == task[t].me
<1> USE DEF PresenceInv
<1>1. /\ task \in [Tasks -> TaskType] /\ task[t].pc \in {"hSet", "delHash"} /\ u \in Users
      /\ hash \in [Users -> Hash] /\ members \in [Users -> SUBSET Sockets]
      /\ task[t].pc = "delHash" => task[t].seen = {}
  BY DEF Types, TaskTypes, PresenceTypes, Shape, OnlineHash, OfflineHash, At
<1>2. UNCHANGED <<sock, members, unlisted>> /\ \A w \in Users \ {u} : hash'[w] = hash[w] /\ (w \in excused <=> w \in excused')
  BY <1>1 DEF OnlineHash, OfflineHash
<1>3. /\ \A o \in Tasks \ {t} : task'[o] = task[o]
      /\ task'[t].pc \in {"expire", "globalRem"}
  <2>1. Goto(t, "expire") \/ Goto(t, "globalRem")
    BY DEF OnlineHash, OfflineHash
  <2> QED
    BY <1>1, <2>1, GoesOn DEF Pc, OnlinePc, GracePc
<1>4. Registered'
  BY <1>1, <1>2, <1>3 DEF Registered
<1>5. \A x \in Sockets : /\ LostId(x) => LostId(x)'
                         /\ Counting(x) => Counting(x)'
  BY <1>1, <1>2, <1>3 DEF LostId, Counting
<1>6. u \in excused' \/ hash'[u].status = "active" \/ members[u] = {}
  <2>1. CASE OnlineHash(t)
    BY <1>1, <2>1 DEF OnlineHash, Hash
  <2>2. CASE OfflineHash(t)
    BY <1>1, <2>2 DEF OfflineHash, At
  <2> QED
    BY <2>1, <2>2
<1>7. ASSUME NEW w \in Users, w \notin excused', hash'[w].status # "active",
             ~ \E o \in Tasks : task'[o].me = w /\ task'[o].pc \in Writing,
             NEW x \in members'[w]
      PROVE  LostId(x)' \/ Counting(x)'
  <2>1. w # u /\ x \in members[w] /\ x \in Sockets
    BY <1>1, <1>2, <1>6, <1>7
  <2>2. ~ \E o \in Tasks : task[o].me = w /\ task[o].pc \in Writing
    BY <1>3, <1>7, <2>1 DEF Writing
  <2>3. LostId(x) \/ Counting(x)
    BY <1>2, <1>7, <2>1, <2>2 DEF Covered
  <2> QED
    BY <1>5, <2>1, <2>3
<1> QED
  BY <1>4, <1>7 DEF Covered

(* The other steps of a presence handler.                                  *)
LEMMA PresenceStepKeeps ==
  ASSUME PresenceInv, NEW t \in Tasks, PresenceStep(t)
  PROVE  Registered' /\ Covered'
<1> USE DEF PresenceInv
<1>1. task \in [Tasks -> TaskType] /\ hash \in [Users -> Hash]
      /\ (task[t].pc # "idle" => task[t].me \in Users)
  BY DEF Types, TaskTypes, PresenceTypes, Shape
<1>2. \A o \in Tasks \ {t} : task'[o] = task[o]
  BY PresenceMoves DEF Moves
<1>3. \A o \in Tasks \ {t} : Unwatched(o)
  BY <1>2 DEF Unwatched
<1>4. ASSUME Unwatched(t), UNCHANGED <<sock, members>>, excused \subseteq excused', unlisted \subseteq unlisted',
             \A w \in Users : hash[w].status = "active" => hash'[w].status = "active"
      PROVE  Registered' /\ Covered'
  <2>1. \A o \in Tasks : Unwatched(o)
    BY <1>3, <1>4
  <2> QED
    BY <1>4, <2>1, PresenceAside
<1>5. CASE DelFlag(t) \/ OnlineExists(t) \/ OnlineMongo(t)
  <2>1. UNCHANGED <<sock, members, hash, excused, unlisted>>
    BY <1>5 DEF DelFlag, OnlineExists, OnlineMongo, presence, past
  <2>2. /\ \/ task[t].pc = "delFlag" /\ task'[t].pc = "sAdd"
           \/ {task[t].pc, task'[t].pc} \subseteq Writing
        /\ task'[t].me = task[t].me /\ task'[t].sock = task[t].sock
    BY <1>1, <1>5, GoesOn DEF DelFlag, OnlineExists, OnlineMongo, At, Pc, JoinPc, OnlinePc, Writing
  <2>3. Registered'
    BY <1>2, <2>1, <2>2 DEF Registered, Writing
  <2>4. \A x : /\ LostId(x) => LostId(x)'
               /\ Counting(x) => Counting(x)'
    BY <1>2, <2>1, <2>2 DEF LostId, Counting, Writing
  <2>5. \A w \in Users : (\E o \in Tasks : task[o].me = w /\ task[o].pc \in Writing)
                         => \E o \in Tasks : task'[o].me = w /\ task'[o].pc \in Writing
    BY <1>2, <2>2 DEF Writing
  <2> QED
    BY <2>1, <2>3, <2>4, <2>5 DEF Covered
<1>6. CASE CountIn(t)
  BY <1>6, CountInKeeps
<1>7. CASE Register(t) \/ Unregister(t)
  BY <1>7, RegisterKeeps
<1>8. CASE OnlineHash(t) \/ OfflineHash(t)
  BY <1>8, HashKeeps
<1>9. CASE \/ OnlineGlobal(t) \/ BeatExists(t) \/ CountOut(t) \/ SetFlag(t) \/ GraceOver(t)
           \/ OfflineMongo(t) \/ OfflineGlobal(t)
  <2>1. UNCHANGED <<sock, members, hash, excused, unlisted>>
    BY <1>9 DEF OnlineGlobal, BeatExists, CountOut, SetFlag, GraceOver, OfflineMongo, OfflineGlobal, presence, past
  <2>2. task[t].pc \notin WatchPc
    BY <1>9 DEF OnlineGlobal, BeatExists, CountOut, SetFlag, GraceOver, OfflineMongo, OfflineGlobal, At,
                WatchPc, Writing
  <2>3. task'[t].pc \in {"idle", "hbSet", "setEx", "grace", "getFlag", "delHash"}
    BY <1>1, <1>9, GoesOn, GoesHome
       DEF OnlineGlobal, BeatExists, CountOut, SetFlag, GraceOver, OfflineMongo, OfflineGlobal,
           Pc, BeatPc, LeavePc, GracePc
  <2>4. Unwatched(t)
    BY <2>2, <2>3 DEF Unwatched, WatchPc, Writing
  <2> QED
    BY <1>4, <2>1, <2>4
<1>10. CASE OnlineExpire(t) \/ BeatExpire(t)
  <2>1. UNCHANGED <<sock, members, excused, unlisted>> /\ hash' = Renewed(task[t].me) /\ task[t].pc \in {"expire", "hbExpire"}
    BY <1>10 DEF OnlineExpire, BeatExpire, At
  <2>2. task'[t].pc \in {"idle", "globalAdd"}
    BY <1>1, <1>10, GoesOn, GoesHome DEF OnlineExpire, BeatExpire, Pc, OnlinePc
  <2>3. Unwatched(t)
    BY <2>1, <2>2 DEF Unwatched, WatchPc, Writing
  <2>4. \A w \in Users : hash[w].status = "active" => hash'[w].status = "active"
    BY <1>1, <2>1, RenewedHash
  <2> QED
    BY <1>4, <2>1, <2>3, <2>4
<1>11. CASE BeatSet(t)
  <2>1. UNCHANGED <<sock, members, excused, unlisted>> /\ task[t].pc = "hbSet"
    BY <1>11 DEF BeatSet, At, past
  <2>2. task'[t].pc = "hbExpire"
    BY <1>1, <1>11, GoesOn DEF BeatSet, Pc, BeatPc
  <2>3. Unwatched(t)
    BY <2>1, <2>2 DEF Unwatched, WatchPc, Writing
  <2>4. \A w \in Users : hash[w].status = "active" => hash'[w].status = "active"
    BY <1>1, <1>11, <2>1 DEF BeatSet
  <2> QED
    BY <1>4, <2>1, <2>3, <2>4
<1>12. CASE GetFlag(t) \/ FinalCount(t)
  <2>1. UNCHANGED <<sock, members, hash, excused, unlisted>> /\ task[t].pc \in {"getFlag", "finalCard"}
    BY <1>12 DEF GetFlag, FinalCount, At, presence, past
  <2>2. task'[t].pc \in {"idle", "finalCard", "mongoOff"}
    <3>1. CASE GetFlag(t)
      BY <1>1, <3>1 DEF GetFlag, TaskType
    <3>2. CASE FinalCount(t)
      BY <1>1, <3>2, IdleType DEF FinalCount, TaskType
    <3> QED
      BY <1>12, <3>1, <3>2
  <2>3. Unwatched(t)
    BY <2>1, <2>2 DEF Unwatched, WatchPc, Writing
  <2> QED
    BY <1>4, <2>1, <2>3
<1> QED
  BY <1>5, <1>6, <1>7, <1>8, <1>9, <1>10, <1>11, <1>12 DEF PresenceStep

(* A handler whose command fails leaves its tab out of the set, or its     *)
(* user excused when the hash was still to be written.                     *)
LEMMA FailureKeepsPresence ==
  ASSUME PresenceInv, NEW t \in Tasks, PresenceFails(t)
  PROVE  Registered' /\ Covered'
<1> DEFINE u == task[t].me
           s == task[t].sock
<1> USE DEF PresenceInv
<1>1. /\ \A o \in Tasks \ {t} : task'[o] = task[o]
      /\ task'[t].pc = "idle" /\ u \in Users /\ UNCHANGED <<sock, members, hash>>
      /\ unlisted' = (IF task[t].pc \in {"delFlag", "sAdd"} THEN unlisted \cup {s} ELSE unlisted)
      /\ excused \subseteq excused'
      /\ task[t].pc \in {"sCard"} \cup Writing /\ hash[u].status # "active" => u \in excused'
  BY FailureMoves, IdleType DEF Moves, presence
<1>2. Registered'
  BY <1>1 DEF Registered
<1>3. /\ task[t].pc = "sCard" => u = Owner[s]
      /\ \A w \in Users : \A x \in members[w] : x \in Sockets /\ Owner[x] = w
  BY DEF Types, TaskTypes, PresenceTypes, Shape, TabPc, JoinPc
<1>4. ASSUME NEW w \in Users, w \notin excused', hash'[w].status # "active",
             ~ \E o \in Tasks : task'[o].me = w /\ task'[o].pc \in Writing,
             NEW x \in members'[w]
      PROVE  LostId(x)' \/ Counting(x)'
  <2>1. x \in members[w] /\ x \in Sockets /\ Owner[x] = w
    BY <1>1, <1>3, <1>4
  <2>2. w # u \/ task[t].pc \notin {"sCard"} \cup Writing
    BY <1>1, <1>4
  <2>3. ~ \E o \in Tasks : task[o].me = w /\ task[o].pc \in Writing
    BY <1>1, <1>4, <2>2
  <2>4. LostId(x) \/ Counting(x)
    BY <1>1, <1>4, <2>1, <2>3 DEF Covered
  <2>5. LostId(x) => LostId(x)'
    BY <1>1 DEF LostId
  <2>6. Counting(x) => Counting(x)'
    BY <1>1, <1>3, <2>1, <2>2 DEF Counting
  <2> QED
    BY <2>4, <2>5, <2>6
<1> QED
  BY <1>2, <1>4 DEF Covered

(* The handlers of pairs and readers, and the pages, are no part of it.    *)
LEMMA OthersKeepPresence ==
  ASSUME PresenceInv, NEW t \in Tasks,
         \/ \E u, v \in Users : Calls(t, u, v)
         \/ \E u \in Users : Reads(t, u)
         \/ FriendStep(t) \/ FriendFails(t)
         \/ ReaderStep(t) \/ DropFails(t)
  PROVE  Registered' /\ Covered'
<1> USE DEF PresenceInv
<1>1. UNCHANGED <<presence, excused, unlisted>> /\ \A o \in Tasks : Unwatched(o)
  <2>1. CASE \E u, v \in Users : Calls(t, u, v)
    <3>1. /\ UNCHANGED <<presence, excused, unlisted>>
          /\ \A o \in Tasks \ {t} : task'[o] = task[o]
          /\ task[t].pc = "idle" /\ task'[t].pc \in StartPc
      BY <2>1, PairBegins
    <3> QED
      BY <3>1 DEF Unwatched, WatchPc, Writing, StartPc
  <2>2. CASE \E u \in Users : Reads(t, u)
    <3>1. /\ UNCHANGED <<presence, excused, unlisted>>
          /\ \A o \in Tasks \ {t} : task'[o] = task[o]
          /\ task[t].pc = "idle" /\ task'[t].pc \in {"listExists", "proGet", "proWrite"}
      BY <2>2, ReadBegins
    <3> QED
      BY <3>1 DEF Unwatched, WatchPc, Writing
  <2>3. CASE FriendStep(t) \/ FriendFails(t)
    BY <2>3, FriendMoves DEF Moves, Unwatched, WatchPc, Writing, FriendPc
  <2>4. CASE ReaderStep(t) \/ DropFails(t)
    BY <2>4, ReaderMoves DEF Moves, Unwatched, WatchPc, Writing, CachePc
  <2> QED
    BY <2>1, <2>2, <2>3, <2>4
<1>2. UNCHANGED <<sock, members, hash>>
  BY <1>1 DEF presence
<1> QED
  BY <1>1, <1>2, PresenceAside

(* A hash that expires under members excuses its user.                     *)
LEMMA ExpiresKeepPresence ==
  ASSUME PresenceInv, NEW u \in Users, Expires(u)
  PROVE  Registered' /\ Covered'
<1> USE DEF PresenceInv
<1>1. UNCHANGED <<task, sock, members, unlisted>>
  BY ExpiresTypes
<1>2. \A t \in Tasks : Unwatched(t)
  BY <1>1 DEF Unwatched
<1>3. CASE FlagExpires(u) \/ SetExpires(u) \/ ProfileExpires(u)
  <2>1. UNCHANGED <<hash, excused, unlisted>>
    BY <1>3 DEF FlagExpires, SetExpires, ProfileExpires, presence, past
  <2> QED
    BY <1>1, <1>2, <2>1, PresenceAside
<1>4. CASE HashExpires(u)
  <2>1. /\ hash' = [hash EXCEPT ![u] = NoHash] /\ hash \in [Users -> Hash]
        /\ excused' = IF members[u] # {} THEN excused \cup {u} ELSE excused
    BY <1>4 DEF HashExpires, Types, PresenceTypes
  <2>2. Registered'
    BY <1>1 DEF Registered
  <2>3. \A x : (LostId(x) <=> LostId(x)') /\ (Counting(x) <=> Counting(x)')
    BY <1>1 DEF LostId, Counting
  <2>4. \A w \in Users \ {u} : hash'[w] = hash[w]
    BY <2>1
  <2>5. members[u] = {} \/ u \in excused'
    BY <2>1
  <2> QED
    BY <1>1, <2>1, <2>2, <2>3, <2>4, <2>5 DEF Covered
<1> QED
  BY <1>3, <1>4 DEF Expires

(* A replica that dies takes its handlers with it: a user whose hash one   *)
(* was about to write is excused, and the tab of one that was counting is  *)
(* lost with it, and so is any removal of its id.                          *)
LEMMA CrashKeepsPresence ==
  ASSUME PresenceInv, NEW n \in Nodes, Crash(n)
  PROVE  Registered' /\ Covered'
<1> USE DEF PresenceInv
<1>1. /\ \A t \in Tasks : task'[t] = IF Place[t] = n THEN Idle ELSE task[t]
      /\ \A s \in Sockets : sock'[s] = IF Home[s] = n /\ sock[s] = "live" THEN "lost" ELSE sock[s]
      /\ UNCHANGED <<members, hash, unlisted>>
  BY CrashTypes
<1>2. excused' = excused \cup {task[t].me : t \in {o \in Tasks : Place[o] = n /\ task[o].pc \in Writing}}
  BY DEF Crash, Writing
<1>3. /\ \A t \in Tasks : task[t].pc \in TabPc => task[t].sock \in Sockets /\ Place[t] = Home[task[t].sock]
      /\ \A u \in Users : members[u] \subseteq Sockets
  BY DEF Types, TaskTypes, PresenceTypes, Shape
<1>4. Idle.pc = "idle"
  BY IdleType
<1>5. Registered'
  <2> SUFFICES ASSUME NEW s \in Sockets
               PROVE  /\ sock'[s] = "live" =>
                           \/ s \in members'[Owner[s]] \/ s \in unlisted'
                           \/ \E t \in Tasks : task'[t].sock = s /\ task'[t].pc \in {"delFlag", "sAdd"}
                      /\ \A u \in Users : s \in members'[u] => sock'[s] # "new"
    BY DEF Registered
  <2>1. ASSUME sock'[s] = "live", s \notin members'[Owner[s]], s \notin unlisted'
        PROVE  \E t \in Tasks : task'[t].sock = s /\ task'[t].pc \in {"delFlag", "sAdd"}
    <3>1. sock[s] = "live" /\ Home[s] # n
      BY <1>1, <2>1
    <3>2. PICK t \in Tasks : task[t].sock = s /\ task[t].pc \in {"delFlag", "sAdd"}
      BY <1>1, <2>1, <3>1 DEF Registered
    <3>3. Place[t] # n
      BY <1>3, <3>1, <3>2 DEF TabPc, JoinPc
    <3> QED
      BY <1>1, <3>2, <3>3
  <2>2. \A u \in Users : s \in members'[u] => sock'[s] # "new"
    BY <1>1 DEF Registered
  <2> QED
    BY <2>1, <2>2
<1>6. ASSUME NEW s \in Sockets, LostId(s)
      PROVE  LostId(s)'
  BY <1>1, <1>4, <1>6 DEF LostId
<1>7. ASSUME NEW s \in Sockets, Counting(s)
      PROVE  LostId(s)' \/ Counting(s)'
  <2>1. PICK t \in Tasks : task[t].sock = s /\ task[t].pc = "sCard"
    BY <1>7 DEF Counting
  <2>2. CASE Place[t] = n
    <3>1. Home[s] = n
      BY <1>3, <2>1, <2>2 DEF TabPc, JoinPc
    <3>2. sock'[s] # "live"
      BY <1>1, <3>1
    <3>3. ~ \E o \in Tasks : task'[o].sock = s /\ task'[o].pc = "sRem"
      BY <1>1, <1>3, <1>4, <3>1 DEF TabPc
    <3> QED
      BY <3>2, <3>3 DEF LostId
  <2>3. CASE Place[t] # n
    BY <1>1, <2>1, <2>3 DEF Counting
  <2> QED
    BY <2>2, <2>3
<1>8. ASSUME NEW u \in Users, u \notin excused', hash'[u].status # "active"
      PROVE  \/ \E t \in Tasks : task'[t].me = u /\ task'[t].pc \in Writing
             \/ \A s \in members'[u] : LostId(s)' \/ Counting(s)'
  <2>1. u \notin excused /\ hash[u].status # "active"
    BY <1>1, <1>2, <1>8
  <2>2. CASE \E t \in Tasks : task[t].me = u /\ task[t].pc \in Writing
    <3>1. PICK t \in Tasks : task[t].me = u /\ task[t].pc \in Writing
      BY <2>2
    <3>2. Place[t] # n
      BY <1>2, <1>8, <3>1
    <3> QED
      BY <1>1, <3>1, <3>2
  <2>3. CASE \A s \in members[u] : LostId(s) \/ Counting(s)
    BY <1>1, <1>3, <1>6, <1>7, <2>3
  <2> QED
    BY <2>1, <2>2, <2>3 DEF Covered
<1> QED
  BY <1>5, <1>8 DEF Covered

(* What the presence rests on is kept by every step.                       *)
LEMMA PresenceInvKept == PresenceInv /\ [Next]_vars => PresenceInv'
<1> SUFFICES ASSUME PresenceInv, [Next]_vars PROVE Registered' /\ Covered'
  BY TypesKept DEF PresenceInv
<1>1. CASE Next
  <2>1. CASE \E t \in Tasks : Handles(t)
    BY <2>1, TabKeepsPresence, PresenceStepKeeps, FailureKeepsPresence, OthersKeepPresence DEF Handles
  <2>2. CASE \E u \in Users : Expires(u)
    BY <2>2, ExpiresKeepPresence
  <2>3. CASE \E u \in Users, e \in Event : Receive(u, e)
    <3>1. UNCHANGED <<presence, task, past>>
      BY <2>3, ReceiveTypes DEF PresenceInv
    <3> QED
      BY <3>1, PresenceAside DEF PresenceInv, presence, past, Unwatched
  <2>4. CASE \E n \in Nodes : Crash(n)
    BY <2>4, CrashKeepsPresence
  <2> QED
    BY <1>1, <2>1, <2>2, <2>3, <2>4, StepKinds
<1>2. CASE UNCHANGED vars
  BY <1>2, PresenceAside DEF PresenceInv, vars, presence, past, Unwatched
<1> QED
  BY <1>1, <1>2

(* What the presence rests on holds when nobody is connected.              *)
LEMMA PresenceInvInit == Init => PresenceInv
<1> SUFFICES ASSUME Init PROVE PresenceInv
  OBVIOUS
<1>1. Types
  BY TypesInit
<1>2. Registered /\ Covered
  BY DEF Init, Registered, Covered
<1> QED
  BY <1>1, <1>2 DEF PresenceInv

(* When the user's handlers are done, a live tab is a member whose id is   *)
(* neither lost nor counting.                                              *)
LEMMA PresenceFollows == PresenceInv => PresenceKept
<1> SUFFICES ASSUME PresenceInv, NEW u \in Users, Resting(u), NEW s \in Sockets, Tab(u, s), ~Present(u),
                    u \notin excused
             PROVE  FALSE
  BY TypesSuffice DEF PresenceKept, PresenceInv
<1>1. Owner[s] = u /\ sock[s] = "live" /\ s \notin unlisted /\ hash[u].status # "active"
  BY DEF Tab, Present
<1>2. \A t \in Tasks : task[t].me # u
  BY DEF Resting
<1>3. \A t \in Tasks : task[t].pc \in TabPc => task[t].me = Owner[task[t].sock]
  BY DEF PresenceInv, Types, TaskTypes, Shape
<1>4. ~ \E t \in Tasks : task[t].sock = s /\ task[t].pc \in TabPc
  BY <1>1, <1>2, <1>3
<1>5. s \in members[u]
  BY <1>1, <1>4 DEF PresenceInv, Registered, TabPc, JoinPc
<1>6. LostId(s) \/ Counting(s)
  BY <1>1, <1>2, <1>5 DEF PresenceInv, Covered
<1> QED
  BY <1>1, <1>4, <1>6 DEF LostId, Counting, TabPc, JoinPc

(* A user with a live tab in his set of sockets is present unless he is    *)
(* excused: two tabs that registered at once, a leaked id, a tab that came *)
(* between a grace timer's count and its write, a hash that expired, or a  *)
(* crash or a failed command before the hash was written                   *)
(* (presenceHandler.js, presenceService.js).                               *)
THEOREM PresenceStays == Spec => []PresenceKept
<1>1. Spec => []PresenceInv
  BY PresenceInvInit, PresenceInvKept, PTL DEF Spec
<1> QED
  BY <1>1, PresenceFollows, PTL

-----------------------------------------------------------------------------
(* A handler works on the pair from either side.                           *)
LEMMA OnSides ==
  ASSUME NEW t, NEW u, NEW v
  PROVE  (On(t, u, v) <=> On(t, v, u)) /\ (Clear(u, v) <=> Clear(v, u)) /\ (Before(u, v) <=> Before(v, u))
BY DEF On, Clear, Pair, Before

(* A step that leaves alone what concerns a pair keeps its invariant: its  *)
(* handlers and events, what its lists, sets and pages say of it, and the  *)
(* readers that have read, while others may end.                           *)
SameEvents(u, v) == \A e \in Event : e.peer = v => (BagIn(e, inbox'[u]) <=> BagIn(e, inbox[u]))
SameTasks(u, v) ==
  /\ \A o \in Tasks : On(o, u, v) \/ On(o, u, v)' => task'[o] = task[o]
  /\ \A o \in Tasks : task'[o].me \in {u, v} /\ task'[o].pc \in Listing =>
                      task[o].me = task'[o].me /\ task[o].pc \in Listing
  /\ \A o \in Tasks : task'[o].me = u /\ task'[o].pc \in {"listFill", "listMark"} => task'[o] = task[o]

(* Such a step keeps the invariant of the pair.                            *)
LEMMA PairKept ==
  ASSUME NEW u \in Users, NEW v \in Users, PairInv(u, v), raced \subseteq raced', stale \subseteq stale',
         Clear(u, v)' => SameTasks(u, v), SameEvents(u, v),
         v \in friends'[u] <=> v \in friends[u], u \in friends'[v] <=> u \in friends[v],
         v \in view'[u] <=> v \in view[u],
         \/ u \in stale' \/ cache'[u] = {}
         \/ cache[u] # {} /\ (v \in cache'[u] <=> v \in cache[u])
         \/ v \notin cache'[u] /\ v \notin friends[u]
  PROVE  PairInv(u, v)'
<1> SUFFICES ASSUME Clear(u, v)'
             PROVE  AloneAt(u, v)' /\ ListsAt(u, v)' /\ ToldAt(u, v)' /\ CacheAt(u, v)' /\ PageAt(u, v)'
  BY DEF PairInv
<1>1. Clear(u, v)
  BY DEF Clear
<1>2. AloneAt(u, v) /\ ListsAt(u, v) /\ ToldAt(u, v) /\ CacheAt(u, v) /\ PageAt(u, v) /\ SameTasks(u, v)
  BY <1>1 DEF PairInv
<1>3. \A o \in Tasks : (On(o, u, v) <=> On(o, u, v)') /\ (On(o, u, v) => task'[o] = task[o])
  BY <1>2 DEF SameTasks, On
<1>4. (Reading(u, Listing)' => Reading(u, Listing)) /\ (Reading(v, Listing)' => Reading(v, Listing))
  BY <1>2 DEF SameTasks, Reading
<1>5. News(u, v)' <=> News(u, v)
  BY DEF News, SameEvents
<1>6. AloneAt(u, v)'
  BY <1>2, <1>3, <1>4, <1>5 DEF AloneAt
<1>7. Before(u, v)' <=> Before(u, v)
  BY <1>3 DEF Before
<1>8. ListsAt(u, v)'
  BY <1>2, <1>3, <1>7 DEF ListsAt
<1>9. ToldAt(u, v)'
  BY <1>2 DEF ToldAt, SameEvents
<1>10. Written(u, v)' <=> Written(u, v)
  BY <1>3 DEF Written, CacheDue
<1>11. CacheAt(u, v)'
  BY <1>2, <1>10 DEF CacheAt
<1>12. PageAt(u, v)'
  BY <1>2, <1>5, <1>7 DEF PageAt, SameTasks
<1> QED
  BY <1>6, <1>8, <1>9, <1>11, <1>12

PairsExact == \A u, v \in Users : PairInv(u, v)

(* What is no friend request, reader or page is no part of it.             *)
Distant(t) ==
  \/ task'[t] = task[t]
  \/ task[t].pc \notin FriendPc \cup CachePc /\ task'[t].pc \notin FriendPc \cup CachePc

(* Steps of presence handlers keep the agreement.                          *)
LEMMA FriendsAside ==
  ASSUME PairsExact, ProfileExact, UNCHANGED <<people, clients, raced, stale>>,
         \A t \in Tasks : Distant(t)
  PROVE  PairsExact' /\ ProfileExact'
<1>1. \A o \in Tasks : /\ task[o].pc \in FriendPc \cup CachePc => task'[o] = task[o]
                       /\ task'[o].pc \in FriendPc \cup CachePc => task'[o] = task[o]
  BY DEF Distant
<1>2. ASSUME NEW u \in Users, NEW v \in Users
      PROVE  PairInv(u, v)'
  <2>1. SameTasks(u, v)
    BY <1>1 DEF SameTasks, On, Listing, CachePc
  <2>2. SameEvents(u, v)
    BY DEF SameEvents, clients
  <2>3. PairInv(u, v)
    BY DEF PairsExact
  <2> QED
    BY <2>1, <2>2, <2>3, PairKept DEF people, redis, clients
<1>3. ProfileExact'
  BY <1>1 DEF ProfileExact, people, redis, CachePc
<1> QED
  BY <1>2, <1>3 DEF PairsExact

(* A pair is busy from either side when a handler or an event is about it. *)
LEMMA BusyMeans ==
  ASSUME NEW u, NEW v
  PROVE  FriendBusy(u, v) <=> (\E t \in Tasks : On(t, u, v)) \/ News(u, v) \/ News(v, u)
BY DEF FriendBusy, On, News

(* A handler that starts on a pair finds it at rest, or the pair is raced. *)
LEMMA CallsKeepFriends ==
  ASSUME FriendInv, NEW t \in Tasks, NEW p \in Users, NEW q \in Users, Calls(t, p, q)
  PROVE  PairsExact' /\ ProfileExact'
<1>1. Types /\ PairsExact /\ ProfileExact
  BY DEF FriendInv, PairsExact
<1>2. /\ p # q /\ \A o \in Tasks \ {t} : task'[o] = task[o]
      /\ task[t].pc = "idle" /\ task'[t].pc \in StartPc /\ task'[t].me = p /\ task'[t].peer = q
      /\ raced' = IF FriendBusy(p, q) \/ Reading(p, Listing) \/ Reading(q, Listing)
                  THEN raced \cup {Pair(p, q)} ELSE raced
      /\ UNCHANGED <<people, presence, clients, stale, excused, torn, unlisted>>
  BY <1>1, PairBegins
<1>3. /\ task[t].pc \notin FriendPc \cup CachePc /\ task'[t].pc \notin CachePc /\ task'[t].pc \in Early
      /\ task'[t].pc \in FriendPc
  BY <1>2 DEF StartPc, FriendPc, CachePc, Early
<1>4. raced \subseteq raced'
  BY <1>2
<1>5. ASSUME NEW u \in Users, NEW v \in Users
      PROVE  PairInv(u, v)'
  <2>1. PairInv(u, v) /\ SameEvents(u, v)
    BY <1>1, <1>2 DEF PairsExact, SameEvents, clients
  <2>2. CASE {u, v} # {p, q}
    <3>1. SameTasks(u, v)
      BY <1>2, <1>3, <2>2 DEF SameTasks, On, Listing, CachePc
    <3> QED
      BY <1>2, <1>4, <2>1, <3>1, PairKept DEF people, redis, clients
  <2>3. CASE {u, v} = {p, q}
    <3> SUFFICES ASSUME Clear(u, v)'
                 PROVE  AloneAt(u, v)' /\ ListsAt(u, v)' /\ ToldAt(u, v)' /\ CacheAt(u, v)' /\ PageAt(u, v)'
      BY DEF PairInv
    <3>1. Pair(p, q) = Pair(u, v) /\ Clear(u, v)
      BY <1>4, <2>3 DEF Clear, Pair
    <3>2. ~FriendBusy(p, q) /\ ~Reading(p, Listing) /\ ~Reading(q, Listing)
      BY <1>2, <3>1 DEF Clear
    <3>3. ~(\E o \in Tasks : On(o, u, v)) /\ ~News(u, v) /\ ~News(v, u)
      BY <2>3, <3>2, BusyMeans DEF On
    <3>4. ~Reading(u, Listing) /\ ~Reading(v, Listing)
      BY <2>3, <3>2
    <3>5. ListsAt(u, v) /\ ToldAt(u, v) /\ CacheAt(u, v) /\ PageAt(u, v)
      BY <2>1, <3>1 DEF PairInv
    <3>6. \A o \in Tasks : On(o, u, v)' => o = t
      BY <1>2, <3>3 DEF On
    <3>7. ~News(u, v)' /\ ~Reading(u, Listing)' /\ ~Reading(v, Listing)'
      BY <1>2, <1>3, <3>3, <3>4 DEF News, clients, Reading, Listing, CachePc
    <3>8. AloneAt(u, v)'
      BY <3>6, <3>7 DEF AloneAt
    <3>9. Before(u, v) /\ Before(u, v)' /\ Written(u, v)
      BY <1>3, <3>3, <3>6 DEF Before, Written
    <3>10. UNCHANGED <<friends, cache, view, inbox, stale>>
      BY <1>2 DEF people, redis, clients
    <3>11. ListsAt(u, v)'
      BY <1>3, <3>5, <3>6, <3>9, <3>10 DEF ListsAt, Early
    <3>12. ToldAt(u, v)' /\ CacheAt(u, v)'
      BY <3>5, <3>9, <3>10 DEF ToldAt, CacheAt
    <3>13. \A o \in Tasks : task'[o].me = u => task'[o].pc \notin {"listFill", "listMark"}
      BY <3>7 DEF Reading, Listing
    <3>14. PageAt(u, v)'
      BY <3>3, <3>5, <3>9, <3>10, <3>13 DEF PageAt
    <3> QED
      BY <3>8, <3>11, <3>12, <3>14
  <2> QED
    BY <2>2, <2>3
<1>6. ProfileExact'
  BY <1>1, <1>2, <1>3 DEF ProfileExact, people, redis, CachePc
<1> QED
  BY <1>5, <1>6 DEF PairsExact

(* A page that begins to load a list races with every busy pair of its     *)
(* user.                                                                   *)
LEMMA ReadsKeepFriends ==
  ASSUME FriendInv, NEW t \in Tasks, NEW p \in Users, Reads(t, p)
  PROVE  PairsExact' /\ ProfileExact'
<1>1. Types /\ PairsExact /\ ProfileExact
  BY DEF FriendInv, PairsExact
<1>2. /\ \A o \in Tasks \ {t} : task'[o] = task[o]
      /\ task[t].pc = "idle" /\ task'[t].pc \in {"listExists", "proGet", "proWrite"} /\ task'[t].me = p
      /\ raced \subseteq raced'
      /\ task'[t].pc = "listExists" =>
           \A w \in Users \ {p} : FriendBusy(p, w) => Pair(p, w) \in raced'
      /\ UNCHANGED <<people, presence, clients, stale, excused, torn, unlisted>>
  BY <1>1, ReadBegins
<1>3. task[t].pc \notin FriendPc \cup CachePc /\ task'[t].pc \notin FriendPc
  BY <1>2 DEF FriendPc, CachePc
<1>4. ASSUME NEW u \in Users, NEW v \in Users
      PROVE  PairInv(u, v)'
  <2>1. PairInv(u, v) /\ SameEvents(u, v)
    BY <1>1, <1>2 DEF PairsExact, SameEvents, clients
  <2>2. CASE task'[t].pc # "listExists" \/ p \notin {u, v}
    <3>1. SameTasks(u, v)
      BY <1>2, <1>3, <2>2 DEF SameTasks, On, Listing
    <3> QED
      BY <1>2, <2>1, <3>1, PairKept DEF people, redis, clients
  <2>3. CASE task'[t].pc = "listExists" /\ p \in {u, v}
    <3> SUFFICES ASSUME Clear(u, v)'
                 PROVE  AloneAt(u, v)' /\ ListsAt(u, v)' /\ ToldAt(u, v)' /\ CacheAt(u, v)' /\ PageAt(u, v)'
      BY DEF PairInv
    <3>1. Clear(u, v)
      BY <1>2 DEF Clear
    <3>2. PICK w \in Users \ {p} : {p, w} = {u, v}
      BY <2>3, <3>1 DEF Clear
    <3>3. ~FriendBusy(p, w)
      BY <1>2, <2>3, <3>2 DEF Clear, Pair
    <3>4. ~(\E o \in Tasks : On(o, u, v)) /\ ~News(u, v) /\ ~News(v, u)
      <4>1. ~(\E o \in Tasks : On(o, p, w)) /\ ~News(p, w) /\ ~News(w, p)
        BY <3>3, BusyMeans
      <4>2. (p = u /\ w = v) \/ (p = v /\ w = u)
        BY <3>2
      <4> QED
        BY <3>2, <4>1, <4>2 DEF On
    <3>5. ListsAt(u, v) /\ ToldAt(u, v) /\ CacheAt(u, v) /\ PageAt(u, v)
      BY <2>1, <3>1 DEF PairInv
    <3>6. ~(\E o \in Tasks : On(o, u, v)')
      BY <1>2, <1>3, <3>4 DEF On
    <3>7. UNCHANGED <<friends, cache, view, inbox, stale>>
      BY <1>2 DEF people, redis, clients
    <3>8. ~News(u, v)'
      BY <3>4, <3>7 DEF News
    <3>9. Before(u, v) /\ Written(u, v)
      BY <3>4 DEF Before, Written
    <3>10. AloneAt(u, v)' /\ ToldAt(u, v)'
      BY <3>5, <3>6, <3>7, <3>8 DEF AloneAt, ToldAt
    <3>11. ListsAt(u, v)' /\ CacheAt(u, v)'
      BY <3>5, <3>6, <3>7, <3>9 DEF ListsAt, CacheAt
    <3>12. \A o \in Tasks : task'[o].pc \in {"listFill", "listMark"} => task'[o] = task[o]
      BY <1>2
    <3>13. PageAt(u, v)'
      BY <3>4, <3>5, <3>7, <3>9, <3>12 DEF PageAt
    <3> QED
      BY <3>10, <3>11, <3>13
  <2> QED
    BY <2>2, <2>3
<1>5. ProfileExact'
  BY <1>1, <1>2, <1>3 DEF ProfileExact, people, redis, CachePc
<1> QED
  BY <1>4, <1>5 DEF PairsExact

-----------------------------------------------------------------------------
(* What a step of a handler says of another pair than its own.             *)
SameLists(u, v) ==
  /\ SameEvents(u, v) /\ (v \in friends'[u] <=> v \in friends[u])
  /\ \/ u \in stale' \/ cache'[u] = {}
     \/ cache[u] # {} /\ (v \in cache'[u] <=> v \in cache[u])
     \/ v \notin cache'[u] /\ v \notin friends[u]

(* Two users are told of each other.                                       *)
LEMMA BothTold ==
  ASSUME BoxTypes(inbox), NEW x \in Users, NEW y \in Users, x # y, NEW kind \in {"accepted", "removed"},
         inbox' = Post(Post(inbox, x, kind, y), y, kind, x)
  PROVE  \A w \in Users : \A e : BagIn(e, inbox'[w]) <=>
           \/ BagIn(e, inbox[w])
           \/ w = x /\ e = [kind |-> kind, peer |-> y]
           \/ w = y /\ e = [kind |-> kind, peer |-> x]
<1> DEFINE one == Post(inbox, x, kind, y)
<1>1. /\ BoxTypes(Post(inbox, x, kind, y))
      /\ \A w \in Users \ {x} : Post(inbox, x, kind, y)[w] = inbox[w]
      /\ \A e : BagIn(e, Post(inbox, x, kind, y)[x]) <=>
                  BagIn(e, inbox[x]) \/ e = [kind |-> kind, peer |-> y]
  BY ONLY BoxTypes(inbox), PostAdds, x \in Users, y \in Users, kind \in {"accepted", "removed"}
<1>2. BoxTypes(one) /\ \A w \in Users \ {x} : one[w] = inbox[w]
  BY <1>1
<1>3. \A e : BagIn(e, one[x]) <=> BagIn(e, inbox[x]) \/ e = [kind |-> kind, peer |-> y]
  BY <1>1
<1>4. inbox' = Post(one, y, kind, x)
  OBVIOUS
<1> HIDE DEF one
<1>5. /\ BoxTypes(Post(one, y, kind, x))
      /\ \A w \in Users \ {y} : Post(one, y, kind, x)[w] = one[w]
      /\ \A e : BagIn(e, Post(one, y, kind, x)[y]) <=>
                  BagIn(e, one[y]) \/ e = [kind |-> kind, peer |-> x]
  BY ONLY <1>2, PostAdds, x \in Users, y \in Users, kind \in {"accepted", "removed"}
<1> QED
  BY <1>2, <1>3, <1>4, <1>5

(* A handler that is done with its pair tells both.                        *)
Tells(t, kind) ==
  \A w \in Users : \A e : BagIn(e, inbox'[w]) <=>
    \/ BagIn(e, inbox[w])
    \/ w = task[t].me /\ e = [kind |-> kind, peer |-> task[t].peer]
    \/ w = task[t].peer /\ e = [kind |-> kind, peer |-> task[t].me]

(* The two last steps do so.                                               *)
LEMMA EmitTells ==
  ASSUME Types, NEW t \in Tasks
  PROVE  (AcceptEmit(t) => Tells(t, "accepted")) /\ (RemoveEmit(t) => Tells(t, "removed"))
<1>1. At(t, "accEmit") \/ At(t, "remEmit") =>
        task[t].me \in Users /\ task[t].peer \in Users /\ task[t].me # task[t].peer
  BY DEF Types, TaskTypes, Shape, At, FriendPc
<1>2. BoxTypes(inbox)
  BY DEF Types, ClientTypes, BoxTypes
<1>3. ASSUME AcceptEmit(t) PROVE Tells(t, "accepted")
  <2>1. inbox' = Post(Post(inbox, task[t].peer, "accepted", task[t].me), task[t].me, "accepted", task[t].peer)
    BY <1>3 DEF AcceptEmit
  <2>2. /\ task[t].me \in Users /\ task[t].peer \in Users /\ task[t].me # task[t].peer
        /\ "accepted" \in {"accepted", "removed"}
    BY <1>1, <1>3 DEF AcceptEmit
  <2>3. \A w \in Users : \A e : BagIn(e, inbox'[w]) <=>
          \/ BagIn(e, inbox[w])
          \/ w = task[t].peer /\ e = [kind |-> "accepted", peer |-> task[t].me]
          \/ w = task[t].me /\ e = [kind |-> "accepted", peer |-> task[t].peer]
    BY ONLY <1>2, <2>1, <2>2, BothTold
  <2> QED
    BY <2>3 DEF Tells
<1>4. ASSUME RemoveEmit(t) PROVE Tells(t, "removed")
  <2>1. inbox' = Post(Post(inbox, task[t].me, "removed", task[t].peer), task[t].peer, "removed", task[t].me)
    BY <1>4 DEF RemoveEmit
  <2>2. /\ task[t].me \in Users /\ task[t].peer \in Users /\ task[t].me # task[t].peer
        /\ "removed" \in {"accepted", "removed"}
    BY <1>1, <1>4 DEF RemoveEmit
  <2>3. \A w \in Users : \A e : BagIn(e, inbox'[w]) <=>
          \/ BagIn(e, inbox[w])
          \/ w = task[t].me /\ e = [kind |-> "removed", peer |-> task[t].peer]
          \/ w = task[t].peer /\ e = [kind |-> "removed", peer |-> task[t].me]
    BY ONLY <1>2, <2>1, <2>2, BothTold
  <2> QED
    BY <2>3 DEF Tells
<1> QED
  BY <1>3, <1>4

(* They add nothing to what the boxes say of another pair.                 *)
LEMMA EmitsOwn ==
  ASSUME Types, NEW t \in Tasks, AcceptEmit(t) \/ RemoveEmit(t),
         NEW u \in Users, NEW v \in Users, {u, v} # {task[t].me, task[t].peer}
  PROVE  SameEvents(u, v)
<1>1. PICK kind \in {"accepted", "removed"} : Tells(t, kind)
  BY EmitTells
<1>2. \A e : e.peer = v => (BagIn(e, inbox'[u]) <=> BagIn(e, inbox[u]))
  BY <1>1 DEF Tells
<1> QED
  BY <1>2 DEF SameEvents

(* A step of a handler leaves the other pairs alone.                       *)
LEMMA OthersSame ==
  ASSUME Types, NEW t \in Tasks, FriendStep(t) \/ FriendFails(t),
         NEW u \in Users, NEW v \in Users, {u, v} # {task[t].me, task[t].peer}
  PROVE  SameLists(u, v) /\ raced \subseteq raced' /\ stale \subseteq stale'
<1> DEFINE p == task[t].me
           q == task[t].peer
           Goal == SameLists(u, v) /\ raced \subseteq raced' /\ stale \subseteq stale'
<1>1. /\ task[t].pc \in FriendPc
  BY FriendMoves DEF Moves
<1>2. /\ p \in Users /\ q \in Users /\ p # q
      /\ task[t].pc \in SidePc => task[t].todo \subseteq {p, q}
      /\ friends \in [Users -> SUBSET Users] /\ cache \in [Users -> SUBSET (Users \cup {NoFriends})]
  BY <1>1 DEF Types, TaskTypes, Shape, FriendPc, PeopleTypes
<1>3. \A x \in task[t].todo : task[t].pc \in SidePc => Other(t, x) # x /\ {x, Other(t, x)} = {p, q} /\ x \in Users
  BY <1>2, OtherOne
<1>4. CASE \/ RequestRead(t) \/ RequestPush(t) \/ AcceptRead(t) \/ AcceptPull(t) \/ RejectPull(t)
           \/ RemoveRead(t)
  <2>1. UNCHANGED <<friends, cache, inbox, raced, stale>>
    BY <1>4 DEF RequestRead, RequestPush, AcceptRead, AcceptPull, RejectPull, RemoveRead, people, redis, clients, past
  <2> QED
    BY <2>1 DEF SameLists, SameEvents
<1>5. CASE AcceptEmit(t) \/ RemoveEmit(t)
  <2>1. UNCHANGED <<friends, cache, raced, stale>>
    BY <1>5 DEF AcceptEmit, RemoveEmit, people, redis, past
  <2> QED
    BY <1>5, <2>1, EmitsOwn DEF SameLists
<1>6. ASSUME NEW x \in Users, AcceptMongo(t, x) \/ RemoveMongo(t, x) PROVE Goal
  <2>1. /\ UNCHANGED <<cache, inbox, raced>> /\ stale \subseteq stale' /\ x \in task[t].todo /\ task[t].pc \in SidePc
        /\ \/ friends' = [friends EXCEPT ![x] = @ \cup {Other(t, x)}]
           \/ friends' = [friends EXCEPT ![x] = @ \ {Other(t, x)}]
    BY <1>6 DEF AcceptMongo, RemoveMongo, At, SidePc, redis, clients, past
  <2>2. v \in friends'[u] <=> v \in friends[u]
    BY <1>2, <1>3, <2>1
  <2> QED
    BY <2>1, <2>2 DEF SameLists, SameEvents
<1>7. ASSUME NEW x \in Users, AcceptCache(t, x) PROVE Goal
  <2>1. /\ UNCHANGED <<friends, inbox, raced>> /\ x \in task[t].todo /\ task[t].pc \in SidePc
        /\ cache' = [cache EXCEPT ![x] = @ \cup {Other(t, x)}]
        /\ stale' = IF cache[x] = {} /\ friends[x] \ {Other(t, x)} # {} THEN stale \cup {x} ELSE stale
    BY <1>7 DEF AcceptCache, At, SidePc, clients
  <2>2. u # x => cache'[u] = cache[u]
    BY <1>2, <2>1
  <2>3. u = x => v # Other(t, x)
    BY <1>3, <2>1
  <2>4. \/ u \in stale' \/ cache'[u] = {}
        \/ cache[u] # {} /\ (v \in cache'[u] <=> v \in cache[u])
        \/ v \notin cache'[u] /\ v \notin friends[u]
    BY <1>2, <2>1, <2>2, <2>3
  <2> QED
    BY <2>1, <2>4 DEF SameLists, SameEvents
<1>8. ASSUME NEW x \in Users, RemoveCache(t, x) PROVE Goal
  <2>1. /\ UNCHANGED <<friends, inbox, raced, stale>> /\ x \in task[t].todo /\ task[t].pc \in SidePc
        /\ cache' = [cache EXCEPT ![x] = @ \ {Other(t, x)}]
    BY <1>8 DEF RemoveCache, At, SidePc, clients, past
  <2>2. u # x => cache'[u] = cache[u]
    BY <1>2, <2>1
  <2>3. u = x => v # Other(t, x)
    BY <1>3, <2>1
  <2>4. \/ cache'[u] = {}
        \/ cache[u] # {} /\ (v \in cache'[u] <=> v \in cache[u])
    BY <1>2, <2>1, <2>2, <2>3
  <2> QED
    BY <2>1, <2>4 DEF SameLists, SameEvents
<1>9. ASSUME NEW x \in Users, AcceptFails(t, x) \/ RemoveFails(t, x) PROVE Goal
  <2>1. UNCHANGED <<friends, cache, inbox>> /\ raced \subseteq raced' /\ stale \subseteq stale'
    BY <1>9 DEF AcceptFails, RemoveFails, people, redis, clients
  <2> QED
    BY <2>1 DEF SameLists, SameEvents
<1> QED
  BY <1>4, <1>5, <1>6, <1>7, <1>8, <1>9 DEF FriendStep, FriendFails

-----------------------------------------------------------------------------
(* What a step of a handler does to its own pair: it goes on among the     *)
(* commands before its first write, writes the lists one after the other,  *)
(* then the sets, and tells both when it is done.                          *)
OwnStep(t, u, v) ==
  /\ task'[t].pc \in FriendPc => UNCHANGED inbox
  /\ task'[t].pc \in Early \cup {"idle"} => (v \in friends'[u] <=> u \in friends'[v])
  /\ task'[t].pc = "accMongo" /\ u \notin task'[t].todo => v \in friends'[u]
  /\ task'[t].pc \in {"accCache", "accEmit"} => v \in friends'[u]
  /\ task'[t].pc = "remMongo" /\ u \notin task'[t].todo => v \notin friends'[u]
  /\ task'[t].pc \in {"remCache", "remEmit"} => v \notin friends'[u]
  /\ \A e \in Event : e.peer = v /\ BagIn(e, inbox'[u]) => (e.kind = "accepted" <=> v \in friends'[u])
  /\ u \notin stale' /\ cache'[u] # {} /\ ~CacheDue(t, u)' => (v \in cache'[u] <=> v \in friends'[u])
  /\ u \notin stale' /\ task'[t].pc \in Early \cup {"idle"} /\ ~News(u, v)' =>
       (v \in view'[u] <=> v \in friends'[u])

(* A handler at work on a pair that is not raced is alone with it.         *)
LEMMA AtWork ==
  ASSUME PairsExact, NEW t \in Tasks, NEW u \in Users, NEW v \in Users, On(t, u, v), Clear(u, v)
  PROVE  /\ \A o \in Tasks : On(o, u, v) => o = t
         /\ ~News(u, v) /\ ~Reading(u, Listing) /\ ~Reading(v, Listing)
         /\ ListsAt(u, v) /\ CacheAt(u, v) /\ PageAt(u, v) /\ ListsAt(v, u)
         /\ (Before(u, v) <=> task[t].pc \in Early) /\ (Written(u, v) <=> ~CacheDue(t, u))
<1>1. AloneAt(u, v) /\ ListsAt(u, v) /\ CacheAt(u, v) /\ PageAt(u, v)
  BY DEF PairsExact, PairInv
<1>2. AloneAt(v, u) /\ ListsAt(v, u) /\ On(t, v, u)
  BY OnSides DEF PairsExact, PairInv
<1>3. \A o \in Tasks : On(o, u, v) => o = t
  BY <1>1 DEF AloneAt
<1> QED
  BY <1>1, <1>2, <1>3 DEF AloneAt, Before, Written

(* Such a step keeps the invariant of the pair.                            *)
LEMMA OwnKeeps ==
  ASSUME PairsExact, NEW t \in Tasks, NEW u \in Users, NEW v \in Users, On(t, u, v), Clear(u, v),
         Moves(t, FriendPc), OwnStep(t, u, v)
  PROVE  PairInv(u, v)'
<1>1. /\ \A o \in Tasks : On(o, u, v) => o = t
      /\ ~News(u, v) /\ ~Reading(u, Listing) /\ ~Reading(v, Listing)
  BY AtWork
<1>2. task'[t].pc \in FriendPc \cup {"idle"} /\ \A o \in Tasks \ {t} : task'[o] = task[o]
  BY DEF Moves
<1>3. \A o \in Tasks : On(o, u, v)' => o = t /\ task'[t].pc \in FriendPc
  BY <1>1, <1>2 DEF On
<1>4. task'[t].pc \in FriendPc => On(t, u, v)'
  BY DEF Moves, On, FriendPc
<1>5. ~Reading(u, Listing)' /\ ~Reading(v, Listing)'
  BY <1>1, <1>2 DEF Reading, Listing, FriendPc
<1>6. AloneAt(u, v)'
  <2>1. task'[t].pc \in FriendPc => ~News(u, v)'
    BY <1>1 DEF OwnStep, News
  <2> QED
    BY <1>3, <1>5, <2>1 DEF AloneAt
<1>7. Before(u, v)' => task'[t].pc \in Early \cup {"idle"}
  BY <1>2, <1>4 DEF Before
<1>8. Written(u, v)' => ~CacheDue(t, u)'
  BY <1>2, <1>4 DEF Written, CacheDue
<1>9. ListsAt(u, v)'
  BY <1>3, <1>7 DEF ListsAt, OwnStep
<1>10. ToldAt(u, v)'
  BY DEF ToldAt, OwnStep
<1>11. CacheAt(u, v)'
  BY <1>8 DEF CacheAt, OwnStep
<1>12. \A o \in Tasks : task'[o].me = u => task'[o].pc \notin {"listFill", "listMark"}
  BY <1>5 DEF Reading, Listing
<1>13. PageAt(u, v)'
  BY <1>7, <1>12 DEF PageAt, OwnStep
<1> QED
  BY <1>6, <1>9, <1>10, <1>11, <1>13 DEF PairInv

(* The steps before the first write to a list.                             *)
LEMMA EarlyOwn ==
  ASSUME FriendInv, NEW t \in Tasks, NEW u \in Users, NEW v \in Users, On(t, u, v), Clear(u, v),
         \/ RequestRead(t) \/ RequestPush(t) \/ AcceptRead(t) \/ AcceptPull(t) \/ RejectPull(t)
         \/ RemoveRead(t)
  PROVE  OwnStep(t, u, v)
<1>1. /\ Types /\ PairsExact /\ task \in [Tasks -> TaskType]
  BY DEF FriendInv, PairsExact, Types, TaskTypes
<1>2. UNCHANGED <<friends, cache, inbox, view, stale>>
  BY DEF RequestRead, RequestPush, AcceptRead, AcceptPull, RejectPull, RemoveRead, people, redis, clients, past
<1>3. task[t].pc \in Early
  BY DEF RequestRead, RequestPush, AcceptRead, AcceptPull, RejectPull, RemoveRead, At, Early
<1>4. \/ task'[t].pc \in {"reqPush", "accPull", "idle"}
      \/ task'[t].pc \in {"accMongo", "remMongo"} /\ task'[t].todo = {task[t].me, task[t].peer}
  <2>1. CASE RequestRead(t) \/ AcceptRead(t)
    <3>1. Return(t) \/ Goto(t, "reqPush") \/ Goto(t, "accPull")
      BY <2>1 DEF RequestRead, AcceptRead
    <3>2. {"reqPush", "accPull"} \subseteq Pc
      BY DEF Pc, FriendPc
    <3> QED
      BY <1>1, <3>1, <3>2, GoesHome, GoesOn
  <2>2. CASE RequestPush(t) \/ RejectPull(t)
    BY <1>1, <2>2, GoesHome DEF RequestPush, RejectPull
  <2>3. CASE AcceptPull(t)
    BY <1>1, <2>3 DEF AcceptPull, TaskType
  <2>4. CASE RemoveRead(t)
    BY <1>1, <2>4, IdleType DEF RemoveRead, TaskType
  <2> QED
    BY <2>1, <2>2, <2>3, <2>4
<1>5. /\ ~News(u, v) /\ ListsAt(u, v) /\ CacheAt(u, v) /\ PageAt(u, v)
      /\ Before(u, v) /\ (Written(u, v) <=> ~CacheDue(t, u))
  BY <1>1, <1>3, AtWork
<1>6. ~CacheDue(t, u) /\ {task[t].me, task[t].peer} = {u, v}
  BY <1>3 DEF CacheDue, Early, On
<1>7. v \in friends[u] <=> u \in friends[v]
  BY <1>5 DEF ListsAt
<1>8. u \notin stale /\ cache[u] # {} => (v \in cache[u] <=> v \in friends[u])
  BY <1>5, <1>6 DEF CacheAt
<1>9. u \notin stale => (v \in view[u] <=> v \in friends[u])
  BY <1>5 DEF PageAt
<1>10. \A e \in Event : e.peer = v => ~BagIn(e, inbox[u])
  BY <1>5 DEF News
<1>11. u \in task'[t].todo \/ task'[t].pc \in {"reqPush", "accPull", "idle"}
  BY <1>4, <1>6
<1> QED
  BY <1>2, <1>4, <1>7, <1>8, <1>9, <1>10, <1>11 DEF OwnStep, Early

(* The user whose list or set is written is one of the pair.               *)
LEMMA SideOf ==
  ASSUME Types, NEW t \in Tasks, NEW u, NEW v, On(t, u, v), u # v,
         task[t].pc \in SidePc, NEW x \in task[t].todo
  PROVE  /\ (x = u /\ Other(t, x) = v) \/ (x = v /\ Other(t, x) = u)
         /\ {task[t].me, task[t].peer} = {u, v}
<1>1. /\ task[t].todo \subseteq {task[t].me, task[t].peer} /\ task[t].me # task[t].peer
      /\ {task[t].me, task[t].peer} = {u, v}
  BY DEF Types, TaskTypes, Shape, On
<1>2. Other(t, x) # x /\ {x, Other(t, x)} = {task[t].me, task[t].peer}
  BY <1>1, OtherOne
<1> QED
  BY <1>1, <1>2

(* A list of the pair is written.                                          *)
LEMMA MongoOwn ==
  ASSUME FriendInv, NEW t \in Tasks, NEW u \in Users, NEW v \in Users, On(t, u, v), Clear(u, v),
         NEW x \in Users, AcceptMongo(t, x) \/ RemoveMongo(t, x)
  PROVE  OwnStep(t, u, v)
<1>1. Types /\ PairsExact /\ u # v
  BY DEF FriendInv, PairsExact, Clear
<1>2. /\ x \in task[t].todo /\ task[t].pc \in {"accMongo", "remMongo"} /\ UNCHANGED <<cache, inbox, view>>
      /\ task[t].pc \in SidePc
  BY DEF AcceptMongo, RemoveMongo, At, redis, clients, SidePc
<1>3. friends \in [Users -> SUBSET Users]
  BY <1>1 DEF Types, PeopleTypes
<1>4. (x = u /\ Other(t, x) = v) \/ (x = v /\ Other(t, x) = u)
  BY <1>1, <1>2, SideOf
<1>5. /\ ~News(u, v) /\ ListsAt(u, v)
  BY <1>1, AtWork
<1>6. \A e \in Event : e.peer = v => ~BagIn(e, inbox'[u])
  BY <1>2, <1>5 DEF News
<1>7. {task[t].me, task[t].peer} = {u, v}
  BY <1>1, <1>2, SideOf
<1>8. CASE AcceptMongo(t, x)
  <2>1. task[t].pc = "accMongo" /\ Advance(t, x, "accCache") /\ friends' = [friends EXCEPT ![x] = @ \cup {Other(t, x)}]
    BY <1>8 DEF AcceptMongo, At
  <2>2. \/ task[t].todo = {x} /\ task'[t].pc = "accCache" /\ task'[t].todo = {u, v}
        \/ task'[t].pc = "accMongo" /\ task'[t].todo = task[t].todo \ {x}
    BY <1>1, <1>2, <1>7, <2>1, AdvanceMoves DEF FriendPc
  <2>3. u \notin task[t].todo => v \in friends[u]
    BY <1>5, <2>1 DEF ListsAt
  <2>4. v \in friends'[u] <=> v \in friends[u] \/ x = u
    BY <1>1, <1>3, <1>4, <2>1
  <2>5. u \notin task'[t].todo \/ task'[t].pc = "accCache" => v \in friends'[u]
    BY <1>4, <2>2, <2>3, <2>4
  <2>6. CacheDue(t, u)'
    BY <2>2 DEF CacheDue
  <2> QED
    BY <1>2, <1>6, <2>2, <2>5, <2>6 DEF OwnStep, Early
<1>9. CASE RemoveMongo(t, x)
  <2>1. task[t].pc = "remMongo" /\ Advance(t, x, "remCache") /\ friends' = [friends EXCEPT ![x] = @ \ {Other(t, x)}]
    BY <1>9 DEF RemoveMongo, At
  <2>2. \/ task[t].todo = {x} /\ task'[t].pc = "remCache" /\ task'[t].todo = {u, v}
        \/ task'[t].pc = "remMongo" /\ task'[t].todo = task[t].todo \ {x}
    BY <1>1, <1>2, <1>7, <2>1, AdvanceMoves DEF FriendPc
  <2>3. u \notin task[t].todo => v \notin friends[u]
    BY <1>5, <2>1 DEF ListsAt
  <2>4. v \in friends'[u] <=> v \in friends[u] /\ x # u
    BY <1>1, <1>3, <1>4, <2>1
  <2>5. u \notin task'[t].todo \/ task'[t].pc = "remCache" => v \notin friends'[u]
    BY <1>4, <2>2, <2>3, <2>4
  <2>6. CacheDue(t, u)'
    BY <2>2 DEF CacheDue
  <2> QED
    BY <1>2, <1>6, <2>2, <2>5, <2>6 DEF OwnStep, Early
<1> QED
  BY <1>8, <1>9

(* A set of the pair is written, or the command fails.                     *)
LEMMA CacheOwn ==
  ASSUME FriendInv, NEW t \in Tasks, NEW u \in Users, NEW v \in Users, On(t, u, v), Clear(u, v),
         NEW x \in Users, AcceptCache(t, x) \/ RemoveCache(t, x) \/ RemoveFails(t, x)
  PROVE  OwnStep(t, u, v)
<1>1. Types /\ PairsExact /\ u # v
  BY DEF FriendInv, PairsExact, Clear
<1>2. /\ x \in task[t].todo /\ task[t].pc \in {"accCache", "remCache"} /\ UNCHANGED <<friends, inbox, view>>
      /\ task[t].pc \in SidePc /\ stale \subseteq stale'
  BY DEF AcceptCache, RemoveCache, RemoveFails, At, people, redis, clients, SidePc, past
<1>3. cache \in [Users -> SUBSET (Users \cup {NoFriends})]
  BY <1>1 DEF Types, PeopleTypes
<1>4. (x = u /\ Other(t, x) = v) \/ (x = v /\ Other(t, x) = u)
  BY <1>1, <1>2, SideOf
<1>5. /\ ~News(u, v) /\ ListsAt(u, v) /\ CacheAt(u, v) /\ (Written(u, v) <=> ~CacheDue(t, u))
  BY <1>1, AtWork
<1>6. \A e \in Event : e.peer = v => ~BagIn(e, inbox'[u])
  BY <1>2, <1>5 DEF News
<1>7. {task[t].me, task[t].peer} = {u, v}
  BY <1>1, <1>2, SideOf
<1>8. u \notin stale /\ cache[u] # {} /\ u \notin task[t].todo => (v \in cache[u] <=> v \in friends[u])
  BY <1>2, <1>5 DEF CacheAt, CacheDue
<1>9. CASE AcceptCache(t, x)
  <2>1. task[t].pc = "accCache" /\ Advance(t, x, "accEmit") /\ cache' = [cache EXCEPT ![x] = @ \cup {Other(t, x)}]
    BY <1>9 DEF AcceptCache, At
  <2>2. \/ task[t].todo = {x} /\ task'[t].pc = "accEmit"
        \/ task'[t].pc = "accCache" /\ task'[t].todo = task[t].todo \ {x}
    BY <1>1, <1>2, <1>7, <2>1, AdvanceMoves DEF FriendPc
  <2>3. v \in friends'[u]
    BY <1>2, <1>5, <2>1 DEF ListsAt
  <2>4. CASE x = u
    <3>1. v \in cache'[u]
      BY <1>1, <1>3, <1>4, <2>1, <2>4
    <3> QED
      BY <1>2, <1>6, <2>2, <2>3, <3>1 DEF OwnStep, Early
  <2>5. CASE x # u
    <3>1. cache'[u] = cache[u]
      BY <1>3, <2>1, <2>5
    <3>2. ~CacheDue(t, u)' => u \notin task[t].todo
      BY <2>2, <2>5 DEF CacheDue
    <3> QED
      BY <1>2, <1>6, <1>8, <2>2, <2>3, <3>1, <3>2 DEF OwnStep, Early
  <2> QED
    BY <2>4, <2>5
<1>10. CASE RemoveCache(t, x) \/ RemoveFails(t, x)
  <2>1. /\ task[t].pc = "remCache" /\ Advance(t, x, "remEmit")
        /\ cache' = [cache EXCEPT ![x] = @ \ {Other(t, x)}] \/ (UNCHANGED cache /\ x \in stale')
    BY <1>10 DEF RemoveCache, RemoveFails, At, people, redis
  <2>2. \/ task[t].todo = {x} /\ task'[t].pc = "remEmit"
        \/ task'[t].pc = "remCache" /\ task'[t].todo = task[t].todo \ {x}
    BY <1>1, <1>2, <1>7, <2>1, AdvanceMoves DEF FriendPc
  <2>3. v \notin friends'[u]
    BY <1>2, <1>5, <2>1 DEF ListsAt
  <2>4. CASE x = u
    <3>1. v \notin cache'[u] \/ u \in stale'
      BY <1>1, <1>3, <1>4, <2>1, <2>4
    <3> QED
      BY <1>2, <1>6, <2>2, <2>3, <3>1 DEF OwnStep, Early
  <2>5. CASE x # u
    <3>1. cache'[u] = cache[u]
      BY <1>3, <2>1, <2>5
    <3>2. ~CacheDue(t, u)' => u \notin task[t].todo
      BY <2>2, <2>5 DEF CacheDue
    <3> QED
      BY <1>2, <1>6, <1>8, <2>2, <2>3, <3>1, <3>2 DEF OwnStep, Early
  <2> QED
    BY <2>4, <2>5
<1> QED
  BY <1>9, <1>10

(* Both are told what the lists say.                                       *)
LEMMA EmitOwn ==
  ASSUME FriendInv, NEW t \in Tasks, NEW u \in Users, NEW v \in Users, On(t, u, v), Clear(u, v),
         AcceptEmit(t) \/ RemoveEmit(t)
  PROVE  OwnStep(t, u, v)
<1>1. Types /\ PairsExact /\ u # v /\ task \in [Tasks -> TaskType]
  BY DEF FriendInv, PairsExact, Clear, Types, TaskTypes
<1>2. UNCHANGED <<friends, cache, view, stale>>
  BY DEF AcceptEmit, RemoveEmit, people, redis, past
<1>3. task'[t].pc = "idle"
  BY <1>1, GoesHome DEF AcceptEmit, RemoveEmit
<1>4. /\ ~News(u, v) /\ ListsAt(u, v) /\ ListsAt(v, u) /\ CacheAt(u, v) /\ (Written(u, v) <=> ~CacheDue(t, u))
  BY <1>1, AtWork
<1>5. /\ task[t].pc \in {"accEmit", "remEmit"} /\ {task[t].me, task[t].peer} = {u, v}
  BY DEF AcceptEmit, RemoveEmit, At, On
<1>6. u \notin stale /\ cache[u] # {} => (v \in cache[u] <=> v \in friends[u])
  BY <1>4, <1>5 DEF CacheAt, CacheDue
<1>7. On(t, v, u)
  BY OnSides
<1>8. PICK kind \in {"accepted", "removed"} :
        /\ Tells(t, kind) /\ (kind = "accepted" <=> v \in friends[u])
        /\ (kind = "accepted" <=> u \in friends[v])
  <2>1. CASE AcceptEmit(t)
    <3>1. v \in friends[u] /\ u \in friends[v]
      BY <1>4, <1>7, <2>1 DEF ListsAt, AcceptEmit, At
    <3> QED
      BY <1>1, <2>1, <3>1, EmitTells
  <2>2. CASE RemoveEmit(t)
    <3>1. v \notin friends[u] /\ u \notin friends[v]
      BY <1>4, <1>7, <2>2 DEF ListsAt, RemoveEmit, At
    <3> QED
      BY <1>1, <2>2, <3>1, EmitTells
  <2> QED
    BY <2>1, <2>2
<1>9. \A e : e.peer = v => (BagIn(e, inbox'[u]) <=> BagIn(e, inbox[u]) \/ e = [kind |-> kind, peer |-> v])
  BY <1>1, <1>5, <1>8 DEF Tells
<1>10. \A e \in Event : e.peer = v /\ BagIn(e, inbox'[u]) => (e.kind = "accepted" <=> v \in friends'[u])
  BY <1>2, <1>4, <1>8, <1>9 DEF News
<1>11. News(u, v)'
  <2>1. [kind |-> kind, peer |-> v] \in Event
    BY DEF Event
  <2> QED
    BY <1>9, <2>1 DEF News
<1> QED
  BY <1>2, <1>3, <1>6, <1>8, <1>10, <1>11 DEF OwnStep, FriendPc

(* A step of a handler keeps the invariants of its pair and of the others. *)
LEMMA FriendStepKeeps ==
  ASSUME FriendInv, NEW t \in Tasks, FriendStep(t) \/ FriendFails(t)
  PROVE  PairsExact' /\ ProfileExact'
<1>1. Types /\ PairsExact /\ ProfileExact
  BY DEF FriendInv, PairsExact
<1>2. Moves(t, FriendPc) /\ UNCHANGED <<profile, cached, view>>
  BY <1>1, FriendMoves
<1>3. /\ task[t].pc \in FriendPc /\ task'[t].pc \in FriendPc \cup {"idle"}
      /\ task'[t].pc # "idle" => task'[t].me = task[t].me /\ task'[t].peer = task[t].peer
      /\ \A o \in Tasks \ {t} : task'[o] = task[o]
      /\ (FriendPc \cup {"idle"}) \cap CachePc = {} /\ "idle" \notin FriendPc
  BY <1>2 DEF Moves, FriendPc, CachePc
<1>4. ASSUME NEW u \in Users, NEW v \in Users
      PROVE  PairInv(u, v)'
  <2>1. CASE {u, v} # {task[t].me, task[t].peer}
    <3>1. SameLists(u, v) /\ raced \subseteq raced' /\ stale \subseteq stale'
      BY <1>1, <2>1, OthersSame
    <3>2. SameLists(v, u)
      BY <1>1, <2>1, OthersSame
    <3>3. SameTasks(u, v)
      BY <1>3, <2>1 DEF SameTasks, On, Listing, CachePc
    <3>4. PairInv(u, v)
      BY <1>1 DEF PairsExact
    <3> QED
      BY <1>2, <3>1, <3>2, <3>3, <3>4, PairKept DEF SameLists
  <2>2. CASE {u, v} = {task[t].me, task[t].peer} /\ Clear(u, v)'
    <3>1. On(t, u, v)
      BY <1>3, <2>2 DEF On
    <3>2. raced \subseteq raced' /\ \A x \in Users : ~AcceptFails(t, x)
      <4>1. ASSUME NEW x \in Users, AcceptFails(t, x) PROVE FALSE
        BY <2>2, <4>1 DEF AcceptFails, Clear, Pair
      <4>2. CASE \E x \in Users : AcceptMongo(t, x) \/ AcceptCache(t, x) \/ RemoveMongo(t, x)
                                  \/ RemoveCache(t, x) \/ RemoveFails(t, x)
        BY <4>1, <4>2 DEF AcceptMongo, AcceptCache, RemoveMongo, RemoveCache, RemoveFails, past
      <4>3. CASE \/ RequestRead(t) \/ RequestPush(t) \/ AcceptRead(t) \/ AcceptPull(t) \/ RejectPull(t)
                 \/ RemoveRead(t) \/ AcceptEmit(t) \/ RemoveEmit(t)
        BY <4>1, <4>3 DEF RequestRead, RequestPush, AcceptRead, AcceptPull, RejectPull, RemoveRead,
                          AcceptEmit, RemoveEmit, past
      <4> QED
        BY <4>1, <4>2, <4>3 DEF FriendStep, FriendFails
    <3>3. Clear(u, v)
      BY <2>2, <3>2 DEF Clear
    <3>4. OwnStep(t, u, v)
      BY <3>1, <3>2, <3>3, EarlyOwn, MongoOwn, CacheOwn, EmitOwn DEF FriendStep, FriendFails
    <3> QED
      BY <1>1, <1>2, <3>1, <3>3, <3>4, OwnKeeps
  <2>3. CASE ~Clear(u, v)'
    BY <2>3 DEF PairInv
  <2> QED
    BY <2>1, <2>2, <2>3
<1>5. stale \subseteq stale'
  <2>1. CASE \E x \in Users : AcceptMongo(t, x) \/ AcceptCache(t, x) \/ RemoveMongo(t, x)
                              \/ RemoveCache(t, x) \/ RemoveFails(t, x) \/ AcceptFails(t, x)
    BY <2>1 DEF AcceptMongo, AcceptCache, RemoveMongo, RemoveCache, RemoveFails, AcceptFails, past
  <2>2. CASE \/ RequestRead(t) \/ RequestPush(t) \/ AcceptRead(t) \/ AcceptPull(t) \/ RejectPull(t)
             \/ RemoveRead(t) \/ AcceptEmit(t) \/ RemoveEmit(t)
    BY <2>2 DEF RequestRead, RequestPush, AcceptRead, AcceptPull, RejectPull, RemoveRead,
                AcceptEmit, RemoveEmit, past
  <2> QED
    BY <2>1, <2>2 DEF FriendStep, FriendFails
<1>6. ProfileExact'
  BY <1>1, <1>2, <1>3, <1>5 DEF ProfileExact, CachePc
<1> QED
  BY <1>4, <1>6 DEF PairsExact

-----------------------------------------------------------------------------
(* A reader changes the set, the page and the profile of its own user.     *)
LEMMA ReadsOwn ==
  ASSUME Types, NEW t \in Tasks, ReaderStep(t) \/ DropFails(t)
  PROVE  /\ task[t].me \in Users /\ stale \subseteq stale'
         /\ \A w \in Users \ {task[t].me} :
              /\ cache'[w] = cache[w] /\ view'[w] = view[w]
              /\ cached'[w] = cached[w] /\ profile'[w] = profile[w]
         /\ task'[t].pc \in Listing => task[t].pc \in Listing /\ task'[t].me = task[t].me
<1>1. Moves(t, CachePc) /\ task[t].pc \in CachePc
  BY ReaderMoves DEF Moves
<1>2. /\ task[t].me \in Users /\ (task'[t].pc \in Listing => task'[t].me = task[t].me)
      /\ task \in [Tasks -> TaskType]
      /\ cache \in [Users -> SUBSET (Users \cup {NoFriends})] /\ view \in [Users -> SUBSET Users]
      /\ profile \in [Users -> 0..MaxEdits] /\ cached \in [Users -> (0..MaxEdits) \cup {None}]
  BY <1>1 DEF Moves, Types, TaskTypes, Shape, CachePc, Listing, PeopleTypes, ClientTypes
<1> USE DEF past, people, redis, clients, At
<1>3. CASE ListExists(t)
  BY <1>2, <1>3 DEF ListExists, Listing
<1>4. CASE ListMembers(t)
  BY <1>2, <1>4 DEF ListMembers, Listing, Answer
<1>5. CASE ListRead(t)
  BY <1>2, <1>5 DEF ListRead, Listing
<1>6. CASE ListFill(t)
  BY <1>2, <1>6 DEF ListFill, Listing, Answer
<1>7. CASE ListMark(t)
  BY <1>2, <1>7 DEF ListMark, Listing, Answer
<1>8. CASE ProfileGet(t)
  <2>1. Return(t) \/ Goto(t, "proRead")
    BY <1>8 DEF ProfileGet
  <2>2. task'[t].pc \notin Listing
    BY <1>2, <2>1, GoesHome, GoesOn DEF Pc, CachePc, Listing
  <2>3. UNCHANGED <<people, clients, past>>
    BY <1>8 DEF ProfileGet
  <2> QED
    BY <1>2, <2>2, <2>3
<1>9. CASE ProfileRead(t)
  BY <1>2, <1>9 DEF ProfileRead, Listing, TaskType
<1>10. CASE ProfileFill(t)
  BY <1>2, <1>10, GoesHome DEF ProfileFill, Listing
<1>11. CASE ProfileWrite(t)
  <2>1. task'[t].pc \notin Listing
    BY <1>2, <1>11, GoesOn DEF ProfileWrite, Pc, CachePc, Listing
  <2> QED
    BY <1>2, <1>11, <2>1 DEF ProfileWrite
<1>12. CASE ProfileDrop(t)
  BY <1>2, <1>12, GoesHome DEF ProfileDrop, Listing
<1>13. CASE DropFails(t)
  BY <1>2, <1>13, GoesHome DEF DropFails, Listing
<1> QED
  BY <1>2, <1>3, <1>4, <1>5, <1>6, <1>7, <1>8, <1>9, <1>10, <1>11, <1>12, <1>13 DEF ReaderStep

(* What it leaves its own user with.                                       *)
OwnRead(t, u, v) ==
  /\ u \notin stale' /\ cache'[u] # {} /\ Written(u, v) => (v \in cache'[u] <=> v \in friends[u])
  /\ u \notin stale' /\ Before(u, v) /\ ~News(u, v) => (v \in view'[u] <=> v \in friends[u])
  /\ task'[t].pc = "listFill" => (v \in task'[t].seen <=> v \in friends[u])
  /\ task'[t].pc = "listMark" => v \notin friends[u]

(* A page that loads its list gets an exact one.                           *)
LEMMA ReaderOwn ==
  ASSUME FriendInv, NEW t \in Tasks, ReaderStep(t) \/ DropFails(t),
         NEW v \in Users, Clear(task[t].me, v)
  PROVE  OwnRead(t, task[t].me, v)
<1> DEFINE u == task[t].me
<1>1. Types /\ PairsExact /\ u \in Users
  BY ReadsOwn DEF FriendInv, PairsExact
<1>2. /\ task \in [Tasks -> TaskType] /\ v # NoFriends
      /\ cache \in [Users -> SUBSET (Users \cup {NoFriends})] /\ view \in [Users -> SUBSET Users]
  BY <1>1, MarkAssumption DEF Types, TaskTypes, PeopleTypes, ClientTypes
<1>3. AloneAt(u, v) /\ CacheAt(u, v) /\ PageAt(u, v)
  BY <1>1 DEF PairsExact, PairInv
<1>4. task[t].pc \in Listing => Written(u, v)
  BY <1>3 DEF AloneAt, Reading, Written
<1>5. /\ u \notin stale /\ cache[u] # {} /\ Written(u, v) => (v \in cache[u] <=> v \in friends[u])
      /\ u \notin stale /\ Before(u, v) /\ ~News(u, v) => (v \in view[u] <=> v \in friends[u])
      /\ task[t].pc = "listFill" => (v \in task[t].seen <=> v \in friends[u])
      /\ task[t].pc = "listMark" => v \notin friends[u]
  BY <1>3 DEF CacheAt, PageAt
<1>6. stale \subseteq stale'
  BY <1>1, ReadsOwn
<1> USE DEF past, people, redis, clients, At
<1>7. CASE ListExists(t)
  <2>1. task'[t].pc \in {"listRead", "listMembers"}
    BY <1>2, <1>7, GoesOn DEF ListExists, Pc, CachePc
  <2> QED
    BY <1>5, <1>6, <1>7, <2>1 DEF ListExists, OwnRead
<1>8. CASE ListMembers(t)
  <2>1. /\ task'[t].pc = "idle" /\ UNCHANGED cache /\ task[t].pc \in Listing
        /\ view'[u] = cache[u] \ {NoFriends} /\ (cache[u] = {} => u \in stale')
    BY <1>1, <1>2, <1>8, GoesHome DEF ListMembers, Answer, Listing
  <2> QED
    BY <1>2, <1>4, <1>5, <1>6, <2>1 DEF OwnRead
<1>9. CASE ListRead(t)
  <2>1. task'[t].pc = "listFill" /\ task'[t].seen = friends[u] /\ UNCHANGED <<cache, view>>
    BY <1>2, <1>9 DEF ListRead, TaskType
  <2> QED
    BY <1>5, <1>6, <2>1 DEF OwnRead
<1>10. CASE ListFill(t)
  <2>1. /\ cache'[u] = cache[u] \cup IF task[t].seen = {} THEN {NoFriends} ELSE task[t].seen
        /\ task[t].pc = "listFill" /\ task[t].pc \in Listing
    BY <1>1, <1>2, <1>10 DEF ListFill, Listing
  <2>2. /\ task'[t].pc \in {"idle", "listMark"}
        /\ task'[t].pc = "listMark" => task[t].seen = {}
        /\ view'[u] = view[u] \/ view'[u] = task[t].seen
    BY <1>1, <1>2, <1>10, GoesHome, GoesOn DEF ListFill, Answer, Pc, CachePc
  <2>3. v \in cache'[u] <=> v \in cache[u] \/ v \in friends[u]
    BY <1>2, <1>5, <2>1
  <2>4. u \notin stale' => (v \in cache'[u] <=> v \in friends[u])
    BY <1>4, <1>5, <1>6, <2>1, <2>3
  <2> QED
    BY <1>5, <1>6, <2>1, <2>2, <2>4 DEF OwnRead
<1>11. CASE ListMark(t)
  <2>1. /\ task'[t].pc = "idle" /\ UNCHANGED cache /\ task[t].pc = "listMark" /\ view'[u] = {}
    BY <1>1, <1>2, <1>11, GoesHome DEF ListMark, Answer
  <2> QED
    BY <1>5, <1>6, <2>1 DEF OwnRead
<1>12. CASE ProfileGet(t) \/ ProfileRead(t) \/ ProfileFill(t) \/ ProfileWrite(t) \/ ProfileDrop(t) \/ DropFails(t)
  <2>1. task[t].pc \notin Listing /\ UNCHANGED <<cache, view>>
    BY <1>12 DEF ProfileGet, ProfileRead, ProfileFill, ProfileWrite, ProfileDrop, DropFails, Listing
  <2>2. task'[t].pc \notin Listing
    BY <1>1, <2>1, ReadsOwn
  <2> QED
    BY <1>5, <1>6, <2>1, <2>2 DEF OwnRead, Listing
<1> QED
  BY <1>7, <1>8, <1>9, <1>10, <1>11, <1>12 DEF ReaderStep

(* A cached profile stays the stored one, or a writer is to drop it.       *)
LEMMA ReaderProfile ==
  ASSUME FriendInv, NEW t \in Tasks, ReaderStep(t) \/ DropFails(t)
  PROVE  ProfileExact'
<1> DEFINE r == task[t].me
<1>1. Types /\ ProfileExact /\ r \in Users
  BY ReadsOwn DEF FriendInv
<1>2. /\ stale \subseteq stale' /\ \A o \in Tasks \ {t} : task'[o] = task[o]
      /\ \A w \in Users \ {r} : cached'[w] = cached[w] /\ profile'[w] = profile[w]
      /\ task'[t].pc # "idle" => task'[t].me = r
  BY <1>1, ReadsOwn, ReaderMoves DEF Moves
<1>3. /\ task \in [Tasks -> TaskType] /\ profile \in [Users -> 0..MaxEdits]
      /\ cached \in [Users -> (0..MaxEdits) \cup {None}]
  BY <1>1 DEF Types, TaskTypes, PeopleTypes
<1>4. ASSUME NEW u \in Users, u # r, u \notin stale'
      PROVE  /\ cached'[u] \notin {None, profile'[u]} =>
                  \E o \in Tasks : task'[o].me = u /\ task'[o].pc = "proDrop"
             /\ \A o \in Tasks : task'[o].me = u /\ task'[o].pc = "proFill" => task'[o].ver = profile'[u]
  <2>1. u \notin stale /\ cached'[u] = cached[u] /\ profile'[u] = profile[u]
    BY <1>2, <1>4
  <2>2. \A o \in Tasks : task[o].me = u => task'[o] = task[o]
    BY <1>2, <1>4
  <2>3. \A o \in Tasks : task'[o].me = u /\ task'[o].pc # "idle" => task'[o] = task[o]
    BY <1>2, <1>4
  <2>4. cached'[u] \notin {None, profile'[u]} =>
                  \E o \in Tasks : task'[o].me = u /\ task'[o].pc = "proDrop"
    BY <1>1, <2>1, <2>2 DEF ProfileExact
  <2>5. \A o \in Tasks : task'[o].me = u /\ task'[o].pc = "proFill" => task'[o].ver = profile'[u]
    BY <1>1, <2>1, <2>3 DEF ProfileExact
  <2> QED
    BY <2>4, <2>5
<1> DEFINE Exact == r \notin stale' =>
             /\ cached'[r] \notin {None, profile'[r]} =>
                  \E o \in Tasks : task'[o].me = r /\ task'[o].pc = "proDrop"
             /\ \A o \in Tasks : task'[o].me = r /\ task'[o].pc = "proFill" => task'[o].ver = profile'[r]
<1> SUFFICES Exact
  BY <1>4 DEF ProfileExact
<1>5. r \notin stale =>
        /\ cached[r] \notin {None, profile[r]} =>
             \E o \in Tasks : task[o].me = r /\ task[o].pc = "proDrop"
        /\ \A o \in Tasks : task[o].me = r /\ task[o].pc = "proFill" => task[o].ver = profile[r]
  BY <1>1 DEF ProfileExact
<1>6. ASSUME task[t].pc # "proDrop", task'[t].pc # "proFill", UNCHANGED <<cached, profile>>
      PROVE  Exact
  <2>1. \A o \in Tasks : task[o].pc = "proDrop" => task'[o] = task[o]
    BY <1>2, <1>6
  <2>2. \A o \in Tasks : task'[o].pc = "proFill" => task'[o] = task[o]
    BY <1>2, <1>6
  <2>3. r \notin stale' => r \notin stale
    BY <1>2
  <2>4. r \notin stale' => (cached'[r] \notin {None, profile'[r]} =>
                  \E o \in Tasks : task'[o].me = r /\ task'[o].pc = "proDrop")
    BY <1>5, <1>6, <2>1, <2>3
  <2>5. r \notin stale' =>
          \A o \in Tasks : task'[o].me = r /\ task'[o].pc = "proFill" => task'[o].ver = profile'[r]
    BY <1>5, <1>6, <2>2, <2>3
  <2> QED
    BY <2>4, <2>5
<1> USE DEF past, people, redis, clients, At
<1>7. CASE ListExists(t) \/ ListMembers(t) \/ ListRead(t) \/ ListFill(t) \/ ListMark(t)
  <2>1. UNCHANGED <<cached, profile>> /\ task[t].pc \in Listing
    BY <1>7 DEF ListExists, ListMembers, ListRead, ListFill, ListMark, Listing
  <2>2. CASE ListRead(t)
    BY <1>3, <1>6, <2>1, <2>2 DEF ListRead, Listing
  <2>3. CASE ListExists(t)
    <3>1. Goto(t, "listRead") \/ Goto(t, "listMembers")
      BY <2>3 DEF ListExists
    <3>2. task'[t].pc # "proFill"
      BY <1>3, <3>1, GoesOn DEF Pc, CachePc
    <3> QED
      BY <1>6, <2>1, <3>2 DEF Listing
  <2>4. CASE ListFill(t)
    <3>1. Goto(t, "listMark") \/ Return(t)
      BY <2>4 DEF ListFill
    <3>2. task'[t].pc # "proFill"
      BY <1>3, <3>1, GoesOn, GoesHome DEF Pc, CachePc
    <3> QED
      BY <1>6, <2>1, <3>2 DEF Listing
  <2>5. CASE ListMembers(t) \/ ListMark(t)
    <3>1. task'[t].pc # "proFill"
      BY <1>3, <2>5, GoesHome DEF ListMembers, ListMark
    <3> QED
      BY <1>6, <2>1, <3>1 DEF Listing
  <2> QED
    BY <1>7, <2>2, <2>3, <2>4, <2>5
<1>8. CASE ProfileGet(t)
  <2>1. UNCHANGED <<cached, profile>> /\ task[t].pc = "proGet" /\ (Goto(t, "proRead") \/ Return(t))
    BY <1>8 DEF ProfileGet
  <2>2. task'[t].pc # "proFill"
    BY <1>3, <2>1, GoesHome, GoesOn DEF Pc, CachePc
  <2> QED
    BY <1>6, <2>1, <2>2
<1>9. CASE ProfileRead(t)
  <2>1. /\ UNCHANGED <<cached, profile>> /\ task[t].pc = "proRead" /\ task'[t].ver = profile[r]
    BY <1>1, <1>3, <1>9 DEF ProfileRead, TaskType
  <2>2. \A o \in Tasks : task[o].pc = "proDrop" => task'[o] = task[o]
    BY <1>2, <2>1
  <2>3. r \notin stale' => (cached'[r] \notin {None, profile'[r]} =>
                  \E o \in Tasks : task'[o].me = r /\ task'[o].pc = "proDrop")
    BY <1>2, <1>5, <2>1, <2>2
  <2>4. r \notin stale' =>
          \A o \in Tasks : task'[o].me = r /\ task'[o].pc = "proFill" => task'[o].ver = profile'[r]
    BY <1>2, <1>5, <2>1
  <2> QED
    BY <2>3, <2>4
<1>10. CASE ProfileFill(t)
  <2>1. /\ UNCHANGED profile /\ task[t].pc = "proFill" /\ cached'[r] = task[t].ver /\ task'[t].pc = "idle"
    BY <1>1, <1>3, <1>10, GoesHome DEF ProfileFill
  <2> QED
    BY <1>2, <1>5, <2>1
<1>11. CASE ProfileWrite(t)
  <2>1. /\ task[t].pc = "proWrite" /\ (Reading(r, {"proFill"}) => r \in stale')
        /\ task'[t].pc = "proDrop" /\ task'[t].me = r
    BY <1>1, <1>3, <1>11, GoesOn DEF ProfileWrite, Pc, CachePc
  <2>2. \A o \in Tasks : task'[o].me = r /\ task'[o].pc = "proFill" => Reading(r, {"proFill"})
    BY <1>2, <2>1 DEF Reading
  <2> QED
    BY <2>1, <2>2
<1>12. CASE ProfileDrop(t)
  <2>1. /\ UNCHANGED profile /\ cached'[r] = None /\ task'[t].pc = "idle"
    BY <1>1, <1>3, <1>12, GoesHome DEF ProfileDrop
  <2> QED
    BY <1>2, <1>5, <2>1
<1>13. CASE DropFails(t)
  BY <1>1, <1>13 DEF DropFails
<1> QED
  BY <1>7, <1>8, <1>9, <1>10, <1>11, <1>12, <1>13 DEF ReaderStep

(* A step of a reader keeps the invariants of its user's pairs and of the  *)
(* others.                                                                 *)
LEMMA ReaderStepKeeps ==
  ASSUME FriendInv, NEW t \in Tasks, ReaderStep(t) \/ DropFails(t)
  PROVE  PairsExact' /\ ProfileExact'
<1> DEFINE r == task[t].me
<1>1. Types /\ PairsExact
  BY DEF FriendInv, PairsExact
<1>2. /\ r \in Users /\ stale \subseteq stale'
      /\ \A w \in Users \ {r} : cache'[w] = cache[w] /\ view'[w] = view[w]
      /\ task'[t].pc \in Listing => task[t].pc \in Listing /\ task'[t].me = r
  BY <1>1, ReadsOwn
<1>3. /\ UNCHANGED <<friends, inbox, raced>> /\ Moves(t, CachePc)
  BY <1>1, ReaderMoves
<1>4. /\ \A o \in Tasks \ {t} : task'[o] = task[o]
      /\ task[t].pc \notin FriendPc /\ task'[t].pc \notin FriendPc
  BY <1>3 DEF Moves, FriendPc, CachePc
<1>5. ASSUME NEW u \in Users, NEW v \in Users, u # r
      PROVE  PairInv(u, v)'
  <2>1. SameTasks(u, v)
    BY <1>2, <1>4, <1>5 DEF SameTasks, On, Listing
  <2>2. SameEvents(u, v) /\ PairInv(u, v)
    BY <1>1, <1>3 DEF SameEvents, PairsExact
  <2>3. cache'[u] = cache[u] /\ view'[u] = view[u]
    BY <1>2, <1>5
  <2> QED
    BY <1>2, <1>3, <2>1, <2>2, <2>3, PairKept
<1>6. ASSUME NEW u \in Users, NEW v \in Users, u = r, Clear(u, v)'
      PROVE  PairInv(u, v)'
  <2>1. Clear(u, v)
    BY <1>3, <1>6 DEF Clear
  <2>2. AloneAt(u, v) /\ ListsAt(u, v) /\ ToldAt(u, v) /\ CacheAt(u, v) /\ PageAt(u, v)
    BY <1>1, <1>2, <2>1 DEF PairsExact, PairInv
  <2>3. OwnRead(t, u, v)
    BY <1>6, <2>1, ReaderOwn
  <2>4. \A o \in Tasks : (On(o, u, v)' <=> On(o, u, v)) /\ (On(o, u, v) => task'[o] = task[o])
    BY <1>4 DEF On
  <2>5. (Before(u, v)' <=> Before(u, v)) /\ (Written(u, v)' <=> Written(u, v))
    BY <2>4 DEF Before, Written, CacheDue
  <2>6. News(u, v)' <=> News(u, v)
    BY <1>3 DEF News
  <2>7. \A w \in {u, v} : Reading(w, Listing)' => Reading(w, Listing)
    BY <1>2, <1>4, <1>6 DEF Reading
  <2>8. AloneAt(u, v)'
    BY <2>2, <2>4, <2>6, <2>7 DEF AloneAt
  <2>9. ListsAt(u, v)'
    BY <1>3, <2>2, <2>4, <2>5 DEF ListsAt
  <2>10. ToldAt(u, v)'
    BY <1>3, <2>2 DEF ToldAt
  <2>11. CacheAt(u, v)'
    BY <1>3, <2>3, <2>5 DEF CacheAt, OwnRead
  <2>12. \A o \in Tasks \ {t} : task'[o].me = u =>
           /\ task'[o].pc = "listFill" => (v \in task'[o].seen <=> v \in friends'[u])
           /\ task'[o].pc = "listMark" => v \notin friends'[u]
    BY <1>3, <1>4, <2>2 DEF PageAt
  <2>13. PageAt(u, v)'
    BY <1>3, <2>3, <2>5, <2>6, <2>12 DEF PageAt, OwnRead
  <2> QED
    BY <2>8, <2>9, <2>10, <2>11, <2>13 DEF PairInv
<1>7. \A u, v \in Users : PairInv(u, v)'
  BY <1>5, <1>6 DEF PairInv
<1>8. ProfileExact'
  BY ReaderProfile
<1> QED
  BY <1>7, <1>8 DEF PairsExact

-----------------------------------------------------------------------------
(* A key that expires takes no part in an agreement.                       *)
LEMMA ExpiresKeepFriends ==
  ASSUME FriendInv, NEW x \in Users, Expires(x)
  PROVE  PairsExact' /\ ProfileExact'
<1>1. Types /\ PairsExact /\ ProfileExact
  BY DEF FriendInv, PairsExact
<1>2. UNCHANGED <<task, clients, friends, requests, profile, raced, stale>>
  BY <1>1, ExpiresTypes
<1>3. CASE FlagExpires(x) \/ HashExpires(x)
  <2>1. UNCHANGED people
    BY <1>3 DEF FlagExpires, HashExpires
  <2> QED
    BY <1>1, <1>2, <2>1, FriendsAside DEF Distant
<1>4. CASE SetExpires(x) \/ ProfileExpires(x)
  <2>1. /\ cache \in [Users -> SUBSET (Users \cup {NoFriends})]
        /\ cached \in [Users -> (0..MaxEdits) \cup {None}]
    BY <1>1 DEF Types, PeopleTypes
  <2>2. \A u \in Users : /\ cache'[u] = cache[u] \/ cache'[u] = {}
                         /\ cached'[u] = cached[u] \/ cached'[u] = None
    BY <1>4, <2>1 DEF SetExpires, ProfileExpires
  <2>3. ASSUME NEW u \in Users, NEW v \in Users PROVE PairInv(u, v)'
    <3>1. SameTasks(u, v) /\ SameEvents(u, v) /\ PairInv(u, v)
      BY <1>1, <1>2 DEF SameTasks, SameEvents, PairsExact, clients
    <3>2. UNCHANGED view
      BY <1>2 DEF clients
    <3>3. cache'[u] = {} \/ (cache[u] # {} /\ (v \in cache'[u] <=> v \in cache[u]))
      BY <2>2
    <3> QED
      BY <1>2, <3>1, <3>2, <3>3, PairKept
  <2>4. ProfileExact'
    BY <1>1, <1>2, <2>2 DEF ProfileExact
  <2> QED
    BY <2>3, <2>4 DEF PairsExact
<1> QED
  BY <1>3, <1>4 DEF Expires

(* An event that arrives leaves the page with what the list says.          *)
LEMMA ReceiveKeepsFriends ==
  ASSUME FriendInv, NEW x \in Users, NEW e \in Event, Receive(x, e)
  PROVE  PairsExact' /\ ProfileExact'
<1>1. Types /\ PairsExact /\ ProfileExact /\ e.peer \in Users
  BY DEF FriendInv, PairsExact, Event
<1>2. UNCHANGED <<people, presence, task, past, spent>>
  BY <1>1, ReceiveTypes
<1>3. /\ \A w \in Users \ {x} : inbox'[w] = inbox[w] /\ view'[w] = view[w]
      /\ view'[x] = (IF e.kind = "accepted" THEN view[x] \cup {e.peer} ELSE view[x] \ {e.peer})
      /\ BagIn(e, inbox[x])
      /\ \A d : BagIn(d, inbox'[x]) => BagIn(d, inbox[x])
      /\ \A d : d # e /\ BagIn(d, inbox[x]) => BagIn(d, inbox'[x])
  BY <1>1, ReceiveTypes
<1>4. UNCHANGED <<friends, cache, cached, profile, raced, stale>>
  BY <1>2 DEF people, redis, past
<1>5. ASSUME NEW u \in Users, NEW v \in Users, u # x \/ e.peer # v
      PROVE  PairInv(u, v)'
  <2>1. SameTasks(u, v) /\ PairInv(u, v)
    BY <1>1, <1>2 DEF SameTasks, PairsExact
  <2>2. SameEvents(u, v) /\ (v \in view'[u] <=> v \in view[u])
    BY <1>3, <1>5 DEF SameEvents
  <2>3. cache'[u] = {} \/ (cache[u] # {} /\ (v \in cache'[u] <=> v \in cache[u]))
    BY <1>4
  <2> QED
    BY <1>4, <2>1, <2>2, <2>3, PairKept
<1>6. ASSUME NEW u \in Users, NEW v \in Users, u = x, e.peer = v, Clear(u, v)'
      PROVE  PairInv(u, v)'
  <2>1. Clear(u, v)
    BY <1>4, <1>6 DEF Clear
  <2>2. AloneAt(u, v) /\ ListsAt(u, v) /\ ToldAt(u, v) /\ CacheAt(u, v) /\ PageAt(u, v)
    BY <1>1, <2>1 DEF PairsExact, PairInv
  <2>3. News(u, v)
    BY <1>3, <1>6 DEF News
  <2>4. v \in view'[u] <=> v \in friends[u]
    BY <1>3, <1>6, <2>2 DEF ToldAt
  <2>5. AloneAt(u, v)'
    BY <1>2, <2>2, <2>3 DEF AloneAt, On, Reading
  <2>6. ListsAt(u, v)'
    BY <1>2, <1>4, <2>2 DEF ListsAt, Before, On
  <2>7. ToldAt(u, v)'
    BY <1>3, <1>4, <1>6, <2>2 DEF ToldAt
  <2>8. CacheAt(u, v)'
    BY <1>2, <1>4, <2>2 DEF CacheAt, Written, On, CacheDue
  <2>9. PageAt(u, v)'
    BY <1>2, <1>4, <2>2, <2>4 DEF PageAt
  <2> QED
    BY <2>5, <2>6, <2>7, <2>8, <2>9 DEF PairInv
<1>7. \A u, v \in Users : PairInv(u, v)'
  BY <1>5, <1>6 DEF PairInv
<1>8. ProfileExact'
  BY <1>1, <1>2, <1>4 DEF ProfileExact
<1> QED
  BY <1>7, <1>8 DEF PairsExact

(* A crash that cuts a handler short leaves its pair raced, and one before *)
(* a DEL leaves its profile stale.                                         *)
LEMMA CrashKeepsFriends ==
  ASSUME FriendInv, NEW n \in Nodes, Crash(n)
  PROVE  PairsExact' /\ ProfileExact'
<1>1. Types /\ PairsExact /\ ProfileExact
  BY DEF FriendInv, PairsExact
<1>2. /\ UNCHANGED <<people, clients>>
      /\ \A t \in Tasks : task'[t] = IF Place[t] = n THEN Idle ELSE task[t]
  BY <1>1, CrashTypes
<1>3. /\ raced \subseteq raced' /\ stale \subseteq stale'
      /\ \A t \in Tasks : Place[t] = n /\ task[t].pc \in FriendPc => Pair(task[t].me, task[t].peer) \in raced'
      /\ \A t \in Tasks : Place[t] = n /\ task[t].pc = "proDrop" => task[t].me \in stale'
  BY DEF Crash
<1>4. \A t \in Tasks : task'[t] = task[t] \/ (Place[t] = n /\ task'[t].pc \notin FriendPc \cup CachePc)
  BY <1>2, IdleType DEF FriendPc, CachePc
<1>5. ASSUME NEW u \in Users, NEW v \in Users PROVE PairInv(u, v)'
  <2>1. Clear(u, v)' => SameTasks(u, v)
    <3> SUFFICES ASSUME Clear(u, v)' PROVE SameTasks(u, v)
      OBVIOUS
    <3>1. \A o \in Tasks : On(o, u, v) => Place[o] # n
      BY <1>3 DEF Clear, On, Pair
    <3>2. \A o \in Tasks : On(o, u, v) \/ On(o, u, v)' => task'[o] = task[o]
      BY <1>4, <3>1 DEF On
    <3>3. \A o \in Tasks : task'[o].pc \in Listing => task'[o] = task[o]
      BY <1>4 DEF Listing, CachePc
    <3> QED
      BY <3>2, <3>3 DEF SameTasks, Listing
  <2>2. SameEvents(u, v) /\ PairInv(u, v)
    BY <1>1, <1>2 DEF SameEvents, PairsExact, clients
  <2> QED
    BY <1>2, <1>3, <2>1, <2>2, PairKept DEF people, redis, clients
<1>6. ProfileExact'
  <2>1. UNCHANGED <<cached, profile>>
    BY <1>2 DEF people, redis
  <2>2. \A o \in Tasks : task[o].pc = "proDrop" /\ task[o].me \notin stale' => task'[o] = task[o]
    BY <1>3, <1>4
  <2>3. \A o \in Tasks : task'[o].pc = "proFill" => task'[o] = task[o]
    BY <1>4 DEF CachePc
  <2> QED
    BY <1>1, <1>3, <2>1, <2>2, <2>3 DEF ProfileExact
<1> QED
  BY <1>5, <1>6 DEF PairsExact

-----------------------------------------------------------------------------
(* Tabs and presence are no part of it.                                    *)
LEMMA TabKeepsFriends ==
  ASSUME FriendInv, NEW t \in Tasks,
         \/ PresenceStep(t) \/ PresenceFails(t)
         \/ \E s \in Sockets : Connect(t, s) \/ Heartbeat(t, s) \/ Disconnect(t, s)
  PROVE  PairsExact' /\ ProfileExact'
<1>1. Types /\ PairsExact /\ ProfileExact
  BY DEF FriendInv, PairsExact
<1>2. CASE PresenceStep(t) \/ PresenceFails(t)
  <2>1. /\ UNCHANGED <<people, clients, raced, stale>>
        /\ \A o \in Tasks \ {t} : task'[o] = task[o]
        /\ task[t].pc \in PresencePc /\ task'[t].pc \in PresencePc \cup {"idle"}
    BY <1>1, <1>2, PresenceMoves, FailureMoves DEF Moves
  <2>2. (PresencePc \cup {"idle"}) \cap (FriendPc \cup CachePc) = {}
    BY DEF PresencePc, JoinPc, OnlinePc, BeatPc, LeavePc, GracePc, FriendPc, CachePc
  <2>3. \A o \in Tasks : Distant(o)
    BY <2>1, <2>2 DEF Distant
  <2> QED
    BY <1>1, <2>1, <2>3, FriendsAside
<1>3. ASSUME NEW s \in Sockets, Connect(t, s) \/ Heartbeat(t, s) \/ Disconnect(t, s)
      PROVE  PairsExact' /\ ProfileExact'
  <2>1. PICK pc \in {"delFlag", "hbExists", "sRem"} : Start(t, pc, Owner[s], None, s)
    BY <1>3 DEF Connect, Heartbeat, Disconnect
  <2>2. UNCHANGED <<people, clients, raced, stale>>
    BY <1>3 DEF Connect, Heartbeat, Disconnect, past
  <2>3. pc \in Pc /\ Owner[s] \in Users /\ None \in Users \cup {None}
    BY OwnerAssumption DEF Pc, JoinPc, BeatPc, LeavePc
  <2>4. /\ \A o \in Tasks \ {t} : task'[o] = task[o]
        /\ task[t].pc = "idle" /\ task'[t].pc = pc
    BY <1>1, <2>1, <2>3, Starts
  <2>5. \A o \in Tasks : Distant(o)
    BY <2>4 DEF Distant, FriendPc, CachePc
  <2> QED
    BY <1>1, <2>2, <2>5, FriendsAside
<1> QED
  BY <1>2, <1>3

(* What the agreement rests on holds at first, when nobody knows anybody.  *)
LEMMA FriendInvInit == Init => FriendInv
<1> SUFFICES ASSUME Init PROVE FriendInv
  OBVIOUS
<1>1. Types
  BY TypesInit
<1>2. /\ \A t \in Tasks : task[t].pc = "idle"
      /\ \A u \in Users : friends[u] = {} /\ cache[u] = {} /\ view[u] = {} /\ cached[u] = None /\ inbox[u] = EmptyBag
  BY IdleType DEF Init
<1>3. \A u \in Users : \A e : ~BagIn(e, inbox[u])
  BY <1>2 DEF EmptyBag, SetToBag, BagIn, BagToSet
<1>4. ASSUME NEW u \in Users, NEW v \in Users PROVE PairInv(u, v)
  <2>1. \A t \in Tasks : ~On(t, u, v)
    BY <1>2 DEF On, FriendPc
  <2>2. ~News(u, v)
    BY <1>3 DEF News
  <2>3. AloneAt(u, v) /\ ListsAt(u, v) /\ ToldAt(u, v) /\ CacheAt(u, v) /\ PageAt(u, v)
    BY <1>2, <1>3, <2>1, <2>2 DEF AloneAt, ListsAt, ToldAt, CacheAt, PageAt
  <2> QED
    BY <2>3 DEF PairInv
<1>5. ProfileExact
  BY <1>2 DEF ProfileExact
<1> QED
  BY <1>1, <1>4, <1>5 DEF FriendInv

(* It is kept by every step.                                               *)
LEMMA FriendInvKept == FriendInv /\ [Next]_vars => FriendInv'
<1> SUFFICES ASSUME FriendInv, [Next]_vars PROVE PairsExact' /\ ProfileExact'
  BY TypesKept DEF FriendInv, PairsExact
<1>1. CASE Next
  <2>1. CASE \E t \in Tasks : Handles(t)
    BY <2>1, TabKeepsFriends, CallsKeepFriends, ReadsKeepFriends, FriendStepKeeps, ReaderStepKeeps DEF Handles
  <2>2. CASE \E u \in Users : Expires(u)
    BY <2>2, ExpiresKeepFriends
  <2>3. CASE \E u \in Users, e \in Event : Receive(u, e)
    BY <2>3, ReceiveKeepsFriends
  <2>4. CASE \E n \in Nodes : Crash(n)
    BY <2>4, CrashKeepsFriends
  <2> QED
    BY <1>1, <2>1, <2>2, <2>3, <2>4, StepKinds
<1>2. CASE UNCHANGED vars
  BY <1>2, FriendsAside DEF FriendInv, PairsExact, vars, past, Distant
<1> QED
  BY <1>1, <1>2

(* Once a pair is quiet, nothing is early or due any more.                 *)
LEMMA FriendsFollow == FriendInv => FriendsAgree
<1> SUFFICES ASSUME FriendInv, NEW u \in Users, NEW v \in Users
             PROVE  /\ (u # v /\ Quiet(u, v) /\ Pair(u, v) \notin raced) =>
                         /\ v \in friends[u] <=> u \in friends[v]
                         /\ u \notin stale => /\ v \in view[u] <=> v \in friends[u]
                                              /\ v \in cache[u] => v \in friends[u]
                    /\ Resting(u) /\ u \notin stale => cached[u] \in {None, profile[u]}
  BY DEF FriendsAgree
<1>1. ASSUME u # v, Quiet(u, v), Pair(u, v) \notin raced
      PROVE  /\ v \in friends[u] <=> u \in friends[v]
             /\ u \notin stale => /\ v \in view[u] <=> v \in friends[u]
                                  /\ v \in cache[u] => v \in friends[u]
  <2>1. ListsAt(u, v) /\ CacheAt(u, v) /\ PageAt(u, v)
    BY <1>1 DEF FriendInv, PairInv, Clear
  <2>2. ~(\E t \in Tasks : On(t, u, v)) /\ ~News(u, v)
    BY <1>1, BusyMeans DEF Quiet
  <2>3. Before(u, v) /\ Written(u, v)
    BY <2>2 DEF Before, Written
  <2> QED
    BY <2>1, <2>2, <2>3 DEF ListsAt, CacheAt, PageAt
<1>2. ASSUME Resting(u), u \notin stale
      PROVE  cached[u] \in {None, profile[u]}
  BY <1>2 DEF FriendInv, ProfileExact, Resting
<1> QED
  BY <1>1, <1>2

(* Two users' lists, cached sets and pages agree on whether they are       *)
(* friends, and a cached profile is the stored one, once all their         *)
(* handlers are done and their events have arrived: whatever else goes on, *)
(* only the races, crashes, refusals and lost TTLs that are named can make *)
(* them differ (userController.js, friendCacheService.js,                  *)
(* useFriendSocket.js, cacheService.js).                                   *)
THEOREM FriendsStayAgreed == Spec => []FriendsAgree
<1>1. Spec => []FriendInv
  BY FriendInvInit, FriendInvKept, PTL DEF Spec
<1> QED
  BY <1>1, FriendsFollow, PTL
=============================================================================
