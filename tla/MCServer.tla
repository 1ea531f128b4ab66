------------------------------ MODULE MCServer ------------------------------
(* The conversation read model and the uploads with their workers, two     *)
(* parts of the server that share no state.  A behaviour is one of the one *)
(* or of the other, whose variables are Off meanwhile: their interleavings *)
(* would show nothing more.                                                *)
EXTENDS Naturals, FiniteSets, TLC

CONSTANTS Users, Nobody, Pair, MinMembers, Tasks, Kinds, Requests, Founder, Invited,
          MaxRequests, MaxConvs, Items, Workers, MaxAttempts, MaxTroubles, MaxReads, UploadTotal,
          Off, a, b, c, t1, t2, u1, u2

ASSUME ConversationsAssumption ==
  /\ Nobody \notin Users /\ Pair \subseteq Users /\ Founder \in Users
  /\ MaxConvs \in Nat \ {0} /\ IsFiniteSet(Tasks) /\ Tasks # {}
  /\ Invited \subseteq Users /\ Cardinality(Invited) >= MinMembers
  /\ \A r \in Requests : /\ r[1] \in {"create", "add", "remove", "leave", "transfer", "delete",
                                        "send", "see", "clear", "prefer", "page"}
                         /\ r[2] \in Users /\ r[3] \in Users
ASSUME UploadsAssumption ==
  {MaxAttempts, MaxTroubles, MaxReads, UploadTotal} \subseteq Nat /\ Nobody \notin Items

VARIABLES part,
  kind, group, conv, row, msgs, task, clock, requests, created, cleared, muddled, blurred, strayed,
  use, chip, req, source, objects, made, file, avatar, cache, hit, reader, ready, dead,
  worker, online, events, troubles, reads, applied, missed, stale

convVars == <<kind, group, conv, row, msgs, task, clock, requests, created, cleared,
              muddled, blurred, strayed>>
uploadVars == <<use, chip, req, source, objects, made, file, avatar, cache, hit, reader,
                ready, dead, worker, online, events, troubles, reads, applied, missed, stale>>

C == INSTANCE Conversations
U == INSTANCE Uploads

NoConversations ==
  /\ kind = Off /\ group = Off /\ conv = Off /\ row = Off /\ msgs = Off /\ task = Off
  /\ clock = Off /\ requests = Off /\ created = Off /\ cleared = Off /\ muddled = Off
  /\ blurred = Off /\ strayed = Off
NoUploads ==
  /\ use = Off /\ chip = Off /\ req = Off /\ source = Off /\ objects = Off /\ made = Off
  /\ file = Off /\ avatar = Off /\ cache = Off /\ hit = Off /\ reader = Off /\ ready = Off
  /\ dead = Off /\ worker = Off /\ online = Off /\ events = Off /\ troubles = Off
  /\ reads = Off /\ applied = Off /\ missed = Off /\ stale = Off

\* Uploads and troubles all in all: with 3, two uploads with one trouble or one
\* with two.
Bounded == troubles + Cardinality({u \in Items : use[u] # "none"}) <= UploadTotal

ServerInit == \/ part = "conversations" /\ C!Init /\ NoUploads
              \/ part = "uploads" /\ U!Init /\ NoConversations
ServerNext == \/ part = "conversations" /\ C!Next /\ UNCHANGED <<part, uploadVars>>
              \/ part = "uploads" /\ U!Next /\ Bounded' /\ UNCHANGED <<part, convVars>>
ServerSpec == ServerInit /\ [][ServerNext]_<<part, convVars, uploadVars>>

MCUsers == {a, b, c}
MCPair == {a, b}
MCTasks == {t1, t2}
\* a creates and administers, c comes and goes, b may become the admin.
MCRequests ==
  {<<"create", a, a>>, <<"delete", a, a>>, <<"send", a, a>>, <<"transfer", a, b>>,
   <<"add", a, c>>, <<"remove", a, c>>, <<"remove", a, a>>, <<"leave", b, b>>,
   <<"send", b, b>>, <<"see", b, b>>, <<"clear", b, b>>, <<"page", b, b>>,
   <<"page", c, c>>, <<"prefer", c, c>>, <<"prefer", b, b>>}
MCItems == {u1, u2}
\* The workers bear the names of the requests' handlers: no behaviour has both.
MCWorkers == MCTasks
Symmetry == Permutations(MCTasks) \cup Permutations(MCItems)

\* The participant rows follow the group (Conversations).
RowsFollowGroup == part = "conversations" => C!TypeOK /\ C!RowsFollowGroup

\* What a reader of the read model gets: exact unread counts and honest pages,
\* with the excuses UnreadExact and PagesHonest name.
ReadsHonest == part = "conversations" => C!UnreadExact /\ C!PagesHonest

\* A replaced members array never undoes what another request saved.
MembershipAsAsked ==
  [][part = "conversations" => C!OnlyAsRequested]_<<part, convVars, uploadVars>>

\* Nothing that an upload was promised, or that a document names, is lost to a
\* failed call, a second delivery or somebody's clean-up.
FilesStand == part = "uploads" => U!TypeOK /\ U!NamesAreBacked /\ U!NothingAcceptedIsLost

\* Once nothing is under way, the user's page knows how each upload ended.
ImagesArrive == part = "uploads" => U!ImagesArrive

\* The cached profile shows the avatar of the user document.
ProfileFresh == part = "uploads" => U!ProfileFresh
=============================================================================
