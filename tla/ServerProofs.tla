---------------------------- MODULE ServerProofs ----------------------------
(***************************************************************************)
(* Proofs about the server: the uploads for any number of items, workers,  *)
(* attempts, troubles and reads; a conversation for any users, requests    *)
(* and Conversation documents.                                             *)
(***************************************************************************)
EXTENDS MCServer, FiniteSetTheorems, SequenceTheorems, WellFoundedInduction, TLAPS

(* The uploads.                                                            *)

Job == Items \X (0 .. MaxAttempts)
WorkerPcs == {"idle", "find", "make", "write", "invalidate", "emit", "clean", "fail"}
WorkerType ==
  [pc : WorkerPcs, up : Items \cup {Nobody}, tries : 0 .. MaxAttempts, held : BOOLEAN, key : Nat]

BrowserTypes ==
  /\ use \in [Items -> U!Uses] /\ chip \in [Items -> U!Chips] /\ req \in [Items -> U!Steps]
  /\ events \in [Items -> Nat] /\ online \in BOOLEAN /\ missed \subseteq Items
StoreTypes ==
  /\ source \in [Items -> BOOLEAN] /\ made \in [Items -> Nat]
  /\ objects \in [Items -> SUBSET Nat] /\ file \in [Items -> Nat]
  /\ \A u \in Items : objects[u] \subseteq 1 .. made[u] /\ file[u] \in 0 .. made[u]
AvatarTypes ==
  /\ avatar \in [up : Items \cup {Nobody}, key : Nat] /\ applied \subseteq Items
  /\ cache \in Items \cup {Nobody} /\ hit \in BOOLEAN /\ stale \in BOOLEAN
  /\ reader \in [pc : {"idle", "find", "fill"}, up : Items \cup {Nobody}]
JobTypes ==
  /\ U!IsABag(ready) /\ DOMAIN ready \subseteq Job /\ dead \subseteq Items
  /\ worker \in [Workers -> WorkerType]
  /\ \A w \in Workers : /\ worker[w].up \in Items <=> worker[w].pc # "idle"
                        /\ worker[w].held => worker[w].pc # "idle"

(* What an upload is decides which controller its request goes through and *)
(* how the queue shows it.                                                 *)
Staged == {"chat", "avatar"}
Routes ==
  \A u \in Items :
    /\ use[u] = "none" => req[u] = "none"
    /\ req[u] \in {"stage", "publish", "unstage", "accepted", "queued", "saved"} => use[u] \in Staged
    /\ req[u] \in {"complete", "record", "made"} => use[u] = "parts"
    /\ use[u] \in {"none", "avatar"} => chip[u] = "none"
    /\ chip[u] = "processing" => req[u] = "queued"
    /\ chip[u] \in {"completed", "error"} => req[u] \in {"queued", "over"}

(* A job is about an image whose request has come to its publishing.       *)
Published == {"unstage", "accepted", "queued", "saved", "refused", "over"}
JobsPublished ==
  /\ \A job \in DOMAIN ready : use[job[1]] \in Staged /\ req[job[1]] \in Published
  /\ \A w \in Workers : U!At(w, "idle") \/ (use[U!Up(w)] \in Staged /\ req[U!Up(w)] \in Published)

(* What a request has made, and what was announced, is there.              *)
Earned ==
  \A u \in Items :
    /\ req[u] = "record" => made[u] \in objects[u]
    /\ req[u] = "made" \/ events[u] > 0 => file[u] # 0
    /\ req[u] = "publish" => source[u]

(* A worker that is about to write has stored the object, and nobody else  *)
(* has its key.                                                            *)
WritersOwn ==
  \A w \in Workers : U!At(w, "write") =>
    /\ worker[w].key \in objects[U!Up(w)] /\ worker[w].key # file[U!Up(w)]
    /\ \A v \in Workers \ {w} :
         U!At(v, "write") /\ U!Up(v) = U!Up(w) => worker[v].key # worker[w].key

(* A worker that has written left its document.                            *)
Documented(u) == IF use[u] = "chat" THEN file[u] # 0 ELSE u \in applied
DoneIsDocumented ==
  \A w \in Workers :
    /\ worker[w].pc \in {"invalidate", "emit", "clean"} => Documented(U!Up(w))
    /\ U!At(w, "invalidate") => use[U!Up(w)] = "avatar"

(* Only avatars are applied, and the user document names one of them.      *)
AvatarsApplied ==
  /\ \A u \in applied : use[u] = "avatar"
  /\ avatar.up # Nobody => avatar.up \in applied

(* Of a job the user was told of, one of the things that can still bring   *)
(* its end about is left, or the browser waits no more.                    *)
Pending(u) ==
  \/ \E job \in DOMAIN ready : job[1] = u
  \/ \E w \in Workers : worker[w].held /\ U!Up(w) = u /\ ~U!At(w, "clean")
  \/ events[u] > 0 \/ u \in missed \cup dead \/ ~U!Waits(u)
Followed == \A u \in Items : req[u] \in {"accepted", "queued"} => Pending(u)

(* A cached profile that shows another avatar is about to be dropped.      *)
Freshening ==
  hit /\ ~stale => cache = avatar.up \/ \E w \in Workers : U!At(w, "invalidate")

UploadInv ==
  /\ BrowserTypes /\ StoreTypes /\ AvatarTypes /\ JobTypes
  /\ Routes /\ JobsPublished /\ Earned /\ WritersOwn /\ DoneIsDocumented /\ AvatarsApplied
  /\ U!NamesAreBacked /\ U!NothingAcceptedIsLost /\ Followed /\ Freshening
-----------------------------------------------------------------------------
(* The queue of the jobs is a bag.                                         *)
LEMMA QueuedJob ==
  ASSUME U!IsABag(ready), NEW job
  PROVE  U!IsABag(U!Queued(job)) /\ DOMAIN U!Queued(job) = DOMAIN ready \cup {job}
BY DEF U!Queued, U!(+), U!SetToBag, U!IsABag

(* A job that is taken may have copies; the others stay.                   *)
LEMMA TakenJob ==
  ASSUME U!IsABag(ready), NEW job \in DOMAIN ready
  PROVE  /\ U!IsABag(U!Taken(job)) /\ DOMAIN U!Taken(job) \subseteq DOMAIN ready
         /\ DOMAIN ready \ {job} \subseteq DOMAIN U!Taken(job)
BY DEF U!Taken, U!(-), U!SetToBag, U!IsABag

(* Nothing has been uploaded.                                              *)
LEMMA UploadsInit == U!Init => UploadInv
<1> SUFFICES ASSUME U!Init PROVE UploadInv
  OBVIOUS
<1>a. MaxAttempts \in Nat
  BY UploadsAssumption
<1>b. BrowserTypes /\ StoreTypes /\ AvatarTypes
  <2>1. BrowserTypes
    BY DEF U!Init, BrowserTypes, U!Uses, U!Chips, U!Steps
  <2>2. StoreTypes
    BY DEF U!Init, StoreTypes
  <2>3. AvatarTypes
    BY DEF U!Init, U!NoRead, AvatarTypes
  <2> QED
    BY <2>1, <2>2, <2>3
<1>c. ready = [e \in {} |-> 1]
  BY DEF U!Init, U!EmptyBag, U!SetToBag
<1>d. JobTypes
  BY <1>a, <1>c, UploadsAssumption DEF U!Init, U!Idle, U!IsABag, JobTypes, WorkerType, WorkerPcs
<1>1. BrowserTypes /\ StoreTypes /\ AvatarTypes /\ JobTypes
  BY <1>b, <1>d
<1>2. /\ \A u \in Items : /\ use[u] = "none" /\ chip[u] = "none" /\ req[u] = "none"
                          /\ file[u] = 0 /\ events[u] = 0
      /\ \A w \in Workers : worker[w].pc = "idle"
      /\ DOMAIN ready = {} /\ applied = {} /\ avatar.up = Nobody /\ hit = FALSE
  BY DEF U!Init, U!Idle, U!EmptyBag, U!SetToBag
<1> QED
  BY <1>1, <1>2 DEF UploadInv, Routes, JobsPublished, Earned, WritersOwn, DoneIsDocumented, AvatarsApplied,
     U!NamesAreBacked, U!NothingAcceptedIsLost, Followed, Freshening, U!At

(* An upload begins with no job, no object and no entry that is done.      *)
LEMMA AddKeeps == ASSUME UploadInv, NEW u \in Items, U!Add(u) PROVE UploadInv'
<1>0. /\ BrowserTypes /\ StoreTypes /\ AvatarTypes /\ JobTypes
      /\ Routes /\ JobsPublished /\ Earned /\ WritersOwn /\ DoneIsDocumented /\ AvatarsApplied
      /\ U!NamesAreBacked /\ U!NothingAcceptedIsLost /\ Followed /\ Freshening
  BY DEF UploadInv
<1>1. UNCHANGED <<events, missed, online, source, made, objects, file, avatar, applied, cache,
        hit, stale, reader, ready, dead, worker>>
  BY DEF U!Add, U!browser, U!store, U!profile, U!cached, U!jobs, U!socket
<1>2. PICK k \in {"chat", "avatar", "parts"} :
        /\ use' = [use EXCEPT ![u] = k]
        /\ chip' = [chip EXCEPT ![u] = IF k = "avatar" THEN "none" ELSE "uploading"]
        /\ req' = [req EXCEPT ![u] = IF k = "parts" THEN "complete" ELSE "stage"]
  BY DEF U!Add, U!Uses
<1>3. use[u] = "none" /\ req[u] = "none" /\ chip[u] = "none"
  BY <1>0 DEF U!Add, Routes
<1>4. \A w \in Workers : U!At(w, "idle") \/ U!Up(w) # u
  BY <1>0, <1>3 DEF JobsPublished, Staged, U!At, U!Up
<1>5. (StoreTypes /\ AvatarTypes /\ JobTypes /\ WritersOwn /\ Freshening)'
  BY <1>0, <1>1 DEF StoreTypes, AvatarTypes, JobTypes, WritersOwn, U!At, U!Up, Freshening
<1>6. BrowserTypes'
  BY <1>0, <1>1, <1>2, <1>3, <1>4 DEF BrowserTypes, U!Uses, U!Chips, U!Steps
<1>7. Routes'
  BY <1>0, <1>1, <1>2, <1>3, <1>4 DEF Routes, Staged, BrowserTypes
<1>8. JobsPublished'
  BY <1>0, <1>1, <1>2, <1>3, <1>4 DEF JobsPublished, Job, U!At, U!Up, Published, Staged,
      JobTypes, BrowserTypes
<1>9. Earned'
  BY <1>0, <1>1, <1>2, <1>3, <1>4 DEF Earned, BrowserTypes, StoreTypes
<1>10. DoneIsDocumented'
  BY <1>0, <1>1, <1>2, <1>3, <1>4 DEF DoneIsDocumented, Documented, U!At, U!Up, JobTypes,
      BrowserTypes, StoreTypes, AvatarTypes
<1>11. AvatarsApplied'
  BY <1>0, <1>1, <1>2, <1>3, <1>4 DEF AvatarsApplied, AvatarTypes, BrowserTypes
<1>12. U!NamesAreBacked'
  BY <1>0, <1>1, <1>2, <1>3, <1>4 DEF U!NamesAreBacked, Earned, StoreTypes, BrowserTypes,
      AvatarTypes
<1>13. U!NothingAcceptedIsLost'
  BY <1>0, <1>1, <1>2, <1>3, <1>4 DEF U!NothingAcceptedIsLost, Earned, BrowserTypes, StoreTypes,
      AvatarTypes
<1>14. Followed'
  BY <1>0, <1>1, <1>2, <1>3, <1>4 DEF Followed, Pending, U!At, U!Up, U!Waits, BrowserTypes,
      JobTypes
<1> QED
  BY <1>5, <1>6, <1>7, <1>8, <1>9, <1>10, <1>11, <1>12, <1>13, <1>14 DEF UploadInv

(* The answer tells the browser what became of the request.               *)
LEMMA AnswerKeeps == ASSUME UploadInv, NEW u \in Items, U!Answer(u) PROVE UploadInv'
<1>0. /\ BrowserTypes /\ StoreTypes /\ AvatarTypes /\ JobTypes
      /\ Routes /\ JobsPublished /\ Earned /\ WritersOwn /\ DoneIsDocumented /\ AvatarsApplied
      /\ U!NamesAreBacked /\ U!NothingAcceptedIsLost /\ Followed /\ Freshening
  BY DEF UploadInv
<1>1. UNCHANGED <<use, events, missed, online, source, made, objects, file, avatar, applied,
        cache, stale, reader, ready, dead, worker>>
  BY DEF U!Answer, U!browser, U!store, U!profile, U!cached, U!jobs, U!socket
<1>2. /\ req[u] \in {"accepted", "made", "saved", "refused"} /\ hit' \in {hit, FALSE}
      /\ req' = [req EXCEPT ![u] = IF @ = "accepted" THEN "queued" ELSE "over"]
      /\ \/ chip' = chip /\ chip[u] = "none"
         \/ /\ chip[u] # "none" /\ chip' = [chip EXCEPT ![u] = IF req[u] = "accepted" THEN "processing"
                ELSE IF req[u] = "made" THEN "completed" ELSE "error"]
  BY <1>0 DEF U!Answer, U!Shows, AvatarTypes
<1>3. (StoreTypes /\ JobTypes /\ WritersOwn /\ DoneIsDocumented /\ AvatarsApplied)'
  BY <1>0, <1>1 DEF StoreTypes, JobTypes, WritersOwn, U!At, U!Up, DoneIsDocumented, Documented,
      AvatarsApplied
<1>4. BrowserTypes'
  BY <1>0, <1>1, <1>2 DEF BrowserTypes, U!Uses, U!Chips, U!Steps
<1>5. AvatarTypes'
  BY <1>0, <1>1, <1>2 DEF AvatarTypes
<1>6. Routes'
  BY <1>0, <1>1, <1>2 DEF Routes, Staged, BrowserTypes
<1>7. JobsPublished'
  BY <1>0, <1>1, <1>2 DEF JobsPublished, Job, U!At, U!Up, Published, Staged, JobTypes,
      BrowserTypes
<1>8. Earned'
  BY <1>0, <1>1, <1>2 DEF Earned, BrowserTypes, StoreTypes
<1>9. U!NamesAreBacked'
  BY <1>0, <1>1, <1>2 DEF U!NamesAreBacked, Earned, StoreTypes, BrowserTypes, AvatarTypes
<1>10. U!NothingAcceptedIsLost'
  BY <1>0, <1>1, <1>2 DEF U!NothingAcceptedIsLost, Earned, BrowserTypes, StoreTypes, AvatarTypes
<1>11. Followed'
  BY <1>0, <1>1, <1>2 DEF Followed, Pending, U!At, U!Up, U!Waits, Routes, BrowserTypes, U!Chips
<1>12. Freshening'
  BY <1>0, <1>1, <1>2 DEF Freshening, U!At, AvatarTypes, JobTypes
<1> QED
  BY <1>3, <1>4, <1>5, <1>6, <1>7, <1>8, <1>9, <1>10, <1>11, <1>12 DEF UploadInv

(* An event ends the wait of an entry whose answer has come.               *)
LEMMA EventKeeps == ASSUME UploadInv, NEW u \in Items, U!Event(u) PROVE UploadInv'
<1>0. /\ BrowserTypes /\ StoreTypes /\ AvatarTypes /\ JobTypes
      /\ Routes /\ JobsPublished /\ Earned /\ WritersOwn /\ DoneIsDocumented /\ AvatarsApplied
      /\ U!NamesAreBacked /\ U!NothingAcceptedIsLost /\ Followed /\ Freshening
  BY DEF UploadInv
<1>1. UNCHANGED <<use, req, online, source, made, objects, file, avatar, applied, cache, hit,
        stale, reader, ready, dead, worker>>
  BY DEF U!Event, U!browser, U!store, U!profile, U!cached, U!jobs, U!socket
<1>2. /\ events[u] > 0
      /\ \/ /\ chip[u] = "processing" /\ chip' = [chip EXCEPT ![u] = "completed"]
            /\ missed' = missed \ {u} /\ events' = [events EXCEPT ![u] = 0]
         \/ /\ chip[u] # "processing" /\ chip' = chip
            /\ missed' = missed \cup {u} /\ events' = [events EXCEPT ![u] = events[u] - 1]
  BY DEF U!Event, U!Expects
<1>3. /\ StoreTypes' /\ AvatarTypes' /\ JobTypes' /\ JobsPublished'
      /\ WritersOwn' /\ DoneIsDocumented' /\ AvatarsApplied' /\ U!NothingAcceptedIsLost'
      /\ Freshening'
  BY <1>0, <1>1 DEF StoreTypes, AvatarTypes, JobTypes, JobsPublished, Job, U!At, U!Up,
      Published, Staged, WritersOwn, DoneIsDocumented, Documented, AvatarsApplied,
      U!NothingAcceptedIsLost, Earned, Freshening
<1>4. BrowserTypes'
  BY <1>0, <1>1, <1>2 DEF BrowserTypes, U!Uses, U!Chips, U!Steps
<1>5. Routes'
  BY <1>0, <1>1, <1>2 DEF Routes, Staged, BrowserTypes
<1>6. Earned'
  BY <1>0, <1>1, <1>2 DEF Earned, BrowserTypes, StoreTypes
<1>7. U!NamesAreBacked'
  BY <1>0, <1>1, <1>2 DEF U!NamesAreBacked, Earned, StoreTypes, BrowserTypes, AvatarTypes
<1>8. Followed'
  BY <1>0, <1>1, <1>2 DEF Followed, Pending, U!At, U!Up, U!Waits, BrowserTypes, JobTypes
<1> QED
  BY <1>3, <1>4, <1>5, <1>6, <1>7, <1>8 DEF UploadInv

(* What is taken from the queue of the browser waits for nothing.           *)
LEMMA ForgetKeeps == ASSUME UploadInv, NEW set \in SUBSET Items, U!Forget(set),
         UNCHANGED <<use, req, online, U!store, file, U!profile, U!jobs, worker>> PROVE UploadInv'
<1>0. /\ BrowserTypes /\ StoreTypes /\ AvatarTypes /\ JobTypes
      /\ Routes /\ JobsPublished /\ Earned /\ WritersOwn /\ DoneIsDocumented /\ AvatarsApplied
      /\ U!NamesAreBacked /\ U!NothingAcceptedIsLost /\ Followed /\ Freshening
  BY DEF UploadInv
<1>1. UNCHANGED <<use, req, online, source, made, objects, file, avatar, applied, cache, hit,
        stale, reader, ready, dead, worker>>
  BY DEF U!Forget, U!browser, U!store, U!profile, U!cached, U!jobs, U!socket
<1>2. /\ chip' = [x \in Items |-> IF x \in set THEN "none" ELSE chip[x]]
      /\ missed' = missed \ set
      /\ events' = [x \in Items |-> IF x \in set THEN 0 ELSE events[x]]
  BY DEF U!Forget
<1>3. /\ StoreTypes' /\ AvatarTypes' /\ JobTypes' /\ JobsPublished'
      /\ WritersOwn' /\ DoneIsDocumented' /\ AvatarsApplied' /\ U!NothingAcceptedIsLost'
      /\ Freshening'
  BY <1>0, <1>1 DEF StoreTypes, AvatarTypes, JobTypes, JobsPublished, Job, U!At, U!Up,
      Published, Staged, WritersOwn, DoneIsDocumented, Documented, AvatarsApplied,
      U!NothingAcceptedIsLost, Earned, Freshening
<1>4. BrowserTypes'
  BY <1>0, <1>1, <1>2 DEF BrowserTypes, U!Uses, U!Chips, U!Steps
<1>5. Routes'
  BY <1>0, <1>1, <1>2 DEF Routes, Staged, BrowserTypes
<1>6. Earned'
  BY <1>0, <1>1, <1>2 DEF Earned, BrowserTypes, StoreTypes
<1>7. U!NamesAreBacked'
  BY <1>0, <1>1, <1>2 DEF U!NamesAreBacked, Earned, StoreTypes, BrowserTypes, AvatarTypes
<1>8. Followed'
  BY <1>0, <1>1, <1>2 DEF Followed, Pending, U!At, U!Up, U!Waits, BrowserTypes, JobTypes
<1> QED
  BY <1>3, <1>4, <1>5, <1>6, <1>7, <1>8 DEF UploadInv

(* Whether the user removes one entry or sends the message.                *)
LEMMA RemovalKeeps ==
  ASSUME UploadInv, U!Send \/ \E u \in Items : U!RemoveChip(u)
  PROVE  UploadInv'
<1>1. PICK set \in SUBSET Items :
        U!Forget(set) /\ UNCHANGED <<use, req, online, U!store, file, U!profile, U!jobs, worker>>
  BY DEF U!Send, U!RemoveChip
<1> QED
  BY <1>1, ForgetKeeps

(* A socket that goes takes its events with it, which are missed.          *)
LEMMA SocketKeeps == ASSUME UploadInv, U!Drop \/ U!Reconnect PROVE UploadInv'
<1>0. /\ BrowserTypes /\ StoreTypes /\ AvatarTypes /\ JobTypes
      /\ Routes /\ JobsPublished /\ Earned /\ WritersOwn /\ DoneIsDocumented /\ AvatarsApplied
      /\ U!NamesAreBacked /\ U!NothingAcceptedIsLost /\ Followed /\ Freshening
  BY DEF UploadInv
<1>1. UNCHANGED <<use, chip, req, source, made, objects, file, avatar, applied, cache, hit,
        stale, reader, ready, dead, worker>>
  BY DEF U!browser, U!store, U!profile, U!cached, U!jobs, U!socket, U!Drop, U!Reconnect
<1>2. /\ online' \in BOOLEAN
      /\ \/ missed' = missed /\ events' = events
         \/ /\ missed' = missed \cup {x \in Items : events[x] > 0}
            /\ events' = [x \in Items |-> 0]
  BY <1>0 DEF U!Drop, U!Reconnect, U!browser, BrowserTypes
<1>3. /\ StoreTypes' /\ AvatarTypes' /\ JobTypes' /\ Routes'
      /\ JobsPublished' /\ WritersOwn' /\ DoneIsDocumented' /\ AvatarsApplied'
      /\ U!NamesAreBacked' /\ U!NothingAcceptedIsLost' /\ Freshening'
  BY <1>0, <1>1 DEF StoreTypes, AvatarTypes, JobTypes, Routes, Staged, JobsPublished, Job, U!At,
      U!Up, Published, WritersOwn, DoneIsDocumented, Documented, AvatarsApplied,
      U!NamesAreBacked, Earned, U!NothingAcceptedIsLost, Freshening
<1>4. BrowserTypes'
  BY <1>0, <1>1, <1>2 DEF BrowserTypes, U!Uses, U!Chips, U!Steps
<1>5. Earned'
  BY <1>0, <1>1, <1>2 DEF Earned, BrowserTypes, StoreTypes
<1>6. Followed'
  BY <1>0, <1>1, <1>2 DEF Followed, Pending, U!At, U!Up, U!Waits, BrowserTypes, JobTypes
<1> QED
  BY <1>3, <1>4, <1>5, <1>6 DEF UploadInv

(* The staged source is there before the job is published.                 *)
LEMMA StageKeeps == ASSUME UploadInv, NEW u \in Items, U!Stage(u) PROVE UploadInv'
<1>0. /\ BrowserTypes /\ StoreTypes /\ AvatarTypes /\ JobTypes
      /\ Routes /\ JobsPublished /\ Earned /\ WritersOwn /\ DoneIsDocumented /\ AvatarsApplied
      /\ U!NamesAreBacked /\ U!NothingAcceptedIsLost /\ Followed /\ Freshening
  BY DEF UploadInv
<1>1. UNCHANGED <<use, chip, events, missed, online, made, objects, file, avatar, applied,
        cache, hit, stale, reader, ready, dead, worker>>
  BY DEF U!Stage, U!browser, U!store, U!profile, U!cached, U!jobs, U!socket
<1>2. /\ req[u] = "stage"
      /\ \/ source' = [source EXCEPT ![u] = TRUE] /\ req' = [req EXCEPT ![u] = "publish"]
         \/ source' = source /\ req' = [req EXCEPT ![u] = "refused"]
  BY DEF U!Stage, U!GoesTo
<1>3. /\ AvatarTypes' /\ JobTypes' /\ WritersOwn' /\ DoneIsDocumented'
      /\ AvatarsApplied' /\ U!NamesAreBacked' /\ Freshening'
  BY <1>0, <1>1 DEF AvatarTypes, JobTypes, WritersOwn, U!At, U!Up, DoneIsDocumented, Documented,
      AvatarsApplied, U!NamesAreBacked, Earned, Freshening
<1>4. BrowserTypes'
  BY <1>0, <1>1, <1>2 DEF BrowserTypes, U!Uses, U!Chips, U!Steps
<1>5. StoreTypes'
  BY <1>0, <1>1, <1>2 DEF StoreTypes
<1>6. Routes'
  BY <1>0, <1>1, <1>2 DEF Routes, Staged, BrowserTypes
<1>7. JobsPublished'
  BY <1>0, <1>1, <1>2 DEF JobsPublished, Job, U!At, U!Up, Published, Staged, JobTypes,
      BrowserTypes
<1>8. Earned'
  BY <1>0, <1>1, <1>2 DEF Earned, BrowserTypes, StoreTypes
<1>9. U!NothingAcceptedIsLost'
  BY <1>0, <1>1, <1>2 DEF U!NothingAcceptedIsLost, Earned, BrowserTypes, StoreTypes, AvatarTypes
<1>10. Followed'
  BY <1>0, <1>1, <1>2 DEF Followed, Pending, U!At, U!Up, U!Waits, BrowserTypes, JobTypes
<1> QED
  BY <1>3, <1>4, <1>5, <1>6, <1>7, <1>8, <1>9, <1>10 DEF UploadInv

(* A job is published with its source there; a lost confirm leaves the job. *)
LEMMA PublishKeeps == ASSUME UploadInv, NEW u \in Items, U!Publish(u) PROVE UploadInv'
<1>0. /\ BrowserTypes /\ StoreTypes /\ AvatarTypes /\ JobTypes
      /\ Routes /\ JobsPublished /\ Earned /\ WritersOwn /\ DoneIsDocumented /\ AvatarsApplied
      /\ U!NamesAreBacked /\ U!NothingAcceptedIsLost /\ Followed /\ Freshening
  BY DEF UploadInv
<1>1. UNCHANGED <<use, chip, events, missed, online, source, made, objects, file, avatar,
        applied, cache, hit, stale, reader, dead, worker>>
  BY DEF U!Publish, U!browser, U!store, U!profile, U!cached, U!jobs, U!socket
<1>2. /\ req[u] = "publish"
      /\ \/ ready' = U!Queued(<<u, 0>>) /\ req' = [req EXCEPT ![u] = "accepted"]
         \/ /\ ready' \in {ready, U!Queued(<<u, 0>>)}
            /\ req' = [req EXCEPT ![u] = "unstage"]
  BY DEF U!Publish, U!GoesTo
<1>3. MaxAttempts \in Nat /\ req' \in [Items -> {"accepted", "unstage"} \cup U!Steps]
  BY <1>0, <1>2, UploadsAssumption DEF BrowserTypes
<1>4. /\ U!IsABag(ready') /\ DOMAIN ready' \in {DOMAIN ready, DOMAIN ready \cup {<<u, 0>>}}
      /\ req'[u] = "accepted" => <<u, 0>> \in DOMAIN ready'
      /\ <<u, 0>> \in Job /\ <<u, 0>>[1] = u
  BY <1>0, <1>2, <1>3, QueuedJob, SMTT(20) DEF JobTypes, Job
<1>5. /\ StoreTypes' /\ AvatarTypes' /\ WritersOwn' /\ DoneIsDocumented'
      /\ AvatarsApplied' /\ U!NamesAreBacked' /\ Freshening'
  BY <1>0, <1>1 DEF StoreTypes, AvatarTypes, WritersOwn, U!At, U!Up, DoneIsDocumented,
      Documented, AvatarsApplied, U!NamesAreBacked, Earned, Freshening
<1>6. BrowserTypes'
  BY <1>0, <1>1, <1>2, <1>3, <1>4 DEF BrowserTypes, U!Uses, U!Chips, U!Steps
<1>7. JobTypes'
  BY <1>0, <1>1, <1>2, <1>3, <1>4 DEF JobTypes, Job, WorkerType, WorkerPcs
<1>8. Routes'
  BY <1>0, <1>1, <1>2, <1>3, <1>4 DEF Routes, Staged, BrowserTypes
<1>9. JobsPublished'
  BY <1>0, <1>1, <1>2, <1>3, <1>4 DEF JobsPublished, Routes, BrowserTypes, U!At, U!Up,
      Published, JobTypes, Job
<1>10. Earned'
  BY <1>0, <1>1, <1>2, <1>3, <1>4 DEF Earned, BrowserTypes, StoreTypes
<1>11. U!NothingAcceptedIsLost'
  BY <1>0, <1>1, <1>2, <1>3, <1>4 DEF U!NothingAcceptedIsLost, Earned, BrowserTypes, StoreTypes,
      AvatarTypes
<1>12. Followed'
  BY <1>0, <1>1, <1>2, <1>3, <1>4 DEF Followed, Pending, U!At, U!Up, U!Waits, BrowserTypes,
      JobTypes
<1> QED
  BY <1>5, <1>6, <1>7, <1>8, <1>9, <1>10, <1>11, <1>12 DEF UploadInv

(* Only a request that was not accepted loses its source.                  *)
LEMMA UnstageKeeps == ASSUME UploadInv, NEW u \in Items, U!Unstage(u) PROVE UploadInv'
<1>0. /\ BrowserTypes /\ StoreTypes /\ AvatarTypes /\ JobTypes
      /\ Routes /\ JobsPublished /\ Earned /\ WritersOwn /\ DoneIsDocumented /\ AvatarsApplied
      /\ U!NamesAreBacked /\ U!NothingAcceptedIsLost /\ Followed /\ Freshening
  BY DEF UploadInv
<1>1. UNCHANGED <<use, chip, events, missed, online, made, objects, file, avatar, applied,
        cache, hit, stale, reader, ready, dead, worker>>
  BY DEF U!Unstage, U!browser, U!store, U!profile, U!cached, U!jobs, U!socket
<1>2. /\ req[u] = "unstage" /\ source' \in {source, [source EXCEPT ![u] = FALSE]}
      /\ req' = [req EXCEPT ![u] = IF use[u] = "avatar" THEN "saved" ELSE "refused"]
  BY DEF U!Unstage, U!GoesTo
<1>3. /\ AvatarTypes' /\ JobTypes' /\ WritersOwn' /\ DoneIsDocumented'
      /\ AvatarsApplied' /\ U!NamesAreBacked' /\ Freshening'
  BY <1>0, <1>1 DEF AvatarTypes, JobTypes, WritersOwn, U!At, U!Up, DoneIsDocumented, Documented,
      AvatarsApplied, U!NamesAreBacked, Earned, Freshening
<1>4. BrowserTypes'
  BY <1>0, <1>1, <1>2 DEF BrowserTypes, U!Uses, U!Chips, U!Steps
<1>5. StoreTypes'
  BY <1>0, <1>1, <1>2 DEF StoreTypes
<1>6. Routes'
  BY <1>0, <1>1, <1>2 DEF Routes, Staged, BrowserTypes
<1>7. JobsPublished'
  BY <1>0, <1>1, <1>2 DEF JobsPublished, Job, U!At, U!Up, Published, Staged, JobTypes,
      BrowserTypes
<1>8. Earned'
  BY <1>0, <1>1, <1>2 DEF Earned, BrowserTypes, StoreTypes
<1>9. U!NothingAcceptedIsLost'
  BY <1>0, <1>1, <1>2 DEF U!NothingAcceptedIsLost, Earned, BrowserTypes, StoreTypes, AvatarTypes
<1>10. Followed'
  BY <1>0, <1>1, <1>2 DEF Followed, Pending, U!At, U!Up, U!Waits, BrowserTypes, JobTypes
<1> QED
  BY <1>3, <1>4, <1>5, <1>6, <1>7, <1>8, <1>9, <1>10 DEF UploadInv

(* The object of a completed upload is the last that was made.             *)
LEMMA CompleteKeeps == ASSUME UploadInv, NEW u \in Items, U!Complete(u) PROVE UploadInv'
<1>0. /\ BrowserTypes /\ StoreTypes /\ AvatarTypes /\ JobTypes
      /\ Routes /\ JobsPublished /\ Earned /\ WritersOwn /\ DoneIsDocumented /\ AvatarsApplied
      /\ U!NamesAreBacked /\ U!NothingAcceptedIsLost /\ Followed /\ Freshening
  BY DEF UploadInv
<1>1. UNCHANGED <<use, chip, events, missed, online, source, file, avatar, applied, cache, hit,
        stale, reader, ready, dead, worker>>
  BY DEF U!Complete, U!browser, U!store, U!profile, U!cached, U!jobs, U!socket
<1>2. /\ req[u] = "complete"
      /\ \/ /\ objects' = [objects EXCEPT ![u] = @ \cup {made[u] + 1}]
            /\ made' = [made EXCEPT ![u] = @ + 1] /\ req' = [req EXCEPT ![u] = "record"]
         \/ UNCHANGED <<objects, made>> /\ req' = [req EXCEPT ![u] = "refused"]
  BY DEF U!Complete, U!Stores, U!GoesTo
<1>3. use[u] = "parts" /\ \A w \in Workers : U!At(w, "idle") \/ U!Up(w) # u
  BY <1>0, <1>2 DEF Routes, JobsPublished, Staged, U!At, U!Up
<1>4. (AvatarTypes /\ JobTypes /\ DoneIsDocumented /\ AvatarsApplied /\ Freshening)'
  BY <1>0, <1>1 DEF AvatarTypes, JobTypes, DoneIsDocumented, Documented, U!At, U!Up,
      AvatarsApplied, Freshening
<1>5. BrowserTypes'
  BY <1>0, <1>1, <1>2, <1>3 DEF BrowserTypes, U!Uses, U!Chips, U!Steps
<1>6. StoreTypes'
  BY <1>0, <1>1, <1>2, <1>3 DEF StoreTypes
<1>7. Routes'
  BY <1>0, <1>1, <1>2, <1>3 DEF Routes, Staged, BrowserTypes
<1>8. JobsPublished'
  BY <1>0, <1>1, <1>2, <1>3 DEF JobsPublished, Job, U!At, U!Up, Published, Staged, JobTypes,
      BrowserTypes
<1>9. Earned'
  BY <1>0, <1>1, <1>2, <1>3 DEF Earned, BrowserTypes, StoreTypes
<1>10. WritersOwn'
  BY <1>0, <1>1, <1>2, <1>3 DEF WritersOwn, U!At, U!Up, JobTypes, StoreTypes
<1>11. U!NamesAreBacked'
  BY <1>0, <1>1, <1>2, <1>3 DEF U!NamesAreBacked, Earned, StoreTypes, BrowserTypes, AvatarTypes
<1>12. U!NothingAcceptedIsLost'
  BY <1>0, <1>1, <1>2, <1>3 DEF U!NothingAcceptedIsLost, Earned, BrowserTypes, StoreTypes,
      AvatarTypes
<1>13. Followed'
  BY <1>0, <1>1, <1>2, <1>3 DEF Followed, Pending, U!At, U!Up, U!Waits, BrowserTypes, JobTypes
<1> QED
  BY <1>4, <1>5, <1>6, <1>7, <1>8, <1>9, <1>10, <1>11, <1>12, <1>13 DEF UploadInv

(* The File document of an upload in parts names the object it completed.  *)
LEMMA RecordKeeps == ASSUME UploadInv, NEW u \in Items, U!Record(u) PROVE UploadInv'
<1>0. /\ BrowserTypes /\ StoreTypes /\ AvatarTypes /\ JobTypes
      /\ Routes /\ JobsPublished /\ Earned /\ WritersOwn /\ DoneIsDocumented /\ AvatarsApplied
      /\ U!NamesAreBacked /\ U!NothingAcceptedIsLost /\ Followed /\ Freshening
  BY DEF UploadInv
<1>1. UNCHANGED <<use, chip, events, missed, online, source, made, objects, avatar, applied,
        cache, hit, stale, reader, ready, dead, worker>>
  BY DEF U!Record, U!browser, U!store, U!profile, U!cached, U!jobs, U!socket
<1>2. /\ req[u] = "record"
      /\ \/ file' = [file EXCEPT ![u] = made[u]] /\ req' = [req EXCEPT ![u] = "made"]
         \/ file' = file /\ req' = [req EXCEPT ![u] = "refused"]
  BY DEF U!Record, U!MadeKey, U!GoesTo
<1>3. /\ use[u] = "parts" /\ made[u] \in objects[u] /\ made[u] \in Nat /\ made[u] # 0
      /\ \A w \in Workers : U!At(w, "idle") \/ U!Up(w) # u
  BY <1>0, <1>2 DEF Routes, Earned, JobsPublished, StoreTypes, Staged, U!At, U!Up
<1>4. (AvatarTypes /\ JobTypes /\ AvatarsApplied /\ Freshening)'
  BY <1>0, <1>1 DEF AvatarTypes, JobTypes, AvatarsApplied, Freshening, U!At
<1>5. BrowserTypes'
  BY <1>0, <1>1, <1>2, <1>3 DEF BrowserTypes, U!Uses, U!Chips, U!Steps
<1>6. StoreTypes'
  BY <1>0, <1>1, <1>2, <1>3 DEF StoreTypes
<1>7. Routes'
  BY <1>0, <1>1, <1>2, <1>3 DEF Routes, Staged, BrowserTypes
<1>8. JobsPublished'
  BY <1>0, <1>1, <1>2, <1>3 DEF JobsPublished, Job, U!At, U!Up, Published, Staged, JobTypes,
      BrowserTypes
<1>9. Earned'
  BY <1>0, <1>1, <1>2, <1>3 DEF Earned, BrowserTypes, StoreTypes
<1>10. WritersOwn'
  BY <1>0, <1>1, <1>2, <1>3 DEF WritersOwn, U!At, U!Up, JobTypes, StoreTypes
<1>11. DoneIsDocumented'
  BY <1>0, <1>1, <1>2, <1>3 DEF DoneIsDocumented, Documented, U!At, U!Up, JobTypes,
      BrowserTypes, StoreTypes, AvatarTypes
<1>12. U!NamesAreBacked'
  BY <1>0, <1>1, <1>2, <1>3 DEF U!NamesAreBacked, Earned, StoreTypes, BrowserTypes, AvatarTypes
<1>13. U!NothingAcceptedIsLost'
  BY <1>0, <1>1, <1>2, <1>3 DEF U!NothingAcceptedIsLost, Earned, BrowserTypes, StoreTypes,
      AvatarTypes
<1>14. Followed'
  BY <1>0, <1>1, <1>2, <1>3 DEF Followed, Pending, U!At, U!Up, U!Waits, BrowserTypes, JobTypes
<1> QED
  BY <1>4, <1>5, <1>6, <1>7, <1>8, <1>9, <1>10, <1>11, <1>12, <1>13, <1>14 DEF UploadInv

(* What a read leaves in the cache was the stored avatar when it read it.  *)
LEMMA ReadKeeps == ASSUME UploadInv, U!ReadProfile PROVE UploadInv'
<1>0. /\ BrowserTypes /\ StoreTypes /\ AvatarTypes /\ JobTypes
      /\ Routes /\ JobsPublished /\ Earned /\ WritersOwn /\ DoneIsDocumented /\ AvatarsApplied
      /\ U!NamesAreBacked /\ U!NothingAcceptedIsLost /\ Followed /\ Freshening
  BY DEF UploadInv
<1>1. UNCHANGED <<use, chip, req, events, missed, online, source, made, objects, file, avatar,
        applied, ready, dead, worker>>
  BY DEF U!ReadProfile, U!browser, U!store, U!profile, U!cached, U!jobs, U!socket
<1>2. /\ reader' \in [pc : {"idle", "find", "fill"}, up : Items \cup {Nobody}]
      /\ \/ UNCHANGED <<cache, hit, stale>>
         \/ cache' = reader.up /\ hit' = TRUE /\ stale' = (stale \/ reader.up # avatar.up)
  BY <1>0 DEF U!ReadProfile, U!NoRead, AvatarTypes
<1>3. (hit' /\ ~stale' => cache' = avatar.up) \/ UNCHANGED <<cache, hit, stale>>
  BY <1>2
<1>4. /\ BrowserTypes' /\ StoreTypes' /\ JobTypes' /\ Routes'
      /\ JobsPublished' /\ Earned' /\ WritersOwn' /\ DoneIsDocumented'
      /\ AvatarsApplied' /\ U!NamesAreBacked' /\ U!NothingAcceptedIsLost' /\ Followed'
  BY <1>0, <1>1 DEF BrowserTypes, StoreTypes, JobTypes, Routes, Staged, JobsPublished, Job,
      U!At, U!Up, Published, Earned, WritersOwn, DoneIsDocumented, Documented, AvatarsApplied,
      U!NamesAreBacked, U!NothingAcceptedIsLost, Followed, Pending, U!Waits
<1>5. AvatarTypes'
  BY <1>0, <1>1, <1>2, <1>3 DEF AvatarTypes
<1>6. Freshening'
  BY <1>0, <1>1, <1>3 DEF Freshening, U!At
<1> QED
  BY <1>4, <1>5, <1>6 DEF UploadInv

-----------------------------------------------------------------------------
(* The workers.                                                            *)

(* A worker goes on with its job, or is done with it.                      *)
Moved(w, from, to) ==
  /\ worker' \in [Workers -> WorkerType] /\ \A v \in Workers \ {w} : worker'[v] = worker[v]
  /\ worker[w].pc = from /\ worker'[w].pc \in to /\ from # "idle" /\ worker[w].up \in Items
  /\ worker'[w].up = worker[w].up /\ worker'[w].tries = worker[w].tries
  /\ worker'[w].held = worker[w].held
Ended(w) ==
  /\ worker' \in [Workers -> WorkerType] /\ \A v \in Workers \ {w} : worker'[v] = worker[v]
  /\ worker[w].pc # "idle" /\ worker[w].up \in Items
  /\ worker'[w].pc = "idle" /\ worker'[w].up = Nobody /\ worker'[w].held = FALSE

(* A job moves on to the named step.                                       *)
LEMMA ToMoves ==
  ASSUME JobTypes, NEW w \in Workers, NEW from, U!At(w, from), from # "idle",
         NEW pc \in WorkerPcs, U!To(w, pc)
  PROVE  Moved(w, from, {pc})
BY DEF JobTypes, WorkerType, U!At, U!To, Moved

(* A job that ends gives up its message.                                   *)
LEMMA DoneEnds ==
  ASSUME JobTypes, NEW w \in Workers, worker[w].pc # "idle", U!Done(w)
  PROVE  Ended(w)
<1>1. 0 \in 0 .. MaxAttempts
  BY UploadsAssumption
<1> QED
  BY <1>1 DEF JobTypes, WorkerType, WorkerPcs, U!Done, U!Idle, Ended

(* With a move the types of the workers stay.                              *)
LEMMA MovedTyped ==
  ASSUME JobTypes, NEW w \in Workers, NEW from, NEW to, Moved(w, from, to), "idle" \notin to,
         U!IsABag(ready'), DOMAIN ready' \subseteq Job, dead' \subseteq Items
  PROVE  JobTypes'
BY DEF JobTypes, Moved

(* The types after a job ended.                                            *)
LEMMA EndedTyped ==
  ASSUME JobTypes, NEW w \in Workers, Ended(w),
         U!IsABag(ready'), DOMAIN ready' \subseteq Job, dead' \subseteq Items
  PROVE  JobTypes'
BY UploadsAssumption DEF JobTypes, Ended

(* A delivery that comes again is queued if it was held.                   *)
LEMMA ReturnsJob ==
  ASSUME JobTypes, NEW w \in Workers, worker[w].pc # "idle", ready' = U!Returns(w)
  PROVE  /\ U!IsABag(ready') /\ DOMAIN ready' \subseteq Job /\ DOMAIN ready \subseteq DOMAIN ready'
         /\ \A job \in DOMAIN ready' \ DOMAIN ready : job[1] = worker[w].up
         /\ worker[w].held => \E job \in DOMAIN ready' : job[1] = worker[w].up
<1>1. U!IsABag(ready) /\ DOMAIN ready \subseteq Job /\ worker[w].up \in Items
      /\ worker[w].tries \in 0 .. MaxAttempts
  BY DEF JobTypes, WorkerType
<1> DEFINE job == <<worker[w].up, worker[w].tries>>
<1>2. job \in Job /\ job[1] = worker[w].up
  BY <1>1 DEF Job
<1> HIDE DEF job
<1>3. ready' = IF worker[w].held THEN U!Queued(job) ELSE ready
  BY DEF U!Returns, U!Up, job
<1>4. U!IsABag(U!Queued(job)) /\ DOMAIN U!Queued(job) = DOMAIN ready \cup {job}
  BY <1>1, QueuedJob
<1>5. CASE worker[w].held
  <2>1. U!IsABag(ready') /\ DOMAIN ready' = DOMAIN ready \cup {job}
    BY <1>3, <1>4, <1>5
  <2> QED
    BY <1>1, <1>2, <2>1
<1> QED
  BY <1>1, <1>3, <1>5

(* A worker that takes a job holds it, and the job is in nobody's way.     *)
LEMMA TakeKeeps == ASSUME UploadInv, NEW w \in Workers, U!Take(w) PROVE UploadInv'
<1>0. /\ BrowserTypes /\ StoreTypes /\ AvatarTypes /\ JobTypes
      /\ Routes /\ JobsPublished /\ Earned /\ WritersOwn /\ DoneIsDocumented /\ AvatarsApplied
      /\ U!NamesAreBacked /\ U!NothingAcceptedIsLost /\ Followed /\ Freshening
  BY DEF UploadInv
<1>1. UNCHANGED <<use, chip, req, events, missed, online, source, made, objects, file, avatar,
        applied, cache, hit, stale, reader, dead>>
  BY DEF U!Take, U!browser, U!store, U!profile, U!cached, U!jobs, U!socket
<1>2. PICK job \in DOMAIN ready : /\ worker[w].pc = "idle" /\ ready' = U!Taken(job)
                              /\ worker' = [worker EXCEPT ![w] = [pc |-> "find", up |-> job[1],
                                              tries |-> job[2], held |-> TRUE, key |-> 0]]
  BY DEF U!Take, U!At, U!BagToSet
<1>3. /\ job[1] \in Items /\ job[2] \in 0 .. MaxAttempts
      /\ U!IsABag(ready') /\ DOMAIN ready' \subseteq DOMAIN ready
      /\ DOMAIN ready \ {job} \subseteq DOMAIN ready'
  BY <1>0, <1>2, TakenJob DEF JobTypes, Job
<1>4. /\ worker' \in [Workers -> WorkerType] /\ \A v \in Workers \ {w} : worker'[v] = worker[v]
      /\ worker[w].pc = "idle" /\ worker'[w].pc = "find" /\ worker'[w].up = job[1]
      /\ worker'[w].held = TRUE
  BY <1>0, <1>2, <1>3 DEF JobTypes, WorkerType, WorkerPcs
<1>5. /\ BrowserTypes' /\ StoreTypes' /\ AvatarTypes' /\ Routes'
      /\ Earned' /\ AvatarsApplied' /\ U!NamesAreBacked' /\ U!NothingAcceptedIsLost'
  BY <1>0, <1>1 DEF BrowserTypes, StoreTypes, AvatarTypes, Routes, Staged, Earned,
      AvatarsApplied, U!NamesAreBacked, U!NothingAcceptedIsLost
<1>6. JobTypes'
  BY <1>0, <1>1, <1>3, <1>4 DEF JobTypes
<1>7. JobsPublished'
  BY <1>0, <1>1, <1>2, <1>3, <1>4 DEF JobsPublished, Job, U!At, U!Up, Published, Staged,
      JobTypes, BrowserTypes
<1>8. WritersOwn'
  BY <1>0, <1>1, <1>2, <1>3, <1>4 DEF WritersOwn, U!At, U!Up, JobTypes, StoreTypes
<1>9. DoneIsDocumented'
  BY <1>0, <1>1, <1>2, <1>3, <1>4 DEF DoneIsDocumented, Documented, U!At, U!Up, JobTypes,
      BrowserTypes, StoreTypes, AvatarTypes
<1>10. Followed'
  BY <1>0, <1>1, <1>2, <1>3, <1>4 DEF Followed, Pending, U!At, U!Up, U!Waits, BrowserTypes,
      JobTypes
<1>11. Freshening'
  BY <1>0, <1>1, <1>2, <1>3, <1>4 DEF Freshening, U!At, AvatarTypes, JobTypes
<1> QED
  BY <1>5, <1>6, <1>7, <1>8, <1>9, <1>10, <1>11 DEF UploadInv

(* Work that was done already is announced, and not done again.            *)
LEMMA FindKeeps == ASSUME UploadInv, NEW w \in Workers, U!Find(w) PROVE UploadInv'
<1>0. /\ BrowserTypes /\ StoreTypes /\ AvatarTypes /\ JobTypes
      /\ Routes /\ JobsPublished /\ Earned /\ WritersOwn /\ DoneIsDocumented /\ AvatarsApplied
      /\ U!NamesAreBacked /\ U!NothingAcceptedIsLost /\ Followed /\ Freshening
  BY DEF UploadInv
<1>1. UNCHANGED <<use, chip, req, events, missed, online, source, made, objects, file, avatar,
        applied, cache, hit, stale, reader, ready, dead>>
  BY DEF U!Find, U!browser, U!store, U!profile, U!cached, U!jobs, U!socket
<1>2. PICK pc \in {"emit", "make", "fail"} : U!To(w, pc) /\ (pc = "emit" => U!Left(w))
  BY DEF U!Find, U!DoneBefore
<1>3. Moved(w, "find", {pc})
  BY <1>0, <1>2, ToMoves DEF U!Find, WorkerPcs
<1>4. /\ BrowserTypes' /\ StoreTypes' /\ AvatarTypes' /\ Routes'
      /\ Earned' /\ AvatarsApplied' /\ U!NamesAreBacked' /\ U!NothingAcceptedIsLost'
  BY <1>0, <1>1 DEF BrowserTypes, StoreTypes, AvatarTypes, Routes, Staged, Earned,
      AvatarsApplied, U!NamesAreBacked, U!NothingAcceptedIsLost
<1>5. JobTypes'
  BY <1>0, <1>1, <1>2, <1>3, MovedTyped DEF JobTypes
<1>6. JobsPublished'
  BY <1>0, <1>1, <1>2, <1>3 DEF JobsPublished, Job, U!At, U!Up, Published, Staged, JobTypes,
      BrowserTypes, Moved
<1>7. WritersOwn'
  BY <1>0, <1>1, <1>2, <1>3 DEF WritersOwn, U!At, U!Up, JobTypes, StoreTypes, Moved
<1>8. DoneIsDocumented'
  BY <1>0, <1>1, <1>2, <1>3, UploadsAssumption DEF DoneIsDocumented, JobsPublished,
      AvatarsApplied, Documented, Staged, U!At, U!Up, U!Left, U!Chat, Moved
<1>9. Followed'
  BY <1>0, <1>1, <1>2, <1>3 DEF Followed, Pending, U!At, U!Up, U!Waits, BrowserTypes, JobTypes,
      Moved
<1>10. Freshening'
  BY <1>0, <1>1, <1>2, <1>3 DEF Freshening, U!At, AvatarTypes, JobTypes, Moved
<1> QED
  BY <1>4, <1>5, <1>6, <1>7, <1>8, <1>9, <1>10 DEF UploadInv

(* The object that a worker makes is new, and the source stays.            *)
LEMMA MakeKeeps == ASSUME UploadInv, NEW w \in Workers, U!Make(w) PROVE UploadInv'
<1>0. /\ BrowserTypes /\ StoreTypes /\ AvatarTypes /\ JobTypes
      /\ Routes /\ JobsPublished /\ Earned /\ WritersOwn /\ DoneIsDocumented /\ AvatarsApplied
      /\ U!NamesAreBacked /\ U!NothingAcceptedIsLost /\ Followed /\ Freshening
  BY DEF UploadInv
<1>1. UNCHANGED <<use, chip, req, events, missed, online, source, file, avatar, applied, cache,
        hit, stale, reader, ready, dead>>
  BY DEF U!Make, U!browser, U!store, U!profile, U!cached, U!jobs, U!socket, U!AfterMake
<1>2. \/ /\ objects' = [objects EXCEPT ![U!Up(w)] = @ \cup {made[U!Up(w)] + 1}]
         /\ made' = [made EXCEPT ![U!Up(w)] = @ + 1]
         /\ worker' = [worker EXCEPT ![w].pc = "write", ![w].key = made[U!Up(w)] + 1]
      \/ UNCHANGED <<objects, made>> /\ U!To(w, "fail")
  BY DEF U!Make, U!Stores, U!store
<1>3. worker[w].pc = "make" /\ U!Up(w) \in Items /\ made[U!Up(w)] \in Nat
  BY <1>0 DEF U!Make, U!At, U!Up, JobTypes, StoreTypes
<1>4. /\ Moved(w, "make", {"write", "fail"})
      /\ \/ /\ objects' = [objects EXCEPT ![U!Up(w)] = @ \cup {made[U!Up(w)] + 1}]
            /\ made' = [made EXCEPT ![U!Up(w)] = made[U!Up(w)] + 1]
            /\ worker'[w].key = made[U!Up(w)] + 1
         \/ UNCHANGED <<objects, made>> /\ worker'[w].pc = "fail"
  BY <1>0, <1>2, <1>3 DEF Moved, U!To, U!Up, JobTypes, WorkerType, WorkerPcs
<1>5. (BrowserTypes /\ AvatarTypes /\ Routes /\ AvatarsApplied /\ U!NothingAcceptedIsLost)'
  BY <1>0, <1>1 DEF BrowserTypes, AvatarTypes, Routes, Staged, AvatarsApplied,
      U!NothingAcceptedIsLost, Earned
<1>6. StoreTypes'
  BY <1>0, <1>1, <1>2, <1>3, <1>4 DEF StoreTypes
<1>7. JobTypes'
  BY <1>0, <1>1, <1>2, <1>3, <1>4, MovedTyped DEF JobTypes
<1>8. JobsPublished'
  BY <1>0, <1>1, <1>2, <1>3, <1>4 DEF JobsPublished, Job, U!At, U!Up, Published, Staged,
      JobTypes, BrowserTypes, Moved
<1>9. Earned'
  BY <1>0, <1>1, <1>2, <1>3, <1>4 DEF Earned, BrowserTypes, StoreTypes
<1>10. WritersOwn'
  BY <1>0, <1>1, <1>2, <1>3, <1>4 DEF WritersOwn, U!At, U!Up, JobTypes, StoreTypes, Moved
<1>11. DoneIsDocumented'
  BY <1>0, <1>1, <1>2, <1>3, <1>4 DEF DoneIsDocumented, Documented, U!At, U!Up, JobTypes,
      BrowserTypes, StoreTypes, AvatarTypes, Moved
<1>12. U!NamesAreBacked'
  BY <1>0, <1>1, <1>2, <1>3, <1>4 DEF U!NamesAreBacked, Earned, StoreTypes, BrowserTypes,
      AvatarTypes
<1>13. Followed'
  BY <1>0, <1>1, <1>2, <1>3, <1>4 DEF Followed, Pending, U!At, U!Up, U!Waits, BrowserTypes,
      JobTypes, Moved
<1>14. Freshening'
  BY <1>0, <1>1, <1>2, <1>3, <1>4 DEF Freshening, U!At, AvatarTypes, JobTypes, Moved
<1> QED
  BY <1>5, <1>6, <1>7, <1>8, <1>9, <1>10, <1>11, <1>12, <1>13, <1>14 DEF UploadInv

(* One document per upload; a duplicate takes away its own object only.    *)
LEMMA WriteFileKeeps == ASSUME UploadInv, NEW w \in Workers, U!WriteFile(w) PROVE UploadInv'
<1>0. /\ BrowserTypes /\ StoreTypes /\ AvatarTypes /\ JobTypes
      /\ Routes /\ JobsPublished /\ Earned /\ WritersOwn /\ DoneIsDocumented /\ AvatarsApplied
      /\ U!NamesAreBacked /\ U!NothingAcceptedIsLost /\ Followed /\ Freshening
  BY DEF UploadInv
<1>1. UNCHANGED <<use, chip, req, events, missed, online, source, made, avatar, applied, cache,
        hit, stale, reader, ready, dead>>
  BY DEF U!WriteFile, U!browser, U!store, U!profile, U!cached, U!jobs, U!socket
<1>2. PICK pc \in {"emit", "fail"} : U!To(w, pc)
  BY DEF U!WriteFile
<1>3. Moved(w, "write", {pc})
  BY <1>0, <1>2, ToMoves DEF U!WriteFile, WorkerPcs
<1>4. (U!To(w, "emit") => pc = "emit") /\ (U!To(w, "fail") => pc = "fail")
  BY <1>0, <1>3 DEF U!To, JobTypes, WorkerType, Moved
<1>5. /\ use[U!Up(w)] = "chat" /\ U!Up(w) \in Items
      /\ \/ /\ file[U!Up(w)] = 0 /\ pc = "emit" /\ objects' = objects
            /\ file' = [file EXCEPT ![U!Up(w)] = worker[w].key]
         \/ /\ file[U!Up(w)] # 0 /\ pc = "emit" /\ file' = file
            /\ objects' \in {objects, [objects EXCEPT ![U!Up(w)] = @ \ {worker[w].key}]}
         \/ pc = "fail" /\ UNCHANGED <<file, objects>>
  BY <1>0, <1>3, <1>4 DEF U!WriteFile, U!Undone, U!Chat, U!Up, Moved
<1>6. worker[w].key \in objects[U!Up(w)] /\ worker[w].key # file[U!Up(w)] /\ worker[w].key # 0
      /\ worker[w].key \in 1 .. made[U!Up(w)]
  BY <1>0, <1>3, <1>5 DEF WritersOwn, StoreTypes, Moved, U!At
<1>7. (BrowserTypes /\ AvatarTypes /\ Routes /\ AvatarsApplied)'
  BY <1>0, <1>1 DEF BrowserTypes, AvatarTypes, Routes, Staged, AvatarsApplied
<1>8. StoreTypes'
  BY <1>0, <1>1, <1>2, <1>3, <1>4, <1>5, <1>6 DEF StoreTypes
<1>9. JobTypes'
  BY <1>0, <1>1, <1>2, <1>3, <1>4, <1>5, <1>6, MovedTyped DEF JobTypes
<1>10. JobsPublished'
  BY <1>0, <1>1, <1>2, <1>3, <1>4, <1>5, <1>6 DEF JobsPublished, Job, U!At, U!Up, Published,
      Staged, JobTypes, BrowserTypes, Moved
<1>11. Earned'
  BY <1>0, <1>1, <1>5 DEF Earned, Routes, StoreTypes
<1>12. WritersOwn'
  BY <1>0, <1>1, <1>2, <1>3, <1>4, <1>5, <1>6 DEF WritersOwn, U!At, U!Up, JobTypes, StoreTypes,
      Moved
<1>13. DoneIsDocumented'
  BY <1>0, <1>1, <1>3, <1>5, <1>6 DEF DoneIsDocumented, Documented, U!At, U!Up, Moved,
      StoreTypes, JobTypes
<1>14. U!NamesAreBacked'
  BY <1>0, <1>1, <1>5, <1>6 DEF U!NamesAreBacked, AvatarsApplied, StoreTypes, AvatarTypes
<1>15. U!NothingAcceptedIsLost'
  BY <1>0, <1>1, <1>2, <1>3, <1>4, <1>5, <1>6 DEF U!NothingAcceptedIsLost, Earned, BrowserTypes,
      StoreTypes, AvatarTypes
<1>16. Followed'
  BY <1>0, <1>1, <1>2, <1>3, <1>4, <1>5, <1>6 DEF Followed, Pending, U!At, U!Up, U!Waits,
      BrowserTypes, JobTypes, Moved
<1>17. Freshening'
  BY <1>0, <1>1, <1>2, <1>3, <1>4, <1>5, <1>6 DEF Freshening, U!At, AvatarTypes, JobTypes, Moved
<1> QED
  BY <1>7, <1>8, <1>9, <1>10, <1>11, <1>12, <1>13, <1>14, <1>15, <1>16, <1>17 DEF UploadInv

(* The user document names an object that is there.                        *)
LEMMA WriteAvatarKeeps == ASSUME UploadInv, NEW w \in Workers, U!WriteAvatar(w) PROVE UploadInv'
<1>0. /\ BrowserTypes /\ StoreTypes /\ AvatarTypes /\ JobTypes
      /\ Routes /\ JobsPublished /\ Earned /\ WritersOwn /\ DoneIsDocumented /\ AvatarsApplied
      /\ U!NamesAreBacked /\ U!NothingAcceptedIsLost /\ Followed /\ Freshening
  BY DEF UploadInv
<1>1. UNCHANGED <<use, chip, req, events, missed, online, source, made, objects, file, cache,
        hit, stale, reader, ready, dead>>
  BY DEF U!WriteAvatar, U!browser, U!store, U!profile, U!cached, U!jobs, U!socket
<1>2. PICK pc \in {"invalidate", "fail"} : U!To(w, pc)
  BY DEF U!WriteAvatar
<1>3. Moved(w, "write", {pc})
  BY <1>0, <1>2, ToMoves DEF U!WriteAvatar, WorkerPcs
<1>4. /\ use[U!Up(w)] = "avatar" /\ U!Up(w) \in Items /\ worker[w].key \in objects[U!Up(w)]
      /\ worker[w].key \in Nat
  BY <1>0, <1>3 DEF U!WriteAvatar, U!Chat, Moved, U!Up, U!At, JobsPublished, Staged, WritersOwn,
      JobTypes, WorkerType
<1>5. \/ /\ avatar' = [up |-> U!Up(w), key |-> worker[w].key]
         /\ applied' = applied \cup {U!Up(w)} /\ worker'[w].pc = "invalidate"
      \/ UNCHANGED <<avatar, applied>> /\ worker'[w].pc = "fail"
  BY <1>0 DEF U!WriteAvatar, U!To, JobTypes, WorkerType
<1>6. (BrowserTypes /\ StoreTypes /\ Routes /\ Earned)'
  BY <1>0, <1>1 DEF BrowserTypes, StoreTypes, Routes, Staged, Earned
<1>7. AvatarTypes'
  BY <1>0, <1>1, <1>2, <1>3, <1>4, <1>5 DEF AvatarTypes
<1>8. JobTypes'
  BY <1>0, <1>1, <1>2, <1>3, <1>4, <1>5, MovedTyped DEF JobTypes
<1>9. JobsPublished'
  BY <1>0, <1>1, <1>2, <1>3, <1>4, <1>5 DEF JobsPublished, Job, U!At, U!Up, Published, Staged,
      JobTypes, BrowserTypes, Moved
<1>10. WritersOwn'
  BY <1>0, <1>1, <1>2, <1>3, <1>4, <1>5 DEF WritersOwn, U!At, U!Up, JobTypes, StoreTypes, Moved
<1>11. DoneIsDocumented'
  BY <1>0, <1>1, <1>2, <1>3, <1>4, <1>5 DEF DoneIsDocumented, Documented, U!At, U!Up, JobTypes,
      BrowserTypes, StoreTypes, AvatarTypes, Moved
<1>12. AvatarsApplied'
  BY <1>0, <1>1, <1>2, <1>3, <1>4, <1>5 DEF AvatarsApplied, AvatarTypes, BrowserTypes
<1>13. U!NamesAreBacked'
  BY <1>0, <1>1, <1>2, <1>3, <1>4, <1>5 DEF U!NamesAreBacked, Earned, StoreTypes, BrowserTypes,
      AvatarTypes
<1>14. U!NothingAcceptedIsLost'
  BY <1>0, <1>1, <1>2, <1>3, <1>4, <1>5 DEF U!NothingAcceptedIsLost, Earned, BrowserTypes,
      StoreTypes, AvatarTypes
<1>15. Followed'
  BY <1>0, <1>1, <1>2, <1>3, <1>4, <1>5 DEF Followed, Pending, U!At, U!Up, U!Waits,
      BrowserTypes, JobTypes, Moved
<1>16. Freshening'
  BY <1>0, <1>1, <1>2, <1>3, <1>4, <1>5 DEF Freshening, U!At, AvatarTypes, JobTypes, Moved
<1> QED
  BY <1>6, <1>7, <1>8, <1>9, <1>10, <1>11, <1>12, <1>13, <1>14, <1>15, <1>16 DEF UploadInv

(* The cached profile is dropped, or known to be stale.                    *)
LEMMA InvalidateKeeps == ASSUME UploadInv, NEW w \in Workers, U!Invalidate(w) PROVE UploadInv'
<1>0. /\ BrowserTypes /\ StoreTypes /\ AvatarTypes /\ JobTypes
      /\ Routes /\ JobsPublished /\ Earned /\ WritersOwn /\ DoneIsDocumented /\ AvatarsApplied
      /\ U!NamesAreBacked /\ U!NothingAcceptedIsLost /\ Followed /\ Freshening
  BY DEF UploadInv
<1>1. UNCHANGED <<use, chip, req, events, missed, online, source, made, objects, file, avatar,
        applied, cache, reader, ready, dead>>
  BY DEF U!Invalidate, U!browser, U!store, U!profile, U!cached, U!jobs, U!socket
<1>2. /\ U!To(w, "emit")
      /\ \/ hit' = FALSE /\ stale' = stale
         \/ stale' = TRUE /\ hit' = hit
  BY DEF U!Invalidate, U!Dropped
<1>3. Moved(w, "invalidate", {"emit"})
  BY <1>0, <1>2, ToMoves DEF U!Invalidate, WorkerPcs
<1>4. /\ BrowserTypes' /\ StoreTypes' /\ Routes' /\ Earned'
      /\ AvatarsApplied' /\ U!NamesAreBacked' /\ U!NothingAcceptedIsLost'
  BY <1>0, <1>1 DEF BrowserTypes, StoreTypes, Routes, Staged, Earned, AvatarsApplied,
      U!NamesAreBacked, U!NothingAcceptedIsLost
<1>5. AvatarTypes'
  BY <1>0, <1>1, <1>2, <1>3 DEF AvatarTypes
<1>6. JobTypes'
  BY <1>0, <1>1, <1>2, <1>3, MovedTyped DEF JobTypes
<1>7. JobsPublished'
  BY <1>0, <1>1, <1>2, <1>3 DEF JobsPublished, Job, U!At, U!Up, Published, Staged, JobTypes,
      BrowserTypes, Moved
<1>8. WritersOwn'
  BY <1>0, <1>1, <1>2, <1>3 DEF WritersOwn, U!At, U!Up, JobTypes, StoreTypes, Moved
<1>9. DoneIsDocumented'
  BY <1>0, <1>1, <1>2, <1>3 DEF DoneIsDocumented, Documented, U!At, U!Up, JobTypes,
      BrowserTypes, StoreTypes, AvatarTypes, Moved
<1>10. Followed'
  BY <1>0, <1>1, <1>2, <1>3 DEF Followed, Pending, U!At, U!Up, U!Waits, BrowserTypes, JobTypes,
      Moved
<1>11. Freshening'
  BY <1>0, <1>1, <1>2, <1>3 DEF Freshening, U!At, AvatarTypes, JobTypes, Moved
<1> QED
  BY <1>4, <1>5, <1>6, <1>7, <1>8, <1>9, <1>10, <1>11 DEF UploadInv

(* An event is sent when its document is there.                            *)
LEMMA EmitKeeps == ASSUME UploadInv, NEW w \in Workers, U!Emit(w) PROVE UploadInv'
<1>0. /\ BrowserTypes /\ StoreTypes /\ AvatarTypes /\ JobTypes
      /\ Routes /\ JobsPublished /\ Earned /\ WritersOwn /\ DoneIsDocumented /\ AvatarsApplied
      /\ U!NamesAreBacked /\ U!NothingAcceptedIsLost /\ Followed /\ Freshening
  BY DEF UploadInv
<1>1. UNCHANGED <<use, chip, req, online, source, made, objects, file, avatar, applied, cache,
        hit, stale, reader, ready, dead>>
  BY DEF U!Emit, U!browser, U!store, U!profile, U!cached, U!jobs, U!socket
<1>2. Moved(w, "emit", {"clean"})
  BY <1>0, ToMoves DEF U!Emit, WorkerPcs
<1>3. /\ U!Up(w) \in Items
      /\ \/ ~U!Waits(U!Up(w)) /\ UNCHANGED <<events, missed>>
         \/ U!Waits(U!Up(w)) /\ events' = [events EXCEPT ![U!Up(w)] = @ + 1] /\ missed' = missed
         \/ U!Waits(U!Up(w)) /\ missed' = missed \cup {U!Up(w)} /\ events' = events
  BY <1>2 DEF U!Emit, Moved, U!Up
<1>4. U!Waits(U!Up(w)) => file[U!Up(w)] # 0
  BY <1>0, <1>2, <1>3 DEF U!Waits, Routes, JobsPublished, Staged, DoneIsDocumented, Documented,
      Moved, U!At, U!Up
<1>5. /\ StoreTypes' /\ AvatarTypes' /\ Routes' /\ AvatarsApplied'
      /\ U!NamesAreBacked' /\ U!NothingAcceptedIsLost'
  BY <1>0, <1>1 DEF StoreTypes, AvatarTypes, Routes, Staged, AvatarsApplied, U!NamesAreBacked,
      Earned, U!NothingAcceptedIsLost
<1>6. BrowserTypes'
  BY <1>0, <1>1, <1>2, <1>3, <1>4 DEF BrowserTypes, U!Uses, U!Chips, U!Steps
<1>7. JobTypes'
  BY <1>0, <1>1, <1>2, <1>3, <1>4, MovedTyped DEF JobTypes
<1>8. JobsPublished'
  BY <1>0, <1>1, <1>2, <1>3, <1>4 DEF JobsPublished, Job, U!At, U!Up, Published, Staged,
      JobTypes, BrowserTypes, Moved
<1>9. Earned'
  BY <1>0, <1>1, <1>2, <1>3, <1>4 DEF Earned, BrowserTypes, StoreTypes
<1>10. WritersOwn'
  BY <1>0, <1>1, <1>2, <1>3, <1>4 DEF WritersOwn, U!At, U!Up, JobTypes, StoreTypes, Moved
<1>11. DoneIsDocumented'
  BY <1>0, <1>1, <1>2, <1>3, <1>4 DEF DoneIsDocumented, Documented, U!At, U!Up, JobTypes,
      BrowserTypes, StoreTypes, AvatarTypes, Moved
<1>12. Followed'
  BY <1>0, <1>1, <1>2, <1>3, <1>4 DEF Followed, Pending, U!At, U!Up, U!Waits, BrowserTypes,
      JobTypes, Moved
<1>13. Freshening'
  BY <1>0, <1>1, <1>2, <1>3, <1>4 DEF Freshening, U!At, AvatarTypes, JobTypes, Moved
<1> QED
  BY <1>5, <1>6, <1>7, <1>8, <1>9, <1>10, <1>11, <1>12, <1>13 DEF UploadInv

(* A source goes only when its document is there.                          *)
LEMMA CleanKeeps == ASSUME UploadInv, NEW w \in Workers, U!Clean(w) PROVE UploadInv'
<1>0. /\ BrowserTypes /\ StoreTypes /\ AvatarTypes /\ JobTypes
      /\ Routes /\ JobsPublished /\ Earned /\ WritersOwn /\ DoneIsDocumented /\ AvatarsApplied
      /\ U!NamesAreBacked /\ U!NothingAcceptedIsLost /\ Followed /\ Freshening
  BY DEF UploadInv
<1>1. UNCHANGED <<use, chip, req, events, missed, online, made, objects, file, avatar, applied,
        cache, hit, stale, reader, ready, dead>>
  BY DEF U!Clean, U!browser, U!store, U!profile, U!cached, U!jobs, U!socket
<1>2. /\ Ended(w) /\ worker[w].pc = "clean" /\ U!Up(w) \in Items
      /\ source' \in {source, [source EXCEPT ![U!Up(w)] = FALSE]}
  BY <1>0, DoneEnds DEF U!Clean, U!At, U!Up, Ended
<1>3. Documented(U!Up(w)) /\ use[U!Up(w)] \in Staged /\ req[U!Up(w)] \in Published
  BY <1>0, <1>2 DEF DoneIsDocumented, JobsPublished, U!At, U!Up
<1>4. (BrowserTypes /\ AvatarTypes /\ Routes /\ AvatarsApplied /\ U!NamesAreBacked)'
  BY <1>0, <1>1 DEF BrowserTypes, AvatarTypes, Routes, Staged, AvatarsApplied, U!NamesAreBacked,
      Earned
<1>5. StoreTypes'
  BY <1>0, <1>1, <1>2, <1>3 DEF StoreTypes
<1>6. JobTypes'
  BY <1>0, <1>1, <1>2, <1>3, EndedTyped DEF JobTypes
<1>7. JobsPublished'
  BY <1>0, <1>1, <1>2, <1>3 DEF JobsPublished, Job, U!At, U!Up, Published, Staged, JobTypes,
      BrowserTypes, Ended
<1>8. Earned'
  BY <1>0, <1>1, <1>2, <1>3 DEF Earned, Published, StoreTypes
<1>9. WritersOwn'
  BY <1>0, <1>1, <1>2, <1>3 DEF WritersOwn, U!At, U!Up, JobTypes, StoreTypes, Ended
<1>10. DoneIsDocumented'
  BY <1>0, <1>1, <1>2, <1>3 DEF DoneIsDocumented, Documented, U!At, U!Up, JobTypes,
      BrowserTypes, StoreTypes, AvatarTypes, Ended
<1>11. U!NothingAcceptedIsLost'
  BY <1>0, <1>1, <1>2, <1>3 DEF U!NothingAcceptedIsLost, Documented, Staged, StoreTypes
<1>12. Followed'
  BY <1>0, <1>1, <1>2, <1>3 DEF Followed, Pending, U!At, U!Up, U!Waits, BrowserTypes, JobTypes,
      Ended
<1>13. Freshening'
  BY <1>0, <1>1, <1>2, <1>3 DEF Freshening, U!At, AvatarTypes, JobTypes, Ended
<1> QED
  BY <1>4, <1>5, <1>6, <1>7, <1>8, <1>9, <1>10, <1>11, <1>12, <1>13 DEF UploadInv

(* A job that failed comes again or is dead.                               *)
LEMMA FailKeeps == ASSUME UploadInv, NEW w \in Workers, U!Fail(w) PROVE UploadInv'
<1>0. /\ BrowserTypes /\ StoreTypes /\ AvatarTypes /\ JobTypes
      /\ Routes /\ JobsPublished /\ Earned /\ WritersOwn /\ DoneIsDocumented /\ AvatarsApplied
      /\ U!NamesAreBacked /\ U!NothingAcceptedIsLost /\ Followed /\ Freshening
  BY DEF UploadInv
<1>1. UNCHANGED <<use, chip, req, events, missed, online, source, made, objects, file, avatar,
        applied, cache, hit, stale, reader>>
  BY DEF U!Fail, U!browser, U!store, U!profile, U!cached, U!jobs, U!socket
<1>2. Ended(w) /\ worker[w].pc = "fail" /\ U!Up(w) \in Items
  BY <1>0, DoneEnds DEF U!Fail, U!At, U!Up, Ended
<1>3. MaxAttempts \in Nat /\ worker[w].tries \in 0 .. MaxAttempts
  BY <1>0, UploadsAssumption DEF JobTypes, WorkerType
<1>4. \/ /\ worker[w].tries < MaxAttempts /\ dead' = dead
         /\ ready' = U!Queued(<<U!Up(w), worker[w].tries + 1>>)
      \/ ready' = ready /\ dead' = dead \cup {U!Up(w)}
  BY DEF U!Fail
<1>5. (IF worker[w].tries < MaxAttempts THEN worker[w].tries + 1 ELSE 0) \in 0 .. MaxAttempts
  BY <1>3
<1>6. PICK job \in Job : job[1] = U!Up(w) /\ job = <<U!Up(w), IF worker[w].tries < MaxAttempts THEN worker[w].tries + 1 ELSE 0>>
  BY <1>2, <1>5 DEF Job
<1>7. U!IsABag(U!Queued(job)) /\ DOMAIN U!Queued(job) = DOMAIN ready \cup {job}
  BY <1>0, QueuedJob DEF JobTypes
<1>8. \/ /\ dead' = dead /\ U!IsABag(ready') /\ DOMAIN ready' = DOMAIN ready \cup {job}
      \/ ready' = ready /\ dead' = dead \cup {U!Up(w)}
  BY <1>4, <1>6, <1>7
<1>9. /\ U!IsABag(ready') /\ DOMAIN ready' \subseteq Job /\ DOMAIN ready \subseteq DOMAIN ready'
      /\ \A d \in DOMAIN ready' \ DOMAIN ready : d[1] = U!Up(w)
      /\ U!Up(w) \in dead' \/ \E d \in DOMAIN ready' : d[1] = U!Up(w)
      /\ dead \subseteq dead' /\ dead' \subseteq Items
  BY <1>0, <1>2, <1>6, <1>8 DEF JobTypes
<1>10. /\ BrowserTypes' /\ StoreTypes' /\ AvatarTypes' /\ Routes'
      /\ Earned' /\ AvatarsApplied' /\ U!NamesAreBacked' /\ U!NothingAcceptedIsLost'
  BY <1>0, <1>1 DEF BrowserTypes, StoreTypes, AvatarTypes, Routes, Staged, Earned,
      AvatarsApplied, U!NamesAreBacked, U!NothingAcceptedIsLost
<1>11. JobTypes'
  BY <1>0, <1>1, <1>2, <1>3, <1>4, <1>5, <1>6, <1>7, <1>8, <1>9, EndedTyped DEF JobTypes
<1>12. JobsPublished'
  BY <1>0, <1>1, <1>2, <1>3, <1>4, <1>5, <1>6, <1>7, <1>8, <1>9 DEF JobsPublished, Job, U!At,
      U!Up, Published, Staged, JobTypes, BrowserTypes, Ended
<1>13. WritersOwn'
  BY <1>0, <1>1, <1>2, <1>3, <1>4, <1>5, <1>6, <1>7, <1>8, <1>9 DEF WritersOwn, U!At, U!Up,
      JobTypes, StoreTypes, Ended
<1>14. DoneIsDocumented'
  BY <1>0, <1>1, <1>2, <1>3, <1>4, <1>5, <1>6, <1>7, <1>8, <1>9 DEF DoneIsDocumented,
      Documented, U!At, U!Up, JobTypes, BrowserTypes, StoreTypes, AvatarTypes, Ended
<1>15. Followed'
  BY <1>0, <1>1, <1>2, <1>3, <1>4, <1>5, <1>6, <1>7, <1>8, <1>9 DEF Followed, Pending, U!At,
      U!Up, U!Waits, BrowserTypes, JobTypes, Ended
<1>16. Freshening'
  BY <1>0, <1>1, <1>2, <1>3, <1>4, <1>5, <1>6, <1>7, <1>8, <1>9 DEF Freshening, U!At,
      AvatarTypes, JobTypes, Ended
<1> QED
  BY <1>10, <1>11, <1>12, <1>13, <1>14, <1>15, <1>16 DEF UploadInv

(* A delivery whose worker died comes again.                               *)
LEMMA CrashKeeps == ASSUME UploadInv, NEW w \in Workers, U!Crash(w) PROVE UploadInv'
<1>0. /\ BrowserTypes /\ StoreTypes /\ AvatarTypes /\ JobTypes
      /\ Routes /\ JobsPublished /\ Earned /\ WritersOwn /\ DoneIsDocumented /\ AvatarsApplied
      /\ U!NamesAreBacked /\ U!NothingAcceptedIsLost /\ Followed /\ Freshening
  BY DEF UploadInv
<1>1. UNCHANGED <<use, chip, req, events, missed, online, source, made, objects, file, avatar,
        applied, cache, hit, reader, dead>>
  BY DEF U!Crash, U!browser, U!store, U!profile, U!cached, U!jobs, U!socket
<1>2. worker[w].pc # "idle" /\ U!Done(w) /\ ready' = U!Returns(w)
      /\ stale' = (stale \/ U!At(w, "invalidate"))
  BY DEF U!Crash, U!Done, U!At
<1>3. Ended(w)
  BY <1>0, <1>2, DoneEnds
<1>4. /\ U!IsABag(ready') /\ DOMAIN ready' \subseteq Job /\ DOMAIN ready \subseteq DOMAIN ready'
      /\ \A job \in DOMAIN ready' \ DOMAIN ready : job[1] = worker[w].up
      /\ worker[w].held => \E job \in DOMAIN ready' : job[1] = worker[w].up
  BY <1>0, <1>2, ReturnsJob
<1>5. /\ BrowserTypes' /\ StoreTypes' /\ Routes' /\ Earned'
      /\ AvatarsApplied' /\ U!NamesAreBacked' /\ U!NothingAcceptedIsLost'
  BY <1>0, <1>1 DEF BrowserTypes, StoreTypes, Routes, Staged, Earned, AvatarsApplied,
      U!NamesAreBacked, U!NothingAcceptedIsLost
<1>6. AvatarTypes'
  BY <1>0, <1>1, <1>2, <1>3, <1>4 DEF AvatarTypes
<1>7. JobTypes'
  BY <1>0, <1>1, <1>2, <1>3, <1>4, EndedTyped DEF JobTypes
<1>8. JobsPublished'
  BY <1>0, <1>1, <1>2, <1>3, <1>4 DEF JobsPublished, Job, U!At, U!Up, Published, Staged,
      JobTypes, BrowserTypes, Ended
<1>9. WritersOwn'
  BY <1>0, <1>1, <1>2, <1>3, <1>4 DEF WritersOwn, U!At, U!Up, JobTypes, StoreTypes, Ended
<1>10. DoneIsDocumented'
  BY <1>0, <1>1, <1>2, <1>3, <1>4 DEF DoneIsDocumented, Documented, U!At, U!Up, JobTypes,
      BrowserTypes, StoreTypes, AvatarTypes, Ended
<1>11. Followed'
  BY <1>0, <1>1, <1>2, <1>3, <1>4 DEF Followed, Pending, U!At, U!Up, U!Waits, BrowserTypes,
      JobTypes, Ended
<1>12. Freshening'
  BY <1>0, <1>1, <1>2, <1>3, <1>4 DEF Freshening, U!At, AvatarTypes, JobTypes, Ended
<1> QED
  BY <1>5, <1>6, <1>7, <1>8, <1>9, <1>10, <1>11, <1>12 DEF UploadInv

(* A delivery whose channel is lost comes again, and its worker goes on.   *)
LEMMA LoseChannelKeeps == ASSUME UploadInv, NEW w \in Workers, U!LoseChannel(w) PROVE UploadInv'
<1>0. /\ BrowserTypes /\ StoreTypes /\ AvatarTypes /\ JobTypes
      /\ Routes /\ JobsPublished /\ Earned /\ WritersOwn /\ DoneIsDocumented /\ AvatarsApplied
      /\ U!NamesAreBacked /\ U!NothingAcceptedIsLost /\ Followed /\ Freshening
  BY DEF UploadInv
<1>1. UNCHANGED <<use, chip, req, events, missed, online, source, made, objects, file, avatar,
        applied, cache, hit, stale, reader, dead>>
  BY DEF U!LoseChannel, U!browser, U!store, U!profile, U!cached, U!jobs, U!socket
<1>2. worker[w].held /\ ready' = U!Returns(w) /\ worker' = [worker EXCEPT ![w].held = FALSE]
  BY DEF U!LoseChannel
<1>3. /\ worker' \in [Workers -> WorkerType] /\ \A v \in Workers \ {w} : worker'[v] = worker[v]
      /\ worker'[w].pc = worker[w].pc /\ worker'[w].up = worker[w].up /\ worker'[w].key = worker[w].key
      /\ worker[w].pc # "idle"
  BY <1>0, <1>2 DEF JobTypes, WorkerType
<1>4. /\ U!IsABag(ready') /\ DOMAIN ready' \subseteq Job /\ DOMAIN ready \subseteq DOMAIN ready'
      /\ \A job \in DOMAIN ready' \ DOMAIN ready : job[1] = worker[w].up
      /\ \E job \in DOMAIN ready' : job[1] = worker[w].up
  BY <1>0, <1>2, <1>3, ReturnsJob
<1>5. /\ BrowserTypes' /\ StoreTypes' /\ AvatarTypes' /\ Routes'
      /\ Earned' /\ AvatarsApplied' /\ U!NamesAreBacked' /\ U!NothingAcceptedIsLost'
  BY <1>0, <1>1 DEF BrowserTypes, StoreTypes, AvatarTypes, Routes, Staged, Earned,
      AvatarsApplied, U!NamesAreBacked, U!NothingAcceptedIsLost
<1>6. JobTypes'
  BY <1>0, <1>1, <1>2, <1>3, <1>4, MovedTyped DEF JobTypes
<1>7. JobsPublished'
  BY <1>0, <1>1, <1>2, <1>3, <1>4 DEF JobsPublished, Job, U!At, U!Up, Published, Staged,
      JobTypes, BrowserTypes
<1>8. WritersOwn'
  BY <1>0, <1>1, <1>2, <1>3, <1>4 DEF WritersOwn, U!At, U!Up, JobTypes, StoreTypes
<1>9. DoneIsDocumented'
  BY <1>0, <1>1, <1>2, <1>3, <1>4 DEF DoneIsDocumented, Documented, U!At, U!Up, JobTypes,
      BrowserTypes, StoreTypes, AvatarTypes
<1>10. Followed'
  BY <1>0, <1>1, <1>2, <1>3, <1>4 DEF Followed, Pending, U!At, U!Up, U!Waits, BrowserTypes,
      JobTypes
<1>11. Freshening'
  BY <1>0, <1>1, <1>2, <1>3, <1>4 DEF Freshening, U!At, AvatarTypes, JobTypes
<1> QED
  BY <1>5, <1>6, <1>7, <1>8, <1>9, <1>10, <1>11 DEF UploadInv

-----------------------------------------------------------------------------
(* The theorems.                                                           *)

(* Whatever a step is, of the uploads or not, the invariant stays.         *)
LEMMA UploadsStep ==
  ASSUME part = "uploads" => UploadInv, [ServerNext]_<<part, convVars, uploadVars>>
  PROVE  (part = "uploads" => UploadInv)'
<1>1. CASE part = "uploads" /\ U!Next /\ UNCHANGED part
  <2>1. ASSUME NEW u \in Items,
               \/ U!Add(u) \/ U!Answer(u) \/ U!Event(u) \/ U!Stage(u) \/ U!Publish(u) \/ U!Unstage(u)
               \/ U!Complete(u) \/ U!Record(u)
        PROVE  UploadInv'
    BY <1>1, <2>1, AddKeeps, AnswerKeeps, EventKeeps, StageKeeps, PublishKeeps, UnstageKeeps,
       CompleteKeeps, RecordKeeps
  <2>2. ASSUME NEW w \in Workers,
               \/ U!Take(w) \/ U!Find(w) \/ U!Make(w) \/ U!WriteFile(w) \/ U!WriteAvatar(w)
               \/ U!Invalidate(w) \/ U!Emit(w) \/ U!Clean(w) \/ U!Fail(w) \/ U!Crash(w) \/ U!LoseChannel(w)
        PROVE  UploadInv'
    BY <1>1, <2>2, TakeKeeps, FindKeeps, MakeKeeps, WriteFileKeeps, WriteAvatarKeeps, InvalidateKeeps,
       EmitKeeps, CleanKeeps, FailKeeps, CrashKeeps, LoseChannelKeeps
  <2>3. U!Send \/ (\E u \in Items : U!RemoveChip(u)) \/ U!Drop \/ U!Reconnect \/ U!ReadProfile => UploadInv'
    BY <1>1, RemovalKeeps, SocketKeeps, ReadKeeps
  <2> QED
    BY <1>1, <2>1, <2>2, <2>3 DEF U!Next
<1>2. CASE part # "uploads" /\ UNCHANGED part
  BY <1>2
<1>3. CASE UNCHANGED <<part, convVars, uploadVars>>
  <2>1. UploadInv => UploadInv'
    BY <1>3 DEF uploadVars, UploadInv, BrowserTypes, StoreTypes, AvatarTypes, JobTypes, Routes,
       JobsPublished, Earned, WritersOwn, DoneIsDocumented, Documented, AvatarsApplied, U!NamesAreBacked,
       U!NothingAcceptedIsLost, Followed, Pending, Freshening, U!At, U!Up, U!Waits
  <2> QED
    BY <1>3, <2>1
<1> QED
  BY <1>1, <1>2, <1>3 DEF ServerNext

(* In a behaviour of the uploads their invariant holds always.             *)
LEMMA UploadsAlways == ServerSpec => [](part = "uploads" => UploadInv)
<1>1. ServerInit => (part = "uploads" => UploadInv)
  BY UploadsInit DEF ServerInit
<1>2. (part = "uploads" => UploadInv) /\ [ServerNext]_<<part, convVars, uploadVars>>
        => (part = "uploads" => UploadInv)'
  BY UploadsStep
<1> QED
  BY <1>1, <1>2, PTL DEF ServerSpec

(* Whatever a File document, an entry that can be sent or the user         *)
(* document names is in the store, and what the user was told is queued    *)
(* keeps its source until a document names its result, however often a job *)
(* is delivered and whoever cleans up (imageWorker.js, fileController.js). *)
THEOREM FilesStay == ServerSpec => []FilesStand
<1>1. UploadInv => U!TypeOK
  BY DEF UploadInv, BrowserTypes, StoreTypes, AvatarTypes, JobTypes, Job, U!BagToSet, U!TypeOK
<1>2. (part = "uploads" => UploadInv) => FilesStand
  BY <1>1 DEF UploadInv, FilesStand
<1> QED
  BY <1>2, UploadsAlways, PTL

(* Once nothing is under way for an image the browser does not wait for it *)
(* any more, unless its job is dead, its event came before the answer, or  *)
(* the socket was away (useUploader.js, imageWorker.js).                   *)
THEOREM ImagesAreAnswered == ServerSpec => []ImagesArrive
<1>1. UploadInv => U!ImagesArrive
  BY DEF UploadInv, Routes, Followed, Pending, U!ImagesArrive, U!Settled, U!BagToSet, U!Up, U!Waits
<1>2. (part = "uploads" => UploadInv) => ImagesArrive
  BY <1>1 DEF ImagesArrive
<1> QED
  BY <1>2, UploadsAlways, PTL

(* The cached profile shows the avatar of the user document once no job is *)
(* at it, unless an invalidation was missed or overtaken by a read         *)
(* (cacheService.js).                                                      *)
THEOREM ProfileStaysFresh == ServerSpec => []ProfileFresh
<1>1. UploadInv => U!ProfileFresh
  BY DEF UploadInv, Freshening, U!ProfileFresh
<1>2. (part = "uploads" => UploadInv) => ProfileFresh
  BY <1>1 DEF ProfileFresh
<1> QED
  BY <1>2, UploadsAlways, PTL

-----------------------------------------------------------------------------
(* The conversations: how a group gets and loses its members.              *)

IsGroup(g) ==
  /\ g = [state |-> g.state, members |-> g.members, admin |-> g.admin, ver |-> g.ver]
  /\ g.state \in {"none", "live", "deleted"} /\ g.members \in [Users -> Nat] /\ g.ver \in Nat
  /\ g.state = "none" => g.members = [u \in Users |-> 0]
Fields == DOMAIN C!Idle

(* The steps of a request that write its message.                          *)
Saying == {"say", "shape", "upsert", "find", "put"}

(* A copy of the group that has its version has its members; a request     *)
(* that is about to save has read one.                                     *)
Current(doc, g) ==
  /\ g.state # "none" /\ doc.ver <= g.ver
  /\ doc.ver = g.ver /\ g.state = "live" => doc.members = g.members
Known(r, g) ==
  /\ DOMAIN r = Fields /\ IsGroup(r.doc)
  /\ r.doc.state = "live" => Current(r.doc, g)
  /\ r.pc = "read" => r.op \in {"add", "remove", "transfer", "delete", "leave"}
  /\ r.pc = "save" => r.doc.state = "live" /\ r.op \in {"add", "remove", "transfer", "leave"}
  /\ r.op = "remove" /\ r.pc \in Saying => r.doc.state = "live"
  /\ r.pc = "insert" => g.state = "none"
  /\ r.pc = "drop" => r.op = "delete"
  /\ r.op = "delete" => g.state # "none"
GroupInv ==
  /\ kind \in {"direct", "group"}
  /\ IsGroup(group) /\ requests \in Nat /\ DOMAIN task = Tasks
  /\ \A t \in Tasks : Known(task[t], group)
  /\ requests = 0 => \A t \in Tasks : C!At(t, "idle")
  /\ \A s, t \in Tasks : C!At(s, "insert") /\ C!At(t, "insert") => s = t

(* An empty record claims nothing of the group.                            *)
LEMMA NothingKnown == Known(C!Idle, group)
<1>1. IsGroup(C!NoGroup)
  BY ConversationsAssumption DEF C!NoGroup, IsGroup
<1> QED
  BY <1>1 DEF Known, C!Idle, C!NoGroup, Fields, Saying

(* A request takes its next step, or is over; the group stays as it is.    *)
LEMMA RequestMoves ==
  ASSUME GroupInv, NEW t \in Tasks, ~C!At(t, "idle"), NEW r, Known(r, group), r.pc # "insert",
         C!Move(t, r), UNCHANGED <<kind, group, requests>>
  PROVE  GroupInv'
BY DEF GroupInv, C!At, C!Move

(* A request is over.                                                      *)
LEMMA RequestStops ==
  ASSUME GroupInv, NEW t \in Tasks, ~C!At(t, "idle"), C!Stop(t), UNCHANGED <<kind, group, requests>>
  PROVE  GroupInv'
<1>1. C!Move(t, C!Idle) /\ C!Idle.pc # "insert"
  BY DEF C!Stop, C!Idle
<1> QED
  BY <1>1, NothingKnown, RequestMoves

(* A request goes on with the copy of the group that it has.               *)
LEMMA RequestGoesOn ==
  ASSUME GroupInv, NEW t \in Tasks, ~C!At(t, "idle"), NEW r,
         DOMAIN r = Fields, r.op = task[t].op, r.doc = task[t].doc,
         r.pc \notin {"read", "save", "insert", "drop"},
         r.op = "remove" /\ r.pc \in Saying => task[t].pc \in Saying,
         C!Move(t, r), UNCHANGED <<kind, group, requests>>
  PROVE  GroupInv'
<1>1. Known(task[t], group)
  BY DEF GroupInv
<1>2. Known(r, group)
  BY <1>1 DEF Known
<1> QED
  BY <1>2, RequestMoves

(* Only the removal of a member saves after its message.                   *)
LEMMA RequestEnters ==
  ASSUME GroupInv, NEW t \in Tasks, ~C!At(t, "idle"), NEW pc \in {"done", "say", "save", "drop"},
         pc = "say" => task[t].op # "remove",
         pc = "save" => task[t].op = "remove" /\ task[t].pc \in Saying,
         pc = "drop" => task[t].op = "delete",
         C!Enter(t, pc), UNCHANGED <<kind, group, requests>>
  PROVE  GroupInv'
<1>1. CASE pc = "done"
  BY <1>1, RequestStops DEF C!Enter
<1>2. CASE pc # "done"
  <2>1. PICK r : /\ C!Move(t, r)
                 /\ r = [C!Idle EXCEPT !.op = task[t].op, !.who = task[t].who, !.target = task[t].target,
                                       !.doc = task[t].doc, !.since = task[t].since, !.pc = pc]
    BY <1>2 DEF C!Enter
  <2>2. DOMAIN r = Fields /\ r.op = task[t].op /\ r.doc = task[t].doc /\ r.pc = pc
    BY <2>1 DEF Fields, C!Idle
  <2>3. Known(task[t], group)
    BY DEF GroupInv
  <2>4. Known(r, group)
    BY <2>2, <2>3 DEF Known, Saying
  <2> QED
    BY <2>1, <2>2, <2>4, RequestMoves
<1> QED
  BY <1>1, <1>2

(* A message that has been written.                                        *)
LEMMA MessageWritten ==
  ASSUME GroupInv, NEW t \in Tasks, task[t].pc \in Saying, C!Enter(t, C!AfterMessage(task[t].op)),
         UNCHANGED <<kind, group, requests>>
  PROVE  GroupInv'
<1>1. PICK pc : pc = C!AfterMessage(task[t].op)
  OBVIOUS
<1>a. pc \in {"done", "save", "drop"} /\ (pc = "save" => task[t].op = "remove")
      /\ (pc = "drop" => task[t].op = "delete") /\ C!Enter(t, pc)
  BY <1>1 DEF C!AfterMessage
<1>2. ~C!At(t, "idle")
  BY DEF C!At, Saying
<1> QED
  BY <1>a, <1>2, RequestEnters

(* A request enters its next part after the rows were synchronised.        *)
LEMMA GroupSynced ==
  ASSUME GroupInv, NEW t \in Tasks, ~C!At(t, "idle"), C!Enter(t, C!AfterSync(task[t].op)),
         UNCHANGED <<kind, group, requests>>
  PROVE  GroupInv'
<1>1. PICK pc : pc = C!AfterSync(task[t].op)
  OBVIOUS
<1>2. pc \in {"done", "say"} /\ (pc = "say" => task[t].op # "remove") /\ C!Enter(t, pc)
  BY <1>1 DEF C!AfterSync
<1> QED
  BY <1>2, RequestEnters

(* The controllers read the group before they change it.                   *)
LEMMA ReadingKeeps ==
  ASSUME GroupInv, NEW t \in Tasks, C!ReadGroup(t)
  PROVE  GroupInv' /\ UNCHANGED <<kind, group>>
<1>1. UNCHANGED <<kind, group, requests>> /\ ~C!At(t, "idle")
  BY DEF C!ReadGroup, C!Models, C!Counters, C!At
<1>2. CASE C!Stop(t)
  BY <1>1, <1>2, RequestStops
<1>3. CASE /\ C!Allowed(task[t], group)
           /\ C!Move(t, [task[t] EXCEPT !.doc = group,
                !.pc = IF task[t].op \in {"remove", "delete"} THEN "say" ELSE "save"])
  <2>1. PICK r : /\ C!Move(t, r)
                 /\ r = [task[t] EXCEPT !.doc = group,
                           !.pc = IF task[t].op \in {"remove", "delete"} THEN "say" ELSE "save"]
    BY <1>3
  <2>2. Known(task[t], group) /\ IsGroup(group) /\ C!At(t, "read")
    BY DEF GroupInv, C!ReadGroup
  <2>3. DOMAIN r = Fields /\ r.op = task[t].op /\ r.doc = group
        /\ r.pc = IF task[t].op \in {"remove", "delete"} THEN "say" ELSE "save"
    BY <2>1, <2>2 DEF Known, Fields, C!Idle
  <2>4. group.state = "live" /\ group.ver <= group.ver
    BY <1>3, <2>2 DEF C!Allowed, IsGroup
  <2>5. Known(r, group) /\ r.pc # "insert"
    BY <2>2, <2>3, <2>4 DEF Known, Current, Saying, C!At
  <2> QED
    BY <1>1, <2>1, <2>5, RequestMoves
<1> QED
  BY <1>1, <1>2, <1>3 DEF C!ReadGroup

(* A copied record keeps the operation and the copy of the group.          *)
GoesOn(t, r) ==
  C!Move(t, r) /\ DOMAIN r = Fields /\ r.op = task[t].op /\ r.doc = task[t].doc

(* A step that only moves on keeps the rest of the record.                 *)
LEMMA GotoGoesOn ==
  ASSUME NEW t \in Tasks, DOMAIN task[t] = Fields, NEW pc, C!Goto(t, pc)
  PROVE  \E r : GoesOn(t, r) /\ r.pc = pc
<1>1. PICK r : r = [task[t] EXCEPT !.pc = pc]
  OBVIOUS
<1> QED
  BY <1>1 DEF C!Goto, GoesOn, Fields, C!Idle

(* A request that keeps its operation and its copy keeps the invariant.    *)
LEMMA RecordKept ==
  ASSUME GroupInv, NEW t \in Tasks, NEW r, UNCHANGED <<kind, group, requests>>, ~C!At(t, "idle"),
         GoesOn(t, r),
         \/ r.pc \in Saying /\ task[t].pc \in Saying
         \/ r.pc \notin {"read", "save", "insert", "drop"} \cup Saying
  PROVE  GroupInv'
<1>1. r.pc \notin {"read", "save", "insert", "drop"}
  BY DEF Saying
<1> QED
  BY <1>1, RequestGoesOn DEF GoesOn

(* The synchronisation of the rows does not touch the group.               *)
LEMMA SyncingKeeps ==
  ASSUME GroupInv, NEW t \in Tasks,
         \/ C!SyncRead(t) \/ C!SyncConv(t) \/ C!SyncPut(t) \/ C!SyncFind(t) \/ C!SyncRow(t)
         \/ C!SyncLeave(t)
  PROVE  GroupInv' /\ UNCHANGED <<kind, group>>
<1>1. UNCHANGED <<kind, group, requests>> /\ ~C!At(t, "idle")
  BY DEF C!SyncRead, C!SyncConv, C!SyncPut, C!SyncFind, C!SyncRow, C!SyncLeave, C!Models, C!Counters, C!At
<1>2. DOMAIN task[t] = Fields
  BY DEF GroupInv, Known
<1>3. \/ C!Enter(t, C!AfterSync(task[t].op))
      \/ \E r : GoesOn(t, r) /\ r.pc \in {"syncConv", "syncPut", "syncLeave", "syncFind", "syncRow"}
  <2>1. CASE C!SyncRead(t)
    <3>1. CASE C!Enter(t, C!AfterSync(task[t].op))
      BY <3>1
    <3>2. CASE C!Move(t, [task[t] EXCEPT !.pc = "syncConv", !.boss = group.admin, !.shape = C!MemberSet(group)])
      <4>1. PICK r : C!Move(t, r) /\ r = [task[t] EXCEPT !.pc = "syncConv", !.boss = group.admin, !.shape = C!MemberSet(group)]
        BY <3>2
      <4>2. GoesOn(t, r)
        BY <1>2, <4>1 DEF GoesOn, Fields, C!Idle
      <4>3. r.pc \in {"syncConv", "syncPut", "syncLeave", "syncFind", "syncRow"}
        BY <1>2, <4>1 DEF Fields, C!Idle
      <4> QED
        BY <4>2, <4>3
    <3> QED
      BY <2>1, <3>1, <3>2 DEF C!SyncRead
  <2>2. CASE C!SyncConv(t)
    <3>1. PICK r : C!Move(t, r) /\ r = [task[t] EXCEPT !.pc = "syncPut", !.k = conv.id]
      BY <2>2 DEF C!SyncConv
    <3>2. GoesOn(t, r)
      BY <1>2, <3>1 DEF GoesOn, Fields, C!Idle
    <3>3. r.pc \in {"syncConv", "syncPut", "syncLeave", "syncFind", "syncRow"}
      BY <1>2, <3>1 DEF Fields, C!Idle
    <3> QED
      BY <3>2, <3>3
  <2>3. CASE C!SyncPut(t)
    <3>1. CASE C!Enter(t, C!AfterSync(task[t].op))
      BY <3>1
    <3>2. CASE C!Move(t, [task[t] EXCEPT !.k = IF @ = 0 THEN created + 1 ELSE @, !.now = clock + 1,
                     !.todo = task[t].shape, !.pc = IF task[t].shape = {} THEN "syncLeave" ELSE "syncFind"])
      <4>1. PICK r : C!Move(t, r) /\ r = [task[t] EXCEPT !.k = IF @ = 0 THEN created + 1 ELSE @, !.now = clock + 1,
                     !.todo = task[t].shape, !.pc = IF task[t].shape = {} THEN "syncLeave" ELSE "syncFind"]
        BY <3>2
      <4>2. GoesOn(t, r)
        BY <1>2, <4>1 DEF GoesOn, Fields, C!Idle
      <4>3. r.pc \in {"syncConv", "syncPut", "syncLeave", "syncFind", "syncRow"}
        BY <1>2, <4>1 DEF Fields, C!Idle
      <4> QED
        BY <4>2, <4>3
    <3> QED
      BY <2>3, <3>1, <3>2 DEF C!SyncPut
  <2>4. CASE C!SyncFind(t)
    <3>1. PICK r : C!Move(t, r) /\ r = [task[t] EXCEPT !.pc = "syncRow", !.cur = C!FirstOf(task[t].todo),
                     !.found = row[task[t].k][C!FirstOf(task[t].todo)]]
      BY <2>4 DEF C!SyncFind
    <3>2. GoesOn(t, r)
      BY <1>2, <3>1 DEF GoesOn, Fields, C!Idle
    <3>3. r.pc \in {"syncConv", "syncPut", "syncLeave", "syncFind", "syncRow"}
      BY <1>2, <3>1 DEF Fields, C!Idle
    <3> QED
      BY <3>2, <3>3
  <2>5. CASE C!SyncRow(t)
    <3>1. CASE C!Enter(t, C!AfterSync(task[t].op))
      BY <3>1
    <3>2. CASE C!Move(t, [task[t] EXCEPT !.todo = task[t].todo \ {task[t].cur}, !.cur = Nobody, !.found = C!NoRow,
                     !.pc = IF task[t].todo \ {task[t].cur} = {} THEN "syncLeave" ELSE "syncFind"])
      <4>1. PICK r : C!Move(t, r) /\ r = [task[t] EXCEPT !.todo = task[t].todo \ {task[t].cur}, !.cur = Nobody, !.found = C!NoRow,
                     !.pc = IF task[t].todo \ {task[t].cur} = {} THEN "syncLeave" ELSE "syncFind"]
        BY <3>2
      <4>2. GoesOn(t, r)
        BY <1>2, <4>1 DEF GoesOn, Fields, C!Idle
      <4>3. r.pc \in {"syncConv", "syncPut", "syncLeave", "syncFind", "syncRow"}
        BY <1>2, <4>1 DEF Fields, C!Idle
      <4> QED
        BY <4>2, <4>3
    <3> QED
      BY <2>5, <3>1, <3>2 DEF C!SyncRow
  <2>6. CASE C!SyncLeave(t)
    BY <2>6 DEF C!SyncLeave
  <2> QED
    BY <2>1, <2>2, <2>3, <2>4, <2>5, <2>6
<1> QED
  BY <1>1, <1>3, GroupSynced, RecordKept DEF Saying

(* The next participant, or the end of the message.                        *)
LEMMA OnwardGoes ==
  ASSUME NEW t \in Tasks, DOMAIN task[t] = Fields, NEW rest, C!Onward(t, rest)
  PROVE  C!Enter(t, C!AfterMessage(task[t].op)) \/ \E r : GoesOn(t, r) /\ r.pc = "find"
<1>1. CASE C!Move(t, [task[t] EXCEPT !.todo = rest, !.cur = Nobody, !.found = C!NoRow, !.crossed = FALSE,
                                     !.pc = "find"])
  <2>1. PICK r : C!Move(t, r) /\ r = [task[t] EXCEPT !.todo = rest, !.cur = Nobody, !.found = C!NoRow,
                                                    !.crossed = FALSE, !.pc = "find"]
    BY <1>1
  <2>2. GoesOn(t, r) /\ r.pc = "find"
    BY <2>1 DEF GoesOn, Fields, C!Idle
  <2> QED
    BY <2>2
<1> QED
  BY <1>1 DEF C!Onward

(* Nor does a message.                                                     *)
LEMMA WritingKeeps ==
  ASSUME GroupInv, NEW t \in Tasks, C!Save(t) \/ C!Shape(t) \/ C!Upsert(t) \/ C!Find(t) \/ C!Put(t)
  PROVE  GroupInv' /\ UNCHANGED <<kind, group>>
<1>1. UNCHANGED <<kind, group, requests>> /\ ~C!At(t, "idle") /\ task[t].pc \in Saying
  BY DEF C!Save, C!Shape, C!Upsert, C!Find, C!Put, C!Models, C!Counters, C!At, Saying
<1>2. DOMAIN task[t] = Fields
  BY DEF GroupInv, Known
<1>3. \/ C!Enter(t, C!AfterMessage(task[t].op))
      \/ \E r : GoesOn(t, r) /\ r.pc \in {"shape", "upsert", "find", "put"}
  <2>1. CASE C!Save(t)
    <3>1. PICK r : C!Move(t, r) /\ r = [task[t] EXCEPT !.pc = "shape", !.msg = clock + 1]
      BY <2>1 DEF C!Save
    <3>2. GoesOn(t, r)
      BY <1>2, <3>1 DEF GoesOn, Fields, C!Idle
    <3>3. r.pc \in {"shape", "upsert", "find", "put"}
      BY <1>2, <3>1 DEF Fields, C!Idle
    <3> QED
      BY <3>2, <3>3
  <2>2. CASE C!Shape(t)
    <3>1. CASE C!Enter(t, C!AfterMessage(task[t].op))
      BY <3>1
    <3>2. CASE C!Move(t, [task[t] EXCEPT !.pc = "upsert",
                     !.shape = IF kind = "group" THEN C!MemberSet(group) ELSE Pair,
                     !.boss = IF kind = "group" THEN group.admin ELSE Nobody])
      <4>1. PICK r : C!Move(t, r) /\ r = [task[t] EXCEPT !.pc = "upsert",
                     !.shape = IF kind = "group" THEN C!MemberSet(group) ELSE Pair,
                     !.boss = IF kind = "group" THEN group.admin ELSE Nobody]
        BY <3>2
      <4>2. GoesOn(t, r)
        BY <1>2, <4>1 DEF GoesOn, Fields, C!Idle
      <4>3. r.pc \in {"shape", "upsert", "find", "put"}
        BY <1>2, <4>1 DEF Fields, C!Idle
      <4> QED
        BY <4>2, <4>3
    <3> QED
      BY <2>2, <3>1, <3>2 DEF C!Shape
  <2>3. CASE C!Upsert(t)
    <3>1. CASE C!Enter(t, C!AfterMessage(task[t].op))
      BY <3>1
    <3>2. CASE C!Move(t, [task[t] EXCEPT !.k = IF conv.id = 0 THEN created + 1 ELSE conv.id,
                     !.todo = task[t].shape, !.pc = "find"])
      <4>1. PICK r : C!Move(t, r) /\ r = [task[t] EXCEPT !.k = IF conv.id = 0 THEN created + 1 ELSE conv.id,
                     !.todo = task[t].shape, !.pc = "find"]
        BY <3>2
      <4>2. GoesOn(t, r)
        BY <1>2, <4>1 DEF GoesOn, Fields, C!Idle
      <4>3. r.pc \in {"shape", "upsert", "find", "put"}
        BY <1>2, <4>1 DEF Fields, C!Idle
      <4> QED
        BY <4>2, <4>3
    <3> QED
      BY <2>3, <3>1, <3>2 DEF C!Upsert
  <2>4. CASE C!Find(t)
    <3>1. CASE C!Onward(t, task[t].todo \ {C!FirstOf(task[t].todo)})
      BY <1>2, <3>1, OnwardGoes
    <3>2. CASE C!Move(t, [task[t] EXCEPT !.pc = "put", !.cur = C!FirstOf(task[t].todo),
                                         !.found = row[task[t].k][C!FirstOf(task[t].todo)]])
      <4>1. PICK r : C!Move(t, r) /\ r = [task[t] EXCEPT !.pc = "put", !.cur = C!FirstOf(task[t].todo),
                                             !.found = row[task[t].k][C!FirstOf(task[t].todo)]]
        BY <3>2
      <4>2. GoesOn(t, r)
        BY <1>2, <4>1 DEF GoesOn, Fields, C!Idle
      <4>3. r.pc \in {"shape", "upsert", "find", "put"}
        BY <1>2, <4>1 DEF Fields, C!Idle
      <4> QED
        BY <4>2, <4>3
    <3> QED
      BY <2>4, <3>1, <3>2 DEF C!Find
  <2>5. CASE C!Put(t)
    <3>1. C!Enter(t, C!AfterMessage(task[t].op)) \/ C!Onward(t, task[t].todo \ {task[t].cur})
      BY <2>5 DEF C!Put
    <3> QED
      BY <1>2, <3>1, OnwardGoes
  <2> QED
    BY <2>1, <2>2, <2>3, <2>4, <2>5
<1> QED
  BY <1>1, <1>3, MessageWritten, RecordKept DEF Saying

(* Nor what follows the deletion of a group, the panel, or a page.         *)
LEMMA MindingKeeps ==
  ASSUME GroupInv, NEW t \in Tasks,
         \/ C!DropConv(t) \/ C!DropRows(t) \/ C!DropDoc(t) \/ C!Purge(t) \/ C!MarkRead(t) \/ C!ZeroUnread(t)
         \/ C!Seek(t) \/ C!PrefConv(t) \/ C!PrefNew(t) \/ C!PrefRow(t) \/ C!PageMember(t)
         \/ C!PageRow(t) \/ C!PageFetch(t)
  PROVE  GroupInv' /\ UNCHANGED <<kind, group>>
<1>1. UNCHANGED <<kind, group, requests>> /\ ~C!At(t, "idle")
  BY DEF C!DropConv, C!DropRows, C!DropDoc, C!Purge, C!MarkRead, C!ZeroUnread, C!Seek, C!PrefConv, C!PrefNew,
     C!PrefRow, C!PageMember, C!PageRow, C!PageFetch, C!Models, C!Counters, C!At
<1>2. DOMAIN task[t] = Fields
  BY DEF GroupInv, Known
<1>3. \/ C!Stop(t)
      \/ \E r : /\ GoesOn(t, r)
                /\ r.pc \in {"purge", "dropRows", "dropDoc", "zero", "wipe", "prefNew", "prefRow",
                            "bounds", "fetch"}
  <2>1. CASE \/ C!DropRows(t) \/ C!DropDoc(t) \/ C!Purge(t) \/ C!MarkRead(t) \/ C!ZeroUnread(t)
             \/ C!PrefRow(t) \/ C!PageMember(t) \/ C!PageFetch(t)
    <3>1. C!Stop(t) \/ \E pc \in {"dropDoc", "purge", "zero", "bounds"} : C!Goto(t, pc)
      BY <2>1 DEF C!DropRows, C!DropDoc, C!Purge, C!MarkRead, C!ZeroUnread, C!PrefRow, C!PageMember, C!PageFetch
    <3> QED
      BY <1>2, <3>1, GotoGoesOn
  <2>2. CASE C!DropConv(t)
    <3>1. CASE C!Move(t, [task[t] EXCEPT !.k = conv.id, !.pc = IF conv.id = 0 THEN "purge" ELSE "dropRows"])
      <4>1. PICK r : C!Move(t, r) /\ r = [task[t] EXCEPT !.k = conv.id, !.pc = IF conv.id = 0 THEN "purge" ELSE "dropRows"]
        BY <3>1
      <4>2. GoesOn(t, r)
        BY <1>2, <4>1 DEF GoesOn, Fields, C!Idle
      <4>3. r.pc \in {"purge", "dropRows", "dropDoc", "zero", "wipe", "prefNew", "prefRow", "bounds", "fetch"}
        BY <1>2, <4>1 DEF Fields, C!Idle
      <4> QED
        BY <4>2, <4>3
    <3> QED
      BY <2>2, <3>1 DEF C!DropConv
  <2>3. CASE C!PrefConv(t)
    <3>1. CASE C!Move(t, [task[t] EXCEPT !.k = conv.id, !.pc = IF conv.id = 0 THEN "prefNew" ELSE "prefRow"])
      <4>1. PICK r : C!Move(t, r) /\ r = [task[t] EXCEPT !.k = conv.id, !.pc = IF conv.id = 0 THEN "prefNew" ELSE "prefRow"]
        BY <3>1
      <4>2. GoesOn(t, r)
        BY <1>2, <4>1 DEF GoesOn, Fields, C!Idle
      <4>3. r.pc \in {"purge", "dropRows", "dropDoc", "zero", "wipe", "prefNew", "prefRow", "bounds", "fetch"}
        BY <1>2, <4>1 DEF Fields, C!Idle
      <4> QED
        BY <4>2, <4>3
    <3> QED
      BY <2>3, <3>1 DEF C!PrefConv
  <2>4. CASE C!PrefNew(t)
    <3>1. CASE C!Move(t, [task[t] EXCEPT !.k = created + 1, !.pc = "prefRow"])
      <4>1. PICK r : C!Move(t, r) /\ r = [task[t] EXCEPT !.k = created + 1, !.pc = "prefRow"]
        BY <3>1
      <4>2. GoesOn(t, r)
        BY <1>2, <4>1 DEF GoesOn, Fields, C!Idle
      <4>3. r.pc \in {"purge", "dropRows", "dropDoc", "zero", "wipe", "prefNew", "prefRow", "bounds", "fetch"}
        BY <1>2, <4>1 DEF Fields, C!Idle
      <4> QED
        BY <4>2, <4>3
    <3> QED
      BY <2>4, <3>1 DEF C!PrefNew
  <2>5. CASE C!Seek(t)
    <3>1. ASSUME NEW k, C!Move(t, [task[t] EXCEPT !.pc = "wipe", !.k = k])
          PROVE  \E r : GoesOn(t, r) /\ r.pc = "wipe"
      <4>1. PICK r : C!Move(t, r) /\ r = [task[t] EXCEPT !.pc = "wipe", !.k = k]
        BY <3>1
      <4>2. GoesOn(t, r) /\ r.pc = "wipe"
        BY <1>2, <4>1 DEF GoesOn, Fields, C!Idle
      <4> QED
        BY <4>2
    <3> QED
      BY <2>5, <3>1 DEF C!Seek
  <2>6. CASE C!PageRow(t)
    <3>1. ASSUME NEW p, C!Move(t, [task[t] EXCEPT !.pc = "fetch", !.found = p, !.now = clock])
          PROVE  \E r : GoesOn(t, r) /\ r.pc = "fetch"
      <4>1. PICK r : C!Move(t, r) /\ r = [task[t] EXCEPT !.pc = "fetch", !.found = p, !.now = clock]
        BY <3>1
      <4>2. GoesOn(t, r) /\ r.pc = "fetch"
        BY <1>2, <4>1 DEF GoesOn, Fields, C!Idle
      <4> QED
        BY <4>2
    <3> QED
      BY <1>2, <2>6, <3>1, GotoGoesOn DEF C!PageRow
  <2> QED
    BY <2>1, <2>2, <2>3, <2>4, <2>5, <2>6
<1> QED
  BY <1>1, <1>3, RequestStops, RecordKept DEF Saying

(* A permission leads a leave to the read of the group.                    *)
LEMMA AllowKeeps ==
  ASSUME GroupInv, NEW t \in Tasks, C!Allow(t)
  PROVE  GroupInv' /\ UNCHANGED <<kind, group>>
<1>1. UNCHANGED <<kind, group, requests>> /\ ~C!At(t, "idle")
  BY DEF C!Allow, C!Models, C!Counters, C!At
<1>2. Known(task[t], group)
  BY DEF GroupInv
<1>3. \/ C!Stop(t)
      \/ \E r : /\ C!Move(t, r) /\ DOMAIN r = Fields /\ r.op = task[t].op /\ r.doc = task[t].doc
                /\ r.pc \in {"read", "seek", "prefConv"} /\ (r.pc = "read" => r.op = "leave")
  BY <1>2 DEF C!Allow, C!Goto, Known, Fields, C!Idle
<1>4. ASSUME NEW r, C!Move(t, r), DOMAIN r = Fields, r.op = task[t].op, r.doc = task[t].doc,
             r.pc \in {"read", "seek", "prefConv"}, r.pc = "read" => r.op = "leave"
      PROVE  GroupInv'
  <2>1. Known(r, group) /\ r.pc # "insert"
    BY <1>2, <1>4 DEF Known, Saying
  <2> QED
    BY <1>1, <1>4, <2>1, RequestMoves
<1> QED
  BY <1>1, <1>3, <1>4, RequestStops

(* A deletion of the history marks the writes that it crosses.             *)
LEMMA WipeKeeps ==
  ASSUME GroupInv, NEW t \in Tasks, C!Wipe(t)
  PROVE  GroupInv' /\ UNCHANGED <<kind, group>>
<1>1. UNCHANGED <<kind, group, requests>> /\ task[t].pc = "wipe" /\ DOMAIN task' = Tasks
      /\ \A s \in Tasks : \/ task'[s] = task[s] \/ task'[s] = C!Idle
                          \/ task'[s] = [task[s] EXCEPT !.crossed = TRUE] /\ task[s].pc = "put"
  BY DEF C!Wipe, C!At
<1>2. \A s \in Tasks : Known(task'[s], group) /\ task'[s].pc \in {task[s].pc, "idle"}
  <2> SUFFICES ASSUME NEW s \in Tasks
               PROVE  Known(task'[s], group) /\ task'[s].pc \in {task[s].pc, "idle"}
    OBVIOUS
  <2>1. Known(task[s], group)
    BY DEF GroupInv
  <2>2. CASE task'[s] = task[s]
    BY <2>1, <2>2
  <2>3. CASE task'[s] = C!Idle
    BY <2>3, NothingKnown DEF C!Idle
  <2>4. CASE task'[s] = [task[s] EXCEPT !.crossed = TRUE]
    <3>1. /\ DOMAIN task'[s] = DOMAIN task[s] /\ task'[s].op = task[s].op
          /\ task'[s].pc = task[s].pc /\ task'[s].doc = task[s].doc
      BY <2>1, <2>4 DEF Known, Fields, C!Idle
    <3> QED
      BY <2>1, <3>1 DEF Known
  <2> QED
    BY <1>1, <2>2, <2>3, <2>4
<1> QED
  BY <1>1, <1>2 DEF GroupInv, C!At

(* A new group has no outdated copies.                                     *)
LEMMA InsertKeeps ==
  ASSUME GroupInv, NEW t \in Tasks, C!Insert(t)
  PROVE  GroupInv'
<1>1. /\ C!At(t, "insert") /\ C!Goto(t, "syncRead") /\ UNCHANGED <<kind, requests>>
      /\ \E ms : group' = [state |-> "live", admin |-> task[t].who, ver |-> 0,
                           members |-> [u \in Users |-> IF u \in ms THEN 1 ELSE 0]]
  BY DEF C!Insert, C!Counters
<1>2. IsGroup(group') /\ group'.state = "live"
  BY <1>1 DEF IsGroup
<1>3. \A s \in Tasks : Known(task[s], group)
  BY DEF GroupInv
<1>4. group.state = "none" /\ DOMAIN task = Tasks /\ \A s \in Tasks : C!At(s, "insert") => s = t
  BY <1>1, <1>3 DEF GroupInv, C!At, Known
<1>5. PICK r : GoesOn(t, r) /\ r.pc = "syncRead"
  BY <1>1, <1>3, GotoGoesOn DEF Known
<1>6. \A s \in Tasks : task'[s] = IF s = t THEN r ELSE task[s]
  BY <1>4, <1>5 DEF GoesOn, C!Move
<1>7. \A s \in Tasks : task'[s].pc # "insert" /\ Known(task'[s], group')
  <2> SUFFICES ASSUME NEW s \in Tasks PROVE task'[s].pc # "insert" /\ Known(task'[s], group')
    OBVIOUS
  <2>1. task[s].doc.state # "live" /\ IsGroup(task[s].doc) /\ DOMAIN task[s] = Fields
    BY <1>3, <1>4 DEF Known, Current
  <2>2. CASE s = t
    BY <1>2, <1>5, <1>6, <2>1, <2>2 DEF Known, GoesOn, Saying, C!At
  <2>3. CASE s # t
    BY <1>2, <1>3, <1>4, <1>6, <2>1, <2>3 DEF Known, C!At
  <2> QED
    BY <2>2, <2>3
<1>8. requests # 0
  BY <1>1 DEF GroupInv, C!At
<1> QED
  BY <1>1, <1>2, <1>4, <1>5, <1>7, <1>8 DEF GroupInv, C!At, GoesOn, C!Move

(* The members array counts, also after a change of one entry.             *)
LEMMA CountsStay ==
  ASSUME NEW f \in [Users -> Nat], NEW x, NEW v, x \in Users => v \in Nat
  PROVE  [f EXCEPT ![x] = v] \in [Users -> Nat]
OBVIOUS

(* A save keeps the copies that have its version true.                     *)
LEMMA SaveKeeps ==
  ASSUME GroupInv, NEW t \in Tasks, C!SaveGroup(t)
  PROVE  /\ GroupInv' /\ UNCHANGED kind
         /\ \A u \in Users : u # C!Gone(task[t]) =>
              (group'.members[u] > 0 <=> group.members[u] > 0)
<1>1. C!At(t, "save") /\ ~C!At(t, "idle") /\ UNCHANGED <<kind, requests>>
  BY DEF C!SaveGroup, C!Counters, C!At
<1>2. CASE ~C!SaveFits(task[t])
  BY <1>1, <1>2, RequestStops DEF C!SaveGroup
<1>3. CASE C!SaveFits(task[t])
  <2>1. /\ group.state = "live" /\ IsGroup(group) /\ DOMAIN task = Tasks
        /\ \A s \in Tasks : Known(task[s], group)
    BY <1>3 DEF C!SaveFits, GroupInv
  <2>2. /\ task[t].doc.state = "live" /\ IsGroup(task[t].doc) /\ Current(task[t].doc, group)
        /\ task[t].op \in {"add", "remove", "transfer", "leave"} /\ DOMAIN task[t] = Fields
    BY <1>1, <2>1 DEF Known, C!At
  <2>3. /\ IsGroup(group') /\ group'.state = "live"
        /\ \/ group'.ver = group.ver /\ group'.members = group.members
           \/ group'.ver = group.ver + 1
        /\ \A u \in Users : u # C!Gone(task[t]) =>
             (group'.members[u] > 0 <=> group.members[u] > 0)
    <3>1. CASE task[t].op = "transfer"
      <4>1. group' = [group EXCEPT !.admin = task[t].target]
        BY <1>3, <3>1 DEF C!SaveGroup
      <4> QED
        BY <2>1, <4>1 DEF IsGroup
    <3>2. CASE task[t].op = "add"
      <4>1. group' = [group EXCEPT !.members[task[t].target] = @ + 1, !.ver = @ + 1]
        BY <1>3, <3>2 DEF C!SaveGroup
      <4>2. /\ group'.members = [group.members EXCEPT ![task[t].target] = @ + 1]
            /\ group'.ver = group.ver + 1 /\ group'.state = "live"
            /\ group' = [state |-> group'.state, members |-> group'.members,
                         admin |-> group'.admin, ver |-> group'.ver]
        BY <2>1, <4>1 DEF IsGroup
      <4>a. group.members \in [Users -> Nat] /\ group.ver \in Nat
        BY <2>1 DEF IsGroup
      <4>b. task[t].target \in Users => group.members[task[t].target] + 1 \in Nat
        BY <4>a
      <4>3. group'.members \in [Users -> Nat] /\ group'.ver \in Nat
        BY <4>2, <4>a, <4>b, CountsStay
      <4>4. \A u \in Users : u # task[t].target => group'.members[u] = group.members[u]
        BY <2>1, <4>2 DEF IsGroup
      <4> QED
        BY <3>2, <4>2, <4>3, <4>4 DEF IsGroup, C!Gone
    <3>3. CASE task[t].op \in {"remove", "leave"}
      <4>1. /\ group' = [group EXCEPT !.members = [task[t].doc.members EXCEPT ![C!Gone(task[t])] = 0],
                                      !.ver = @ + 1]
            /\ group.ver = task[t].doc.ver
        BY <1>3, <3>3 DEF C!SaveGroup, C!SaveFits, C!Replaces
      <4>2. task[t].doc.members = group.members
        BY <2>1, <2>2, <4>1 DEF Current
      <4>3. /\ group'.members = [group.members EXCEPT ![C!Gone(task[t])] = 0]
            /\ group'.ver = group.ver + 1 /\ group'.state = "live"
            /\ group' = [state |-> group'.state, members |-> group'.members,
                         admin |-> group'.admin, ver |-> group'.ver]
        BY <2>1, <4>1, <4>2 DEF IsGroup
      <4>a. group.members \in [Users -> Nat] /\ group.ver \in Nat
        BY <2>1 DEF IsGroup
      <4>4. group'.members \in [Users -> Nat] /\ group'.ver \in Nat
        BY <4>3, <4>a, CountsStay
      <4> QED
        BY <2>1, <4>3, <4>4 DEF IsGroup
    <3> QED
      BY <2>2, <3>1, <3>2, <3>3
  <2>4. PICK r : GoesOn(t, r) /\ r.pc = "syncRead"
    BY <1>3, <2>2, GotoGoesOn DEF C!SaveGroup
  <2>5. \A s \in Tasks : task'[s] = IF s = t THEN r ELSE task[s]
    BY <2>1, <2>4 DEF GoesOn, C!Move
  <2>6. \A s \in Tasks : task[s].doc.state = "live" => Current(task[s].doc, group')
    <3> SUFFICES ASSUME NEW s \in Tasks, task[s].doc.state = "live"
                 PROVE  Current(task[s].doc, group')
      OBVIOUS
    <3>1. Current(task[s].doc, group) /\ task[s].doc.ver \in Nat /\ group.ver \in Nat
      BY <2>1 DEF Known, IsGroup
    <3> QED
      BY <2>1, <2>3, <3>1 DEF Current
  <2>7. \A s \in Tasks : task'[s].pc # "insert" /\ Known(task'[s], group')
    <3> SUFFICES ASSUME NEW s \in Tasks PROVE task'[s].pc # "insert" /\ Known(task'[s], group')
      OBVIOUS
    <3>1. Known(task[s], group) /\ task[s].pc # "insert"
      BY <2>1 DEF Known
    <3>2. CASE s = t
      BY <2>3, <2>4, <2>5, <2>6, <3>1, <3>2 DEF Known, GoesOn, Saying
    <3>3. CASE s # t
      BY <2>3, <2>5, <2>6, <3>1, <3>3 DEF Known
    <3> QED
      BY <3>2, <3>3
  <2>8. requests # 0
    BY <1>1 DEF GroupInv
  <2> QED
    BY <1>1, <2>1, <2>3, <2>4, <2>7, <2>8 DEF GroupInv, C!At, GoesOn, C!Move
<1> QED
  BY <1>2, <1>3

(* Nothing is saved over a group that was deleted.                         *)
LEMMA DropKeeps ==
  ASSUME GroupInv, NEW t \in Tasks, C!DropGroup(t)
  PROVE  GroupInv'
<1>1. /\ C!At(t, "drop") /\ C!Goto(t, "dropConv") /\ UNCHANGED <<kind, requests>>
      /\ group' = [group EXCEPT !.state = "deleted", !.members = [u \in Users |-> 0]]
  BY DEF C!DropGroup, C!Counters
<1>2. /\ IsGroup(group) /\ DOMAIN task = Tasks /\ \A s \in Tasks : Known(task[s], group)
  BY DEF GroupInv
<1>3. group.state # "none"
  BY <1>1, <1>2 DEF Known, C!At
<1>4. IsGroup(group') /\ group'.state = "deleted" /\ group'.ver = group.ver
  BY <1>1, <1>2 DEF IsGroup
<1>5. PICK r : GoesOn(t, r) /\ r.pc = "dropConv"
  BY <1>1, <1>2, GotoGoesOn DEF Known
<1>6. \A s \in Tasks : task'[s] = IF s = t THEN r ELSE task[s]
  BY <1>2, <1>5 DEF GoesOn, C!Move
<1>7. \A s \in Tasks : task'[s].pc # "insert" /\ Known(task'[s], group')
  <2> SUFFICES ASSUME NEW s \in Tasks PROVE task'[s].pc # "insert" /\ Known(task'[s], group')
    OBVIOUS
  <2>1. Known(task[s], group) /\ task[s].pc # "insert"
    BY <1>2, <1>3 DEF Known
  <2>2. task[s].doc.state = "live" => Current(task[s].doc, group')
    BY <1>4, <2>1 DEF Known, Current
  <2>3. CASE s = t
    BY <1>4, <1>5, <1>6, <2>1, <2>2, <2>3 DEF Known, GoesOn, Saying
  <2>4. CASE s # t
    BY <1>4, <1>6, <2>1, <2>2, <2>4 DEF Known
  <2> QED
    BY <2>3, <2>4
<1>8. requests # 0
  BY <1>1 DEF GroupInv, C!At
<1> QED
  BY <1>1, <1>2, <1>4, <1>5, <1>7, <1>8 DEF GroupInv, C!At, GoesOn, C!Move

(* A request starts without a copy of the group, and is the creation of it *)
(* only when nothing else is under way.                                    *)
LEMMA RequestKeeps ==
  ASSUME GroupInv, NEW t \in Tasks, NEW q \in Requests, C!Request(t, q[1], q[2], q[3])
  PROVE  GroupInv' /\ UNCHANGED <<kind, group>>
<1>1. /\ C!At(t, "idle") /\ requests' = requests + C!Cost(q[1]) /\ UNCHANGED <<kind, group>>
      /\ kind = "direct" => q[1] \notin C!GroupOps
      /\ kind = "group" => (q[1] = "create" <=> group.state = "none" /\ requests = 0)
      /\ q[1] \notin {"create", "page", "clear"} => q[2] \in C!Members
  BY DEF C!Request, C!Models
<1>2. q[1] \in {"create", "add", "remove", "leave", "transfer", "delete", "send", "see", "clear",
                "prefer", "page"}
  BY ConversationsAssumption
<1>3. PICK r : /\ C!Move(t, r)
               /\ r = [C!Idle EXCEPT !.op = q[1], !.who = q[2], !.target = q[3],
                                     !.pc = C!FirstStep(q[1]), !.since = cleared[q[2]]]
  BY DEF C!Request
<1>4. /\ DOMAIN r = Fields /\ r.op = q[1] /\ r.doc = C!NoGroup /\ r.pc = C!FirstStep(q[1])
  BY <1>3 DEF Fields, C!Idle
<1>5. q[1] = "delete" => group.state # "none"
  <2> SUFFICES ASSUME q[1] = "delete", group.state = "none" PROVE FALSE
    OBVIOUS
  <2>1. kind = "group" /\ q[2] \in C!Members
    BY <1>1 DEF GroupInv, C!GroupOps
  <2>2. group.members = [u \in Users |-> 0]
    BY DEF GroupInv, IsGroup
  <2> QED
    BY <2>1, <2>2 DEF C!Members
<1>6. /\ r.pc = "insert" => q[1] = "create"
      /\ r.pc = "read" => q[1] \in {"add", "remove", "transfer", "delete"}
      /\ r.pc \in Saying => q[1] = "send"
      /\ r.pc \notin {"save", "drop"}
  BY <1>2, <1>4 DEF C!FirstStep, Saying
<1>7. q[1] = "create" => group.state = "none" /\ requests = 0
  BY <1>1 DEF GroupInv, C!GroupOps
<1>8. IsGroup(C!NoGroup) /\ C!NoGroup.state = "none"
  BY DEF IsGroup, C!NoGroup
<1>9. Known(r, group)
  BY <1>4, <1>5, <1>6, <1>7, <1>8 DEF Known
<1>10. DOMAIN task = Tasks /\ \A s \in Tasks : Known(task[s], group)
  BY DEF GroupInv
<1>11. \A s \in Tasks : task'[s] = IF s = t THEN r ELSE task[s]
  BY <1>3, <1>10 DEF C!Move
<1>12. \A s \in Tasks : Known(task'[s], group')
  BY <1>1, <1>9, <1>10, <1>11
<1>13. requests' \in Nat /\ requests' # 0
  BY <1>1 DEF GroupInv, C!Cost
<1>14. \A s1, s2 \in Tasks : task'[s1].pc = "insert" /\ task'[s2].pc = "insert" => s1 = s2
  <2>1. CASE r.pc = "insert"
    <3>1. \A s \in Tasks : task[s].pc = "idle"
      BY <1>6, <1>7, <2>1 DEF GroupInv, C!At
    <3> QED
      BY <1>11, <3>1
  <2>2. CASE r.pc # "insert"
    BY <1>11, <2>2 DEF GroupInv, C!At
  <2> QED
    BY <2>1, <2>2
<1> QED
  BY <1>1, <1>3, <1>10, <1>12, <1>13, <1>14 DEF GroupInv, C!At, C!Move

(* A conversation starts with no request, and a group that is new or settled. *)
LEMMA ConversationsInit == C!Init => GroupInv
<1> SUFFICES ASSUME C!Init PROVE GroupInv
  OBVIOUS
<1>1. /\ kind \in {"direct", "group"} /\ requests = 0 /\ task = [t \in Tasks |-> C!Idle]
      /\ (C!Fresh0 \/ \E u \in Users : C!Settled(Founder, u))
  BY DEF C!Init
<1>2. IsGroup(group)
  <2>1. CASE C!Fresh0
    BY <2>1 DEF C!Fresh0, C!NoGroup, IsGroup
  <2>2. CASE \E u \in Users : C!Settled(Founder, u)
    <3>1. \E rest : group = [state |-> "live", admin |-> Founder, ver |-> 1,
                             members |-> [u \in Users |-> IF u \in rest THEN 1 ELSE 0]]
      BY <2>2 DEF C!Settled
    <3> QED
      BY <3>1 DEF IsGroup
  <2> QED
    BY <1>1, <2>1, <2>2
<1>3. \A t \in Tasks : task[t] = C!Idle /\ C!At(t, "idle")
  BY <1>1 DEF C!At, C!Idle
<1>4. \A t \in Tasks : Known(task[t], group)
  BY <1>3, NothingKnown
<1> QED
  BY <1>1, <1>2, <1>3, <1>4 DEF GroupInv, C!At

(* Every step of a conversation keeps the invariant, and changes who is in *)
(* the group only as a request about the user asked, or with the group.    *)
LEMMA ConversationsStep ==
  ASSUME GroupInv, C!Next
  PROVE  GroupInv' /\ C!OnlyAsRequested
<1>1. ASSUME NEW t \in Tasks, NEW q \in Requests, C!Request(t, q[1], q[2], q[3])
      PROVE  GroupInv' /\ UNCHANGED <<kind, group>>
  BY <1>1, RequestKeeps
<1>2. ASSUME NEW t \in Tasks, C!Step(t)
      PROVE  \/ GroupInv' /\ UNCHANGED <<kind, group>>
             \/ GroupInv' /\ (C!At(t, "insert") \/ C!At(t, "drop"))
             \/ GroupInv' /\ C!SaveGroup(t)
  <2>1. CASE C!Insert(t)
    BY <2>1, InsertKeeps DEF C!Insert
  <2>2. CASE C!DropGroup(t)
    BY <2>2, DropKeeps DEF C!DropGroup
  <2>3. CASE C!SaveGroup(t)
    BY <2>3, SaveKeeps
  <2> QED
    BY <1>2, <2>1, <2>2, <2>3, ReadingKeeps, SyncingKeeps, WritingKeeps, MindingKeeps, AllowKeeps, WipeKeeps
       DEF C!Step
<1>3. UNCHANGED <<kind, group>> => C!OnlyAsRequested
  BY DEF C!OnlyAsRequested, C!Members
<1>4. ASSUME NEW t \in Tasks, C!At(t, "insert") \/ C!At(t, "drop") PROVE C!OnlyAsRequested
  BY <1>4 DEF C!OnlyAsRequested
<1>5. ASSUME NEW t \in Tasks, C!SaveGroup(t) PROVE C!OnlyAsRequested
  <2>1. C!At(t, "save")
    BY <1>5 DEF C!SaveGroup
  <2>2. /\ UNCHANGED kind
        /\ \A u \in Users : u # C!Gone(task[t]) =>
             (group'.members[u] > 0 <=> group.members[u] > 0)
    BY <1>5, SaveKeeps
  <2> SUFFICES ASSUME NEW u \in Users, (u \in C!Members) # (u \in C!Members)'
               PROVE  C!Gone(task[t]) = u
    BY <2>1 DEF C!OnlyAsRequested
  <2> QED
    BY <2>2 DEF C!Members
<1> QED
  BY <1>1, <1>2, <1>3, <1>4, <1>5 DEF C!Next

(* In a behaviour of a conversation the invariant of its group holds.      *)
LEMMA GroupStep ==
  ASSUME part = "conversations" => GroupInv, [ServerNext]_<<part, convVars, uploadVars>>
  PROVE  /\ (part = "conversations" => GroupInv)'
         /\ part = "conversations" => C!OnlyAsRequested
<1>1. CASE part = "conversations" /\ C!Next /\ UNCHANGED part
  BY <1>1, ConversationsStep
<1>2. CASE part # "conversations" /\ UNCHANGED part
  BY <1>2
<1>3. CASE UNCHANGED <<part, convVars, uploadVars>>
  <2>1. UNCHANGED <<part, kind, group, requests, task>>
    BY <1>3 DEF convVars
  <2>2. GroupInv => GroupInv'
    BY <2>1 DEF GroupInv, C!At
  <2>3. C!OnlyAsRequested
    BY <2>1 DEF C!OnlyAsRequested, C!Members
  <2> QED
    BY <2>1, <2>2, <2>3
<1> QED
  BY <1>1, <1>2, <1>3 DEF ServerNext

(* A user enters or leaves a group only by a request about that user, or   *)
(* when the group is deleted: a members array that is replaced never       *)
(* undoes what another request saved (groupController.js).                 *)
THEOREM MembershipIsAsAsked == ServerSpec => MembershipAsAsked
<1>1. ServerInit => (part = "conversations" => GroupInv)
  BY ConversationsInit DEF ServerInit
<1>2. (part = "conversations" => GroupInv) /\ [ServerNext]_<<part, convVars, uploadVars>>
        => (part = "conversations" => GroupInv)'
  BY GroupStep
<1>3. (part = "conversations" => GroupInv) /\ [ServerNext]_<<part, convVars, uploadVars>>
        => [part = "conversations" => C!OnlyAsRequested]_<<part, convVars, uploadVars>>
  BY GroupStep
<1> QED
  BY <1>1, <1>2, <1>3, PTL DEF ServerSpec, MembershipAsAsked

-----------------------------------------------------------------------------
(* The participant rows: every user's row agrees with the group, or a sync *)
(* that is under way will still write it, or it is muddled.                *)

Creating == {"syncConv", "syncPut", "upsert"}
Looping == {"syncFind", "syncRow", "syncLeave", "find", "put", "prefRow"}
Syncing == {"syncRead", "syncConv", "syncPut", "syncFind", "syncRow", "syncLeave"}
Changes == {"create", "add", "remove", "leave", "transfer", "delete"}
Dropping == {"dropConv", "dropRows", "dropDoc", "purge"}

(* Where requests can be, and what their records hold there.               *)
RecordOK(r, now, convs) ==
  /\ r.pc # "idle" => r.who \in Users /\ r.target \in Users
  /\ r.boss \in Users \cup {Nobody} /\ r.shape \subseteq Users /\ r.todo \subseteq r.shape
  /\ r.k \in 0 .. MaxConvs /\ r.msg \in 0 .. now /\ r.now \in 0 .. now
  /\ r.pc \in {"insert", "save"} \cup Syncing => r.op \in Changes
  /\ r.todo # {} <=> r.pc \in {"syncFind", "syncRow", "find", "put"}
  /\ r.pc \in {"syncRow", "put"} => r.cur \in r.todo
  /\ r.pc \in {"syncFind", "syncRow", "syncLeave"} => r.now # 0
  /\ r.pc \in Looping \cup {"dropRows", "dropDoc"} => r.k \in 1 .. convs
  /\ r.pc = "syncPut" => r.k \in 0 .. convs
  /\ r.pc = "wipe" => r.k # 0
PlaceOK(r, kd, g, id, rows) ==
  /\ r.pc = "insert" => kd = "group"
  /\ r.pc = "prefNew" => kd = "direct"
  /\ r.pc \in Creating => kd = "direct" \/ g.state # "none"
  /\ r.pc \in Dropping => g.state = "deleted"
  /\ kd = "group" /\ g.state # "deleted" =>
       /\ r.pc \in Looping \/ (r.pc = "syncPut" /\ r.k # 0) => r.k = id
       /\ r.pc \in {"syncRow", "put"} /\ r.found.live => rows[r.k][r.cur].live

RowKind ==
  [live : BOOLEAN, role : C!Roles, joined : C!Times, left : C!Times, deleted : C!Times,
   last : C!Times, unread : Nat]
StoreOK ==
  /\ clock \in Nat /\ created \in 0 .. MaxConvs /\ row \in [C!Convs -> [Users -> RowKind]]
  /\ conv.id \in 0 .. created /\ conv.last \in C!Times /\ group.admin \in Users \cup {Nobody}
  /\ \A m \in msgs : m.at \in C!Times /\ m.aud \subseteq Users /\ m.seen \subseteq Users
  /\ kind = "direct" => group.state = "none"
  /\ kind = "group" /\ group.state # "deleted" => conv.id = created
  /\ kind = "group" /\ group.state = "none" => created = 0

(* The requests that are about to add a user, that have still to count a   *)
(* message for a user, and that have still to write a user's row.          *)
Adds(r, u) == r.pc = "save" /\ r.op = "add" /\ r.target = u
Counts(r, u) == r.pc \in {"shape", "upsert"} \/ (r.pc \in {"find", "put"} /\ u \in r.todo)
Owes(r, u) ==
  \/ r.pc \in {"syncRead", "syncConv", "syncPut"}
  \/ r.pc \in {"syncFind", "syncRow"} /\ (u \in r.todo \/ u \notin r.shape)
  \/ r.pc = "syncLeave" /\ u \notin r.shape
Adding(u) == {t \in Tasks : Adds(task[t], u)}
Counting(u) == {t \in Tasks : Counts(task[t], u)}

MembersBounded == \A u \in Users : group.members[u] + Cardinality(Adding(u)) <= Cardinality(Tasks)
UnreadBounded ==
  \A u \in Users : \A k \in C!Convs : row[k][u].unread + Cardinality(Counting(u)) <= clock

Agrees(u) ==
  /\ conv.id # 0
  /\ u \in C!Members <=> row[conv.id][u].live /\ row[conv.id][u].left = 0
  /\ u \in C!Members => row[conv.id][u].role = C!RoleIn(group.admin, u)
RowsAgree ==
  group.state = "live" =>
    \A u \in Users \ muddled : Agrees(u) \/ \E t \in Tasks : Owes(task[t], u)

TasksOK == \A t \in Tasks : RecordOK(task[t], clock, created)
                                /\ PlaceOK(task[t], kind, group, conv.id, row)
RowsInv ==
  /\ GroupInv /\ StoreOK /\ TasksOK
  /\ MembersBounded /\ UnreadBounded /\ RowsAgree

(* One entry of the table of rows is written.                              *)
LEMMA RowWritten ==
  ASSUME NEW K, NEW V, NEW S, NEW f \in [K -> [V -> S]], NEW k \in K, NEW v \in V, NEW p \in S,
         NEW g, g = [f EXCEPT ![k][v] = p]
  PROVE  /\ g \in [K -> [V -> S]]
         /\ \A i \in K, j \in V : g[i][j] = IF i = k /\ j = v THEN p ELSE f[i][j]
OBVIOUS

(* Times that were drawn stay drawn.                                       *)
LEMMA TimesGrow ==
  ASSUME StoreOK, clock' \in Nat, clock <= clock'
  PROVE  /\ C!Times \subseteq C!Times' /\ RowKind \subseteq RowKind'
         /\ row \in [C!Convs -> [Users -> RowKind']]
<1>1. clock \in Nat /\ row \in [C!Convs -> [Users -> RowKind]]
  BY DEF StoreOK
<1>2. C!Times \subseteq C!Times'
  BY <1>1 DEF C!Times
<1>3. RowKind \subseteq RowKind'
  BY <1>2 DEF RowKind, C!Roles
<1> QED
  BY <1>1, <1>2, <1>3

(* What a record holds stays in bounds when time goes on.                  *)
LEMMA RecordsGrow ==
  ASSUME NEW q, NEW n \in Nat, NEW n2 \in Nat, n <= n2, NEW m \in Nat, NEW m2 \in Nat, m <= m2,
         RecordOK(q, n, m)
  PROVE  RecordOK(q, n2, m2)
BY DEF RecordOK

(* Fewer requests are about to do what fewer records say.                  *)
LEMMA Fewer ==
  ASSUME NEW S, NEW T \in SUBSET Tasks, S \subseteq T
  PROVE  /\ Cardinality(S) \in Nat /\ Cardinality(T) \in Nat /\ Cardinality(S) <= Cardinality(T)
         /\ Cardinality(T) <= Cardinality(Tasks) /\ Cardinality(Tasks) \in Nat
         /\ \A t \in T \ S : Cardinality(S) + 1 <= Cardinality(T)
<1>1. IsFiniteSet(Tasks) /\ IsFiniteSet(T) /\ IsFiniteSet(S)
  BY FS_Subset, ConversationsAssumption
<1>2. /\ Cardinality(S) \in Nat /\ Cardinality(T) \in Nat /\ Cardinality(Tasks) \in Nat
      /\ Cardinality(S) <= Cardinality(T) /\ Cardinality(T) <= Cardinality(Tasks)
  BY <1>1, FS_Subset, FS_CardinalityType
<1>3. ASSUME NEW t \in T \ S PROVE Cardinality(S) + 1 <= Cardinality(T)
  <2>1. IsFiniteSet(S \cup {t}) /\ Cardinality(S \cup {t}) = Cardinality(S) + 1
    BY <1>1, <1>3, FS_AddElement
  <2>2. S \cup {t} \subseteq T
    BY <1>3
  <2> QED
    BY <1>1, <2>1, <2>2, FS_Subset
<1> QED
  BY <1>2, <1>3

(* The members stay bounded while nobody starts to add one.                *)
LEMMA MembersStay ==
  ASSUME RowsInv, GroupInv', NEW t \in Tasks, NEW r, C!Move(t, r),
         \A u \in Users : Adds(r, u) => Adds(task[t], u),
         \A u \in Users : group'.members[u] <= group.members[u]
  PROVE  MembersBounded'
<1> SUFFICES ASSUME NEW u \in Users
             PROVE  group'.members[u] + Cardinality(Adding(u)') <= Cardinality(Tasks)
  BY DEF MembersBounded
<1>1. DOMAIN task = Tasks /\ group.members[u] \in Nat /\ group'.members[u] \in Nat
  BY DEF RowsInv, GroupInv, IsGroup
<1>2. Adding(u)' \subseteq Adding(u) /\ Adding(u) \subseteq Tasks
  BY <1>1 DEF Adding, C!Move
<1>3. group.members[u] + Cardinality(Adding(u)) <= Cardinality(Tasks)
  BY DEF RowsInv, MembersBounded
<1>4. /\ Cardinality(Adding(u)') \in Nat /\ Cardinality(Adding(u)) \in Nat /\ Cardinality(Tasks) \in Nat
      /\ Cardinality(Adding(u)') <= Cardinality(Adding(u))
  BY <1>2, Fewer
<1> QED
  BY <1>1, <1>3, <1>4

(* The counts stay bounded when none grows and nobody starts to count.     *)
LEMMA UnreadStays ==
  ASSUME RowsInv, StoreOK', NEW t \in Tasks, NEW r, C!Move(t, r), clock <= clock',
         \A u \in Users : Counts(r, u) => Counts(task[t], u),
         \A k \in C!Convs, u \in Users : row'[k][u].unread <= row[k][u].unread
  PROVE  UnreadBounded'
<1> SUFFICES ASSUME NEW u \in Users, NEW k \in C!Convs
             PROVE  row'[k][u].unread + Cardinality(Counting(u)') <= clock'
  BY DEF UnreadBounded
<1>1. /\ DOMAIN task = Tasks /\ row[k][u].unread \in Nat /\ row'[k][u].unread \in Nat
      /\ clock \in Nat /\ clock' \in Nat
  BY DEF RowsInv, GroupInv, StoreOK, RowKind
<1>2. Counting(u)' \subseteq Counting(u) /\ Counting(u) \subseteq Tasks
  BY <1>1 DEF Counting, C!Move
<1>3. row[k][u].unread + Cardinality(Counting(u)) <= clock
  BY DEF RowsInv, UnreadBounded
<1>4. /\ Cardinality(Counting(u)') \in Nat /\ Cardinality(Counting(u)) \in Nat
      /\ Cardinality(Counting(u)') <= Cardinality(Counting(u))
  BY <1>2, Fewer
<1> QED
  BY <1>1, <1>3, <1>4

(* Every row is settled or owed again after a step that settles the rest.  *)
LEMMA RowsStay ==
  ASSUME RowsInv, NEW t \in Tasks, NEW r, C!Move(t, r), group'.state = "live" => group.state = "live",
         \A u \in Users : group.state = "live" /\ u \notin muddled' =>
           \/ Owes(r, u) \/ Agrees(u)'
           \/ u \notin muddled /\ ~Owes(task[t], u) /\ (Agrees(u) => Agrees(u)')
  PROVE  RowsAgree'
<1> SUFFICES ASSUME group'.state = "live", NEW u \in Users \ muddled', ~Agrees(u)'
             PROVE  \E s \in Tasks : Owes(task'[s], u)
  BY DEF RowsAgree
<1>1. DOMAIN task = Tasks
  BY DEF RowsInv, GroupInv
<1>2. CASE Owes(r, u)
  BY <1>1, <1>2 DEF C!Move
<1>3. CASE u \notin muddled /\ ~Owes(task[t], u) /\ (Agrees(u) => Agrees(u)')
  <2>1. PICK s \in Tasks : Owes(task[s], u)
    BY <1>3 DEF RowsInv, RowsAgree
  <2>2. s # t /\ task'[s] = task[s]
    BY <1>1, <1>3, <2>1 DEF C!Move
  <2> QED
    BY <2>1, <2>2
<1> QED
  BY <1>2, <1>3

(* The invariant after a request has taken a step.                         *)
LEMMA RequestDone ==
  ASSUME RowsInv, GroupInv', StoreOK', NEW t \in Tasks, NEW r, C!Move(t, r), UNCHANGED kind,
         clock <= clock', created <= created',
         RecordOK(r, clock', created'), PlaceOK(r, kind', group', conv'.id, row'),
         \A s \in Tasks \ {t} : PlaceOK(task[s], kind', group', conv'.id, row'),
         MembersBounded', UnreadBounded', RowsAgree'
  PROVE  RowsInv'
<1>1. \A s \in Tasks : task'[s] = IF s = t THEN r ELSE task[s]
  BY DEF RowsInv, GroupInv, C!Move
<1>2. \A s \in Tasks : RecordOK(task[s], clock', created')
  <2>1. clock \in Nat /\ created \in Nat /\ clock' \in Nat /\ created' \in Nat
    BY ConversationsAssumption DEF RowsInv, StoreOK
  <2> QED
    BY <2>1, RecordsGrow DEF RowsInv, TasksOK
<1>3. \A s \in Tasks : RecordOK(task'[s], clock', created') /\ PlaceOK(task'[s], kind', group', conv'.id, row')
  BY <1>1, <1>2
<1>4. TasksOK'
  BY <1>3 DEF TasksOK
<1> QED
  BY <1>4 DEF RowsInv

(* A request whose step changes nothing that the rows depend on.           *)
LEMMA QuietRest ==
  ASSUME RowsInv, GroupInv', NEW t \in Tasks, NEW r, C!Move(t, r),
         UNCHANGED <<kind, group, conv, row, clock, created, muddled>>,
         \A m \in msgs' : m.at \in C!Times /\ m.aud \subseteq Users /\ m.seen \subseteq Users,
         RecordOK(r, clock, created), PlaceOK(r, kind, group, conv.id, row),
         MembersBounded',
         \A u \in Users : /\ Counts(r, u) => Counts(task[t], u)
                          /\ group.state = "live" /\ u \notin muddled /\ Owes(task[t], u) => Owes(r, u)
  PROVE  RowsInv'
<1>1. StoreOK /\ GroupInv
  BY DEF RowsInv
<1>2. StoreOK'
  BY <1>1 DEF StoreOK, C!Times, RowKind
<1>3. clock \in Nat /\ created \in Nat
  BY <1>1, ConversationsAssumption DEF StoreOK
<1>5. \A k \in C!Convs, u \in Users : row'[k][u].unread <= row[k][u].unread
  BY <1>1 DEF StoreOK, RowKind
<1>6. UnreadBounded'
  BY <1>2, <1>3, <1>5, UnreadStays
<1>7. \A u \in Users : Agrees(u) => Agrees(u)'
  BY DEF Agrees, C!Members
<1>8. RowsAgree'
  BY <1>7, RowsStay
<1>9. \A s \in Tasks : PlaceOK(task[s], kind, group, conv.id, row)
  BY DEF RowsInv, TasksOK
<1>10. kind' = kind /\ group' = group /\ conv'.id = conv.id /\ row' = row
  OBVIOUS
<1>11. \A s \in Tasks : PlaceOK(task[s], kind', group', conv'.id, row')
  BY <1>9, <1>10
<1>12. PlaceOK(r, kind', group', conv'.id, row') /\ RecordOK(r, clock', created')
  OBVIOUS
<1>13. clock <= clock' /\ created <= created'
  BY <1>3
<1> QED
  BY <1>2, <1>6, <1>8, <1>11, <1>12, <1>13, RequestDone

(* A quiet step that starts to add nobody.                                 *)
LEMMA QuietStep ==
  ASSUME RowsInv, GroupInv', NEW t \in Tasks, NEW r, C!Move(t, r),
         UNCHANGED <<kind, group, conv, row, clock, created, muddled>>,
         \A m \in msgs' : m.at \in C!Times /\ m.aud \subseteq Users /\ m.seen \subseteq Users,
         RecordOK(r, clock, created), PlaceOK(r, kind, group, conv.id, row),
         \A u \in Users : /\ Adds(r, u) => Adds(task[t], u)
                          /\ Counts(r, u) => Counts(task[t], u)
                          /\ group.state = "live" /\ u \notin muddled /\ Owes(task[t], u) => Owes(r, u)
  PROVE  RowsInv'
<1>1. \A u \in Users : group'.members[u] <= group.members[u]
  BY DEF RowsInv, GroupInv, IsGroup
<1>2. MembersBounded'
  BY <1>1, MembersStay
<1> QED
  BY <1>2, QuietRest

(* A request that is over, or enters its next part.                        *)
Calm(t, r) ==
  /\ C!Move(t, r) /\ r.pc \in {"idle", "say", "save", "drop"}
  /\ r.pc # "idle" => r.who \in Users /\ r.target \in Users
  /\ r.boss = Nobody /\ r.shape = {} /\ r.todo = {} /\ r.k = 0 /\ r.msg = 0 /\ r.now = 0
  /\ r.pc = "save" => r.op = "remove"
(* A calm record is in its place and owes nothing.                         *)
LEMMA CalmHolds ==
  ASSUME NEW t \in Tasks, NEW r, Calm(t, r)
  PROVE  /\ \A n, m \in Nat : RecordOK(r, n, m)
         /\ \A kd, g, id, rows : PlaceOK(r, kd, g, id, rows)
         /\ \A u : ~Adds(r, u) /\ ~Counts(r, u) /\ ~Owes(r, u)
<1>1. MaxConvs \in Nat
  BY ConversationsAssumption
<1> QED
  BY <1>1 DEF Calm, RecordOK, PlaceOK, Adds, Counts, Owes, Syncing, Looping, Creating, Dropping, Changes
(* A request that stops is calm.                                           *)
LEMMA StopCalms ==
  ASSUME NEW t \in Tasks, C!Stop(t) PROVE \E r : Calm(t, r)
BY DEF C!Stop, Calm, C!Idle
(* A request that enters its next part is calm.                            *)
LEMMA EnterCalms ==
  ASSUME NEW t \in Tasks, NEW pc \in {"done", "say", "save", "drop"}, C!Enter(t, pc),
         task[t].who \in Users, task[t].target \in Users, pc = "save" => task[t].op = "remove"
  PROVE  \E r : Calm(t, r)
<1>1. CASE pc = "done"
  BY <1>1, StopCalms DEF C!Enter
<1>2. CASE pc # "done"
  <2>1. PICK r : /\ C!Move(t, r)
                 /\ r = [C!Idle EXCEPT !.op = task[t].op, !.who = task[t].who, !.target = task[t].target,
                                       !.doc = task[t].doc, !.since = task[t].since, !.pc = pc]
    BY <1>2 DEF C!Enter
  <2>2. Calm(t, r)
    BY <1>2, <2>1 DEF Calm, C!Idle
  <2> QED
    BY <2>2
<1> QED
  BY <1>1, <1>2
(* So is one that has written its message or has synchronised the rows.    *)
LEMMA EndingsCalm ==
  ASSUME RowsInv, NEW t \in Tasks, task[t].pc # "idle",
         C!Enter(t, C!AfterMessage(task[t].op)) \/ C!Enter(t, C!AfterSync(task[t].op))
  PROVE  \E r : Calm(t, r)
<1>1. task[t].who \in Users /\ task[t].target \in Users
  BY DEF RowsInv, TasksOK, RecordOK
<1>2. PICK pc : /\ pc \in {"done", "say", "save", "drop"} /\ (pc = "save" => task[t].op = "remove")
                /\ C!Enter(t, pc)
  BY DEF C!AfterMessage, C!AfterSync
<1> QED
  BY <1>1, <1>2, EnterCalms

(* A quiet step to a calm record.                                          *)
LEMMA QuietCalm ==
  ASSUME RowsInv, GroupInv', NEW t \in Tasks, NEW r, Calm(t, r),
         UNCHANGED <<kind, group, conv, row, clock, created, muddled>>,
         \A m \in msgs' : m.at \in C!Times /\ m.aud \subseteq Users /\ m.seen \subseteq Users,
         \A u \in Users : ~(group.state = "live" /\ u \notin muddled /\ Owes(task[t], u))
  PROVE  RowsInv'
<1>1. clock \in Nat /\ created \in Nat
  BY ConversationsAssumption DEF RowsInv, StoreOK
<1>2. RecordOK(r, clock, created) /\ PlaceOK(r, kind, group, conv.id, row) /\ C!Move(t, r)
      /\ \A u : ~Adds(r, u) /\ ~Counts(r, u)
  BY <1>1, CalmHolds DEF Calm
<1> QED
  BY <1>2, QuietStep

(* What the invariant says of one request.                                 *)
LEMMA Here ==
  ASSUME RowsInv, NEW t \in Tasks
  PROVE  /\ RecordOK(task[t], clock, created) /\ PlaceOK(task[t], kind, group, conv.id, row)
         /\ Known(task[t], group) /\ DOMAIN task[t] = Fields /\ DOMAIN task = Tasks
         /\ StoreOK /\ IsGroup(group) /\ kind \in {"direct", "group"}
         /\ clock \in Nat /\ created \in Nat /\ MaxConvs \in Nat \ {0}
BY ConversationsAssumption DEF RowsInv, TasksOK, GroupInv, Known, StoreOK

(* A record that goes on with the same request, and one that has moved to  *)
(* another step and nothing else.                                          *)
Based(r, q) == r.op = q.op /\ r.who = q.who /\ r.target = q.target /\ r.msg = q.msg
Turned(r, q) ==
  /\ Based(r, q) /\ r.boss = q.boss /\ r.shape = q.shape /\ r.k = q.k /\ r.todo = q.todo
  /\ r.cur = q.cur /\ r.found = q.found /\ r.now = q.now
(* Goto turns the record to the step it names.                             *)
LEMMA GotoTurns ==
  ASSUME NEW t \in Tasks, DOMAIN task[t] = Fields, NEW pc, C!Goto(t, pc)
  PROVE  \E r : C!Move(t, r) /\ r.pc = pc /\ Turned(r, task[t])
<1>1. PICK r : C!Move(t, r) /\ r = [task[t] EXCEPT !.pc = pc]
  BY DEF C!Goto
<1>2. r.pc = pc /\ Turned(r, task[t])
  BY <1>1 DEF Turned, Based, Fields, C!Idle
<1> QED
  BY <1>1, <1>2

(* The steps that read, and those that leave the rows alone.               *)
LEMMA SyncReadRows ==
  ASSUME RowsInv, GroupInv', NEW t \in Tasks, C!SyncRead(t)
  PROVE  RowsInv'
<1>1. task[t].pc = "syncRead" /\ UNCHANGED <<kind, group, conv, row, clock, created, muddled, msgs>>
  BY DEF C!SyncRead, C!At, C!Models, C!Counters, C!Ghosts
<1>2. /\ RecordOK(task[t], clock, created) /\ DOMAIN task[t] = Fields /\ StoreOK
      /\ \A m \in msgs' : m.at \in C!Times /\ m.aud \subseteq Users /\ m.seen \subseteq Users
  BY <1>1, Here DEF StoreOK
<1>3. CASE group.state # "live" /\ C!Enter(t, C!AfterSync(task[t].op))
  <2>1. PICK r : Calm(t, r)
    BY <1>1, <1>3, EndingsCalm
  <2> QED
    BY <1>1, <1>2, <1>3, <2>1, QuietCalm
<1>4. CASE /\ group.state = "live"
           /\ C!Move(t, [task[t] EXCEPT !.pc = "syncConv", !.boss = group.admin, !.shape = C!MemberSet(group)])
  <2>1. PICK r : /\ C!Move(t, r)
                 /\ r = [task[t] EXCEPT !.pc = "syncConv", !.boss = group.admin, !.shape = C!MemberSet(group)]
    BY <1>4
  <2>2. /\ Based(r, task[t]) /\ r.pc = "syncConv" /\ r.boss = group.admin /\ r.shape = C!MemberSet(group)
        /\ r.k = task[t].k /\ r.now = task[t].now /\ r.todo = task[t].todo
    BY <1>2, <2>1 DEF Based, Fields, C!Idle
  <2>3. RecordOK(r, clock, created)
    BY <1>1, <1>2, <2>2 DEF RecordOK, Based, StoreOK, C!MemberSet, Syncing, Looping
  <2>4. PlaceOK(r, kind, group, conv.id, row)
    BY <1>4, <2>2 DEF PlaceOK, Creating, Dropping, Looping
  <2>5. \A u : ~Adds(r, u) /\ ~Counts(r, u) /\ Owes(r, u)
    BY <2>2 DEF Adds, Counts, Owes
  <2> QED
    BY <1>1, <1>2, <2>1, <2>3, <2>4, <2>5, QuietStep
<1> QED
  BY <1>3, <1>4 DEF C!SyncRead

(* A sync looks the Conversation up.                                       *)
LEMMA SyncConvRows ==
  ASSUME RowsInv, GroupInv', NEW t \in Tasks, C!SyncConv(t)
  PROVE  RowsInv'
<1>1. task[t].pc = "syncConv" /\ UNCHANGED <<kind, group, conv, row, clock, created, muddled, msgs>>
  BY DEF C!SyncConv, C!At, C!Models, C!Counters, C!Ghosts
<1>2. /\ RecordOK(task[t], clock, created) /\ PlaceOK(task[t], kind, group, conv.id, row)
      /\ DOMAIN task[t] = Fields /\ StoreOK /\ MaxConvs \in Nat
      /\ \A m \in msgs' : m.at \in C!Times /\ m.aud \subseteq Users /\ m.seen \subseteq Users
  BY <1>1, Here DEF StoreOK
<1>3. PICK r : C!Move(t, r) /\ r = [task[t] EXCEPT !.pc = "syncPut", !.k = conv.id]
  BY DEF C!SyncConv
<1>4. /\ Based(r, task[t]) /\ r.pc = "syncPut" /\ r.boss = task[t].boss /\ r.shape = task[t].shape
      /\ r.k = conv.id /\ r.now = task[t].now /\ r.todo = task[t].todo
  BY <1>2, <1>3 DEF Based, Fields, C!Idle
<1>5. RecordOK(r, clock, created)
  BY <1>1, <1>2, <1>4 DEF RecordOK, Based, StoreOK, Syncing, Looping
<1>6. PlaceOK(r, kind, group, conv.id, row)
  BY <1>1, <1>2, <1>4 DEF PlaceOK, Creating, Dropping, Looping
<1>7. \A u : ~Adds(r, u) /\ ~Counts(r, u) /\ Owes(r, u)
  BY <1>4 DEF Adds, Counts, Owes
<1> QED
  BY <1>1, <1>2, <1>3, <1>5, <1>6, <1>7, QuietStep

(* A sync reads the next row.                                              *)
LEMMA SyncFindRows ==
  ASSUME RowsInv, GroupInv', NEW t \in Tasks, C!SyncFind(t)
  PROVE  RowsInv'
<1>1. task[t].pc = "syncFind" /\ UNCHANGED <<kind, group, conv, row, clock, created, muddled, msgs>>
  BY DEF C!SyncFind, C!At, C!Models, C!Counters, C!Ghosts
<1>2. /\ RecordOK(task[t], clock, created) /\ PlaceOK(task[t], kind, group, conv.id, row)
      /\ DOMAIN task[t] = Fields /\ StoreOK /\ MaxConvs \in Nat
      /\ \A m \in msgs' : m.at \in C!Times /\ m.aud \subseteq Users /\ m.seen \subseteq Users
  BY <1>1, Here DEF StoreOK
<1>3. PICK r : C!Move(t, r) /\ r = [task[t] EXCEPT !.pc = "syncRow", !.cur = C!FirstOf(task[t].todo),
                                   !.found = row[task[t].k][C!FirstOf(task[t].todo)]]
  BY DEF C!SyncFind
<1>4. /\ Based(r, task[t]) /\ r.pc = "syncRow" /\ r.boss = task[t].boss /\ r.shape = task[t].shape
      /\ r.k = task[t].k /\ r.now = task[t].now /\ r.todo = task[t].todo
      /\ r.cur = C!FirstOf(task[t].todo) /\ r.found = row[r.k][r.cur]
  BY <1>2, <1>3 DEF Based, Fields, C!Idle
<1>5. r.cur \in r.todo
  BY <1>1, <1>2, <1>4 DEF RecordOK, C!FirstOf
<1>6. RecordOK(r, clock, created)
  BY <1>1, <1>2, <1>4, <1>5 DEF RecordOK, Based, Syncing, Looping
<1>7. PlaceOK(r, kind, group, conv.id, row)
  BY <1>1, <1>2, <1>4 DEF PlaceOK, Creating, Dropping, Looping
<1>8. \A u : ~Adds(r, u) /\ ~Counts(r, u) /\ (Owes(task[t], u) => Owes(r, u))
  BY <1>1, <1>4 DEF Adds, Counts, Owes
<1> QED
  BY <1>1, <1>2, <1>3, <1>6, <1>7, <1>8, QuietStep

(* The next participant of a message.                                      *)
LEMMA OnwardMoves ==
  ASSUME RowsInv, NEW t \in Tasks, task[t].pc \in {"find", "put"}, NEW u, C!Onward(t, task[t].todo \ {u})
  PROVE  \/ \E r : Calm(t, r)
         \/ \E r : /\ C!Move(t, r) /\ RecordOK(r, clock, created) /\ r.pc = "find" /\ r.k = task[t].k
                   /\ r.todo = task[t].todo \ {u}
<1>1. RecordOK(task[t], clock, created) /\ DOMAIN task[t] = Fields
  BY Here
<1>2. CASE task[t].todo \ {u} = {}
  BY <1>2, EndingsCalm DEF C!Onward
<1>3. CASE task[t].todo \ {u} # {}
  <2>1. PICK r : /\ C!Move(t, r)
                 /\ r = [task[t] EXCEPT !.todo = task[t].todo \ {u}, !.cur = Nobody, !.found = C!NoRow,
                                        !.crossed = FALSE, !.pc = "find"]
    BY <1>3 DEF C!Onward
  <2>2. /\ Based(r, task[t]) /\ r.pc = "find" /\ r.boss = task[t].boss /\ r.shape = task[t].shape
        /\ r.k = task[t].k /\ r.now = task[t].now /\ r.todo = task[t].todo \ {u}
    BY <1>1, <2>1 DEF Based, Fields, C!Idle
  <2>3. RecordOK(r, clock, created)
    BY <1>1, <1>3, <2>2 DEF RecordOK, Based, Syncing, Looping
  <2> QED
    BY <2>1, <2>2, <2>3
<1> QED
  BY <1>2, <1>3

(* A message reads the next row, or skips it.                              *)
LEMMA FindRows ==
  ASSUME RowsInv, GroupInv', NEW t \in Tasks, C!Find(t)
  PROVE  RowsInv'
<1>1. task[t].pc = "find" /\ UNCHANGED <<kind, group, conv, row, clock, created, muddled, msgs>>
  BY DEF C!Find, C!At, C!Models, C!Counters, C!Ghosts
<1>2. /\ RecordOK(task[t], clock, created) /\ PlaceOK(task[t], kind, group, conv.id, row)
      /\ DOMAIN task[t] = Fields /\ StoreOK /\ MaxConvs \in Nat
      /\ \A m \in msgs' : m.at \in C!Times /\ m.aud \subseteq Users /\ m.seen \subseteq Users
  BY <1>1, Here DEF StoreOK
<1>3. \A u : ~Owes(task[t], u)
  BY <1>1 DEF Owes
<1>4. CASE C!Onward(t, task[t].todo \ {C!FirstOf(task[t].todo)})
  <2>1. CASE \E r : Calm(t, r)
    BY <1>1, <1>2, <1>3, <2>1, QuietCalm
  <2>2. ASSUME NEW r, C!Move(t, r), RecordOK(r, clock, created), r.pc = "find", r.k = task[t].k,
               r.todo = task[t].todo \ {C!FirstOf(task[t].todo)}
        PROVE  RowsInv'
    <3>1. PlaceOK(r, kind, group, conv.id, row)
      BY <1>1, <1>2, <2>2 DEF PlaceOK, Creating, Dropping, Looping
    <3>2. \A u : ~Adds(r, u) /\ (Counts(r, u) => Counts(task[t], u))
      BY <1>1, <2>2 DEF Adds, Counts
    <3> QED
      BY <1>1, <1>2, <1>3, <2>2, <3>1, <3>2, QuietStep
  <2> QED
    BY <1>1, <1>4, <2>1, <2>2, OnwardMoves
<1>5. CASE C!Move(t, [task[t] EXCEPT !.pc = "put", !.cur = C!FirstOf(task[t].todo),
                                     !.found = row[task[t].k][C!FirstOf(task[t].todo)]])
  <2>1. PICK r : C!Move(t, r) /\ r = [task[t] EXCEPT !.pc = "put", !.cur = C!FirstOf(task[t].todo),
                                         !.found = row[task[t].k][C!FirstOf(task[t].todo)]]
    BY <1>5
  <2>2. /\ Based(r, task[t]) /\ r.pc = "put" /\ r.boss = task[t].boss /\ r.shape = task[t].shape
        /\ r.k = task[t].k /\ r.now = task[t].now /\ r.todo = task[t].todo
        /\ r.cur = C!FirstOf(task[t].todo) /\ r.found = row[r.k][r.cur]
    BY <1>2, <2>1 DEF Based, Fields, C!Idle
  <2>3. r.cur \in r.todo
    BY <1>1, <1>2, <2>2 DEF RecordOK, C!FirstOf
  <2>4. RecordOK(r, clock, created)
    BY <1>1, <1>2, <2>2, <2>3 DEF RecordOK, Based, Syncing, Looping
  <2>5. PlaceOK(r, kind, group, conv.id, row)
    BY <1>1, <1>2, <2>2 DEF PlaceOK, Creating, Dropping, Looping
  <2>6. \A u : ~Adds(r, u) /\ (Counts(r, u) => Counts(task[t], u))
    BY <1>1, <2>2 DEF Adds, Counts
  <2> QED
    BY <1>1, <1>2, <1>3, <2>1, <2>4, <2>5, <2>6, QuietStep
<1> QED
  BY <1>4, <1>5 DEF C!Find

(* A message reads the participants.                                       *)
LEMMA ShapeRows ==
  ASSUME RowsInv, GroupInv', NEW t \in Tasks, C!Shape(t)
  PROVE  RowsInv'
<1>1. task[t].pc = "shape" /\ UNCHANGED <<kind, group, conv, row, clock, created, muddled>>
  BY DEF C!Shape, C!At, C!Models, C!Counters
<1>2. /\ RecordOK(task[t], clock, created) /\ PlaceOK(task[t], kind, group, conv.id, row)
      /\ DOMAIN task[t] = Fields /\ StoreOK /\ MaxConvs \in Nat /\ kind \in {"direct", "group"}
  BY Here
<1>3. \A m \in msgs' : m.at \in C!Times /\ m.aud \subseteq Users /\ m.seen \subseteq Users
  <2> SUFFICES ASSUME NEW m \in msgs'
               PROVE  m.at \in C!Times /\ m.aud \subseteq Users /\ m.seen \subseteq Users
    OBVIOUS
  <2>1. PICK n \in msgs : \/ m = n
                          \/ \E s : m = [n EXCEPT !.may = s]
    BY DEF C!Shape
  <2>2. n.at \in C!Times /\ n.aud \subseteq Users /\ n.seen \subseteq Users
    BY <1>2 DEF StoreOK
  <2>3. CASE m = n
    BY <2>2, <2>3
  <2>4. CASE \E s : m = [n EXCEPT !.may = s]
    <3>1. PICK s : m = [n EXCEPT !.may = s]
      BY <2>4
    <3>2. m.at = n.at /\ m.aud = n.aud /\ m.seen = n.seen
      BY <3>1
    <3> QED
      BY <2>2, <3>2
  <2> QED
    BY <2>1, <2>3, <2>4
<1>4. \A u : ~Owes(task[t], u) /\ ~Adds(task[t], u) /\ Counts(task[t], u)
  BY <1>1 DEF Owes, Adds, Counts
<1>5. CASE C!Enter(t, C!AfterMessage(task[t].op))
  <2>1. PICK r : Calm(t, r)
    BY <1>1, <1>5, EndingsCalm
  <2> QED
    BY <1>1, <1>3, <1>4, <2>1, QuietCalm
<1>6. CASE /\ kind = "direct" \/ group.state = "live"
           /\ \E shape, boss : /\ C!Move(t, [task[t] EXCEPT !.pc = "upsert", !.shape = shape, !.boss = boss])
                               /\ shape \subseteq Users /\ boss \in Users \cup {Nobody}
  <2>1. PICK shape, boss, r : /\ C!Move(t, r)
                              /\ r = [task[t] EXCEPT !.pc = "upsert", !.shape = shape, !.boss = boss]
                              /\ shape \subseteq Users /\ boss \in Users \cup {Nobody}
    BY <1>6
  <2>2. /\ Based(r, task[t]) /\ r.pc = "upsert" /\ r.boss \in Users \cup {Nobody} /\ r.shape \subseteq Users
        /\ r.k = task[t].k /\ r.now = task[t].now /\ r.todo = task[t].todo
    BY <1>2, <2>1 DEF Based, Fields, C!Idle
  <2>3. RecordOK(r, clock, created)
    BY <1>1, <1>2, <2>2 DEF RecordOK, Based, Syncing, Looping
  <2>4. PlaceOK(r, kind, group, conv.id, row)
    BY <1>6, <2>2 DEF PlaceOK, Creating, Dropping, Looping
  <2>5. \A u : ~Adds(r, u)
    BY <2>2 DEF Adds
  <2> QED
    BY <1>1, <1>3, <1>4, <2>1, <2>3, <2>4, <2>5, QuietStep
<1>7. C!MemberSet(group) \subseteq Users /\ Pair \subseteq Users /\ group.admin \in Users \cup {Nobody}
  BY <1>2, ConversationsAssumption DEF C!MemberSet, StoreOK
<1> QED
  BY <1>2, <1>5, <1>6, <1>7 DEF C!Shape

(* What follows the deletion of a group, the panel, and a page.            *)
LEMMA MindMove ==
  ASSUME RowsInv, GroupInv', NEW t \in Tasks,
         task[t].pc \in {"dropConv", "mark", "allow", "seek", "prefConv", "member", "bounds"},
         NEW r, C!Move(t, r), UNCHANGED <<kind, group, conv, row, clock, created, muddled>>,
         \A m \in msgs' : m.at \in C!Times /\ m.aud \subseteq Users /\ m.seen \subseteq Users,
         Based(r, task[t]), r.boss = task[t].boss, r.shape = task[t].shape, r.todo = task[t].todo,
         r.now \in 0 .. clock, r.k \in 0 .. MaxConvs,
         r.pc \in {"dropRows", "purge", "zero", "read", "seek", "wipe", "prefNew", "prefRow", "prefConv",
                   "bounds", "fetch"},
         r.pc \in {"dropRows", "purge"} => group.state = "deleted",
         r.pc \in {"dropRows", "prefRow"} => r.k = conv.id /\ r.k # 0,
         r.pc = "prefNew" => kind = "direct", r.pc = "wipe" => r.k # 0
  PROVE  RowsInv'
<1>1. RecordOK(task[t], clock, created) /\ StoreOK /\ created \in Nat
  BY Here
<1>2. RecordOK(r, clock, created)
  BY <1>1 DEF RecordOK, Based, StoreOK, Syncing, Looping
<1>3. PlaceOK(r, kind, group, conv.id, row)
  BY DEF PlaceOK, Creating, Dropping, Looping
<1>4. \A u : ~Adds(r, u) /\ ~Counts(r, u) /\ ~Owes(task[t], u)
  BY DEF Adds, Counts, Owes
<1> QED
  BY <1>2, <1>3, <1>4, QuietStep

(* The steps that read, delete messages or mark them.                      *)
LEMMA MindRows ==
  ASSUME RowsInv, GroupInv', NEW t \in Tasks,
         \/ C!DropConv(t) \/ C!Purge(t) \/ C!MarkRead(t) \/ C!Allow(t) \/ C!Seek(t) \/ C!PrefConv(t)
         \/ C!PageMember(t) \/ C!PageRow(t) \/ C!PageFetch(t)
  PROVE  RowsInv'
<1>1. /\ UNCHANGED <<kind, group, conv, row, clock, created, muddled>>
      /\ task[t].pc \in {"dropConv", "purge", "mark", "allow", "seek", "prefConv", "member", "bounds", "fetch"}
  BY DEF C!DropConv, C!Purge, C!MarkRead, C!Allow, C!Seek, C!PrefConv, C!PageMember, C!PageRow,
     C!PageFetch, C!At, C!Models, C!Counters, C!Ghosts
<1>2. /\ RecordOK(task[t], clock, created) /\ PlaceOK(task[t], kind, group, conv.id, row)
      /\ DOMAIN task[t] = Fields /\ StoreOK /\ MaxConvs \in Nat /\ kind \in {"direct", "group"}
      /\ created \in Nat
  BY Here
<1>3. \A m \in msgs' : m.at \in C!Times /\ m.aud \subseteq Users /\ m.seen \subseteq Users
  <2>1. CASE C!Purge(t)
    BY <2>1 DEF C!Purge
  <2>2. CASE C!MarkRead(t)
    <3> SUFFICES ASSUME NEW m \in msgs'
                 PROVE  m.at \in C!Times /\ m.aud \subseteq Users /\ m.seen \subseteq Users
      OBVIOUS
    <3>1. PICK n \in msgs : m = [n EXCEPT !.seen = n.seen \cup {task[t].who}]
      BY <2>2 DEF C!MarkRead
    <3>2. n.at \in C!Times /\ n.aud \subseteq Users /\ n.seen \subseteq Users /\ task[t].who \in Users
      BY <1>1, <1>2 DEF StoreOK, RecordOK
    <3>3. m.at = n.at /\ m.aud = n.aud /\ m.seen \subseteq n.seen \cup {task[t].who}
      BY <3>1
    <3> QED
      BY <3>2, <3>3
  <2>3. CASE UNCHANGED msgs
    BY <1>2, <2>3 DEF StoreOK
  <2> QED
    BY <2>1, <2>2, <2>3 DEF C!DropConv, C!Allow, C!Seek, C!PrefConv, C!PageMember, C!PageRow, C!PageFetch
<1>4. CASE C!Stop(t)
  <2>1. PICK r : Calm(t, r)
    BY <1>4, StopCalms
  <2>2. \A u : ~Owes(task[t], u)
    BY <1>1 DEF Owes
  <2> QED
    BY <1>1, <1>3, <2>1, <2>2, QuietCalm
<1>5. CASE \E pc \in {"zero", "read", "seek", "prefConv", "bounds", "fetch"} :
              C!Goto(t, pc) /\ task[t].pc \notin {"purge", "fetch"}
  <2>1. PICK r : /\ C!Move(t, r) /\ r.pc \in {"zero", "read", "seek", "prefConv", "bounds", "fetch"}
                 /\ Turned(r, task[t]) /\ task[t].pc \notin {"purge", "fetch"}
    BY <1>2, <1>5, GotoTurns
  <2> QED
    BY <1>1, <1>2, <1>3, <2>1, MindMove DEF Turned, RecordOK
<1>6. ASSUME NEW r, C!Move(t, r), Based(r, task[t]), r.boss = task[t].boss, r.shape = task[t].shape,
             r.todo = task[t].todo, r.now \in {task[t].now, clock},
             \/ /\ r.pc = "fetch" /\ r.k = task[t].k /\ task[t].pc = "bounds"
             \/ /\ r.pc = "wipe" /\ r.k \in C!Convs /\ task[t].pc = "seek"
             \/ /\ r.pc \in {"purge", "dropRows"} /\ task[t].pc = "dropConv" /\ r.k = conv.id
                /\ (r.pc = "purge" <=> conv.id = 0)
             \/ /\ r.pc \in {"prefNew", "prefRow"} /\ task[t].pc = "prefConv" /\ r.k = conv.id
                /\ (r.pc = "prefNew" <=> conv.id = 0) /\ (conv.id = 0 => kind # "group")
      PROVE  RowsInv'
  <2>1. /\ r.now \in 0 .. clock /\ r.k \in 0 .. MaxConvs
        /\ r.pc \in {"dropRows", "purge"} => group.state = "deleted"
    BY <1>2, <1>6 DEF RecordOK, PlaceOK, Dropping, StoreOK, C!Convs
  <2> QED
    BY <1>1, <1>2, <1>3, <1>6, <2>1, MindMove DEF C!Convs
<1>7. \/ C!Stop(t)
      \/ \E pc \in {"zero", "read", "seek", "prefConv", "bounds", "fetch"} :
            C!Goto(t, pc) /\ task[t].pc \notin {"purge", "fetch"}
      \/ \E r : /\ C!Move(t, r) /\ Based(r, task[t]) /\ r.boss = task[t].boss
                /\ r.shape = task[t].shape /\ r.todo = task[t].todo /\ r.now \in {task[t].now, clock}
                /\ \/ /\ r.pc = "fetch" /\ r.k = task[t].k /\ task[t].pc = "bounds"
                   \/ /\ r.pc = "wipe" /\ r.k \in C!Convs /\ task[t].pc = "seek"
                   \/ /\ r.pc \in {"purge", "dropRows"} /\ task[t].pc = "dropConv" /\ r.k = conv.id
                      /\ (r.pc = "purge" <=> conv.id = 0)
                   \/ /\ r.pc \in {"prefNew", "prefRow"} /\ task[t].pc = "prefConv" /\ r.k = conv.id
                      /\ (r.pc = "prefNew" <=> conv.id = 0) /\ (conv.id = 0 => kind # "group")
  <2>1. CASE C!Purge(t) \/ C!MarkRead(t) \/ C!Allow(t) \/ C!PageMember(t) \/ C!PageFetch(t)
    BY <1>1, <2>1 DEF C!Purge, C!MarkRead, C!Allow, C!PageMember, C!PageFetch, C!At
  <2>2. CASE C!DropConv(t)
    <3>1. PICK r : /\ C!Move(t, r) /\ task[t].pc = "dropConv"
                   /\ r = [task[t] EXCEPT !.k = conv.id, !.pc = IF conv.id = 0 THEN "purge" ELSE "dropRows"]
      BY <2>2 DEF C!DropConv, C!At
    <3>2. /\ Based(r, task[t]) /\ r.boss = task[t].boss /\ r.shape = task[t].shape /\ r.k = conv.id
          /\ r.todo = task[t].todo /\ r.now = task[t].now /\ r.pc = IF conv.id = 0 THEN "purge" ELSE "dropRows"
      BY <1>2, <3>1 DEF Based, Fields, C!Idle
    <3>3. r.pc \in {"purge", "dropRows"} /\ (r.pc = "purge" <=> conv.id = 0)
      BY <3>2
    <3>4. r.now \in {task[t].now, clock}
      BY <3>2
    <3> QED
      BY <3>1, <3>2, <3>3, <3>4
  <2>3. CASE C!Seek(t)
    <3>1. CASE C!Stop(t)
      BY <3>1
    <3>2. CASE \E k \in C!Convs : C!Move(t, [task[t] EXCEPT !.pc = "wipe", !.k = k])
      <4>1. PICK k, r : k \in C!Convs /\ C!Move(t, r) /\ r = [task[t] EXCEPT !.pc = "wipe", !.k = k]
        BY <3>2
      <4>2. /\ Based(r, task[t]) /\ r.boss = task[t].boss /\ r.shape = task[t].shape /\ r.k = k
            /\ r.todo = task[t].todo /\ r.now = task[t].now /\ r.pc = "wipe"
        BY <1>2, <4>1 DEF Based, Fields, C!Idle
      <4>3. task[t].pc = "seek"
        BY <2>3 DEF C!Seek, C!At
      <4> QED
        BY <4>1, <4>2, <4>3
    <3> QED
      BY <2>3, <3>1, <3>2 DEF C!Seek, C!Listed
  <2>4. CASE C!PrefConv(t)
    <3>1. CASE C!Stop(t)
      BY <3>1
    <3>2. CASE ~C!Stop(t)
      <4>1. PICK r : /\ C!Move(t, r) /\ task[t].pc = "prefConv" /\ (conv.id = 0 => kind # "group")
                     /\ r = [task[t] EXCEPT !.k = conv.id, !.pc = IF conv.id = 0 THEN "prefNew" ELSE "prefRow"]
        BY <2>4, <3>2 DEF C!PrefConv, C!At
      <4>2. /\ Based(r, task[t]) /\ r.boss = task[t].boss /\ r.shape = task[t].shape /\ r.k = conv.id
            /\ r.todo = task[t].todo /\ r.now = task[t].now
            /\ r.pc = IF conv.id = 0 THEN "prefNew" ELSE "prefRow"
        BY <1>2, <4>1 DEF Based, Fields, C!Idle
      <4>3. r.pc \in {"prefNew", "prefRow"} /\ (r.pc = "prefNew" <=> conv.id = 0)
        BY <4>2
      <4>4. r.now \in {task[t].now, clock}
        BY <4>2
      <4> QED
        BY <4>1, <4>2, <4>3, <4>4
    <3> QED
      BY <3>1, <3>2
  <2>5. CASE C!PageRow(t)
    <3>1. CASE C!Goto(t, "fetch")
      BY <2>5, <3>1 DEF C!PageRow, C!At
    <3>2. CASE \E p : C!Move(t, [task[t] EXCEPT !.pc = "fetch", !.found = p, !.now = clock])
      <4>1. PICK p, r : C!Move(t, r) /\ r = [task[t] EXCEPT !.pc = "fetch", !.found = p, !.now = clock]
        BY <3>2
      <4>2. /\ Based(r, task[t]) /\ r.boss = task[t].boss /\ r.shape = task[t].shape /\ r.k = task[t].k
            /\ r.todo = task[t].todo /\ r.now = clock /\ r.pc = "fetch"
        BY <1>2, <4>1 DEF Based, Fields, C!Idle
      <4>3. task[t].pc = "bounds"
        BY <2>5 DEF C!PageRow, C!At
      <4> QED
        BY <4>1, <4>2, <4>3
    <3> QED
      BY <2>5, <3>1, <3>2 DEF C!PageRow
  <2> QED
    BY <2>1, <2>2, <2>3, <2>4, <2>5
<1> QED
  BY <1>4, <1>5, <1>6, <1>7

(* The controllers: who may be added was no member when it was read.       *)
LEMMA ReadGroupRows ==
  ASSUME RowsInv, GroupInv', NEW t \in Tasks, C!ReadGroup(t)
  PROVE  RowsInv'
<1>1. task[t].pc = "read" /\ UNCHANGED <<kind, group, conv, row, clock, created, muddled, msgs>>
  BY DEF C!ReadGroup, C!At, C!Models, C!Counters, C!Ghosts
<1>2. /\ RecordOK(task[t], clock, created) /\ DOMAIN task[t] = Fields /\ StoreOK /\ Known(task[t], group)
      /\ DOMAIN task = Tasks /\ IsGroup(group)
      /\ \A m \in msgs' : m.at \in C!Times /\ m.aud \subseteq Users /\ m.seen \subseteq Users
  BY <1>1, Here DEF StoreOK
<1>3. \A u : ~Owes(task[t], u)
  BY <1>1 DEF Owes
<1>4. CASE C!Stop(t)
  <2>1. PICK r : Calm(t, r)
    BY <1>4, StopCalms
  <2> QED
    BY <1>1, <1>2, <1>3, <2>1, QuietCalm
<1>5. CASE ~C!Stop(t)
  <2>1. PICK r : /\ C!Move(t, r) /\ C!Allowed(task[t], group)
                 /\ r = [task[t] EXCEPT !.doc = group,
                           !.pc = IF task[t].op \in {"remove", "delete"} THEN "say" ELSE "save"]
    BY <1>5 DEF C!ReadGroup
  <2>2. /\ Based(r, task[t]) /\ r.boss = task[t].boss /\ r.shape = task[t].shape /\ r.k = task[t].k
        /\ r.now = task[t].now /\ r.todo = task[t].todo
        /\ r.pc = IF task[t].op \in {"remove", "delete"} THEN "say" ELSE "save"
    BY <1>2, <2>1 DEF Based, Fields, C!Idle
  <2>3. r.pc \in {"say", "save"} /\ task[t].op \in Changes
    BY <1>1, <1>2, <2>2 DEF Known, Changes
  <2>4. RecordOK(r, clock, created)
    BY <1>1, <1>2, <2>2, <2>3 DEF RecordOK, Based, Syncing, Looping
  <2>5. PlaceOK(r, kind, group, conv.id, row)
    BY <2>3 DEF PlaceOK, Creating, Dropping, Looping
  <2>6. \A u : ~Counts(r, u)
    BY <2>3 DEF Counts
  <2>7. MembersBounded'
    <3> SUFFICES ASSUME NEW u \in Users
                 PROVE  group'.members[u] + Cardinality(Adding(u)') <= Cardinality(Tasks)
      BY DEF MembersBounded
    <3>1. Adding(u)' \subseteq Tasks /\ Adding(u) \subseteq Tasks /\ group.members[u] \in Nat
      BY <1>2 DEF Adding, IsGroup
    <3>2. CASE Adds(r, u)
      <4>1. group.members[u] = 0
        BY <2>1, <2>2, <3>2 DEF Adds, Based, C!Allowed
      <4>2. Cardinality(Adding(u)') \in Nat /\ Cardinality(Adding(u)') <= Cardinality(Tasks)
        BY <3>1, Fewer
      <4> QED
        BY <1>1, <4>1, <4>2
    <3>3. CASE ~Adds(r, u)
      <4>1. Adding(u)' \subseteq Adding(u)
        BY <1>2, <2>1, <3>3 DEF Adding, C!Move
      <4>2. /\ Cardinality(Adding(u)') \in Nat /\ Cardinality(Adding(u)) \in Nat
            /\ Cardinality(Tasks) \in Nat /\ Cardinality(Adding(u)') <= Cardinality(Adding(u))
        BY <3>1, <4>1, Fewer
      <4>3. group.members[u] + Cardinality(Adding(u)) <= Cardinality(Tasks)
        BY DEF RowsInv, MembersBounded
      <4> QED
        BY <1>1, <3>1, <4>2, <4>3
    <3> QED
      BY <3>2, <3>3
  <2> QED
    BY <1>1, <1>2, <1>3, <2>1, <2>4, <2>5, <2>6, <2>7, QuietRest
<1> QED
  BY <1>4, <1>5

(* What a save that fits does to the members and to the administrator.     *)
LEMMA SaveDoes ==
  ASSUME GroupInv, NEW t \in Tasks, C!SaveGroup(t), C!SaveFits(task[t])
  PROVE  /\ group.state = "live" /\ group'.state = "live" /\ group'.admin \in {group.admin, task[t].target}
         /\ \A u \in Users :
              \/ group'.members[u] <= group.members[u]
              \/ Adds(task[t], u) /\ group'.members[u] = group.members[u] + 1
<1>1. /\ group.state = "live" /\ IsGroup(group) /\ Known(task[t], group) /\ task[t].pc = "save"
  BY DEF C!SaveFits, GroupInv, C!SaveGroup, C!At
<1>2. /\ task[t].doc.state = "live" /\ IsGroup(task[t].doc) /\ Current(task[t].doc, group)
      /\ task[t].op \in {"add", "remove", "transfer", "leave"}
  BY <1>1 DEF Known
<1>3. DOMAIN group = {"state", "members", "admin", "ver"} /\ group.members \in [Users -> Nat]
  BY <1>1 DEF IsGroup
<1>4. CASE task[t].op = "transfer"
  <2>1. group' = [group EXCEPT !.admin = task[t].target]
    BY <1>4 DEF C!SaveGroup
  <2>2. group'.members = group.members /\ group'.state = group.state /\ group'.admin = task[t].target
    BY <1>3, <2>1
  <2> QED
    BY <1>1, <1>3, <2>2
<1>5. CASE task[t].op = "add"
  <2>1. group' = [group EXCEPT !.members[task[t].target] = @ + 1, !.ver = @ + 1]
    BY <1>5 DEF C!SaveGroup
  <2>2. /\ group'.members = [group.members EXCEPT ![task[t].target] = @ + 1]
        /\ group'.state = group.state /\ group'.admin = group.admin
    BY <1>3, <2>1
  <2>3. \A u \in Users : group'.members[u] = IF u = task[t].target THEN group.members[u] + 1 ELSE group.members[u]
    BY <1>3, <2>2
  <2> QED
    BY <1>1, <1>3, <1>5, <2>2, <2>3 DEF Adds
<1>6. CASE task[t].op \in {"remove", "leave"}
  <2>1. /\ group' = [group EXCEPT !.members = [task[t].doc.members EXCEPT ![C!Gone(task[t])] = 0],
                                  !.ver = @ + 1]
        /\ group.ver = task[t].doc.ver
    BY <1>6 DEF C!SaveGroup, C!SaveFits, C!Replaces
  <2>2. task[t].doc.members = group.members
    BY <1>1, <1>2, <2>1 DEF Current
  <2>3. /\ group'.members = [group.members EXCEPT ![C!Gone(task[t])] = 0]
        /\ group'.state = group.state /\ group'.admin = group.admin
    BY <1>3, <2>1, <2>2
  <2>4. \A u \in Users : group'.members[u] = IF u = C!Gone(task[t]) THEN 0 ELSE group.members[u]
    BY <1>3, <2>3
  <2> QED
    BY <1>1, <1>3, <2>3, <2>4
<1> QED
  BY <1>2, <1>4, <1>5, <1>6

(* A change of the group is owed to every row.                             *)
LEMMA SaveGroupRows ==
  ASSUME RowsInv, GroupInv', NEW t \in Tasks, C!SaveGroup(t)
  PROVE  RowsInv'
<1>1. task[t].pc = "save" /\ UNCHANGED <<kind, conv, row, clock, created, muddled, msgs>>
  BY DEF C!SaveGroup, C!At, C!Counters, C!Ghosts
<1>2. /\ RecordOK(task[t], clock, created) /\ DOMAIN task[t] = Fields /\ StoreOK
      /\ DOMAIN task = Tasks /\ IsGroup(group) /\ GroupInv /\ clock \in Nat /\ created \in Nat
      /\ \A m \in msgs' : m.at \in C!Times /\ m.aud \subseteq Users /\ m.seen \subseteq Users
  BY <1>1, Here DEF StoreOK, RowsInv
<1>3. CASE ~C!SaveFits(task[t])
  <2>1. UNCHANGED group /\ \E r : Calm(t, r)
    BY <1>3, StopCalms DEF C!SaveGroup
  <2>2. \A u : ~Owes(task[t], u)
    BY <1>1 DEF Owes
  <2> QED
    BY <1>1, <1>2, <2>1, <2>2, QuietCalm
<1>4. CASE C!SaveFits(task[t])
  <2>1. PICK r : C!Move(t, r) /\ r.pc = "syncRead" /\ Turned(r, task[t])
    BY <1>2, <1>4, GotoTurns DEF C!SaveGroup
  <2>2. /\ group.state = "live" /\ group'.state = "live" /\ group'.admin \in {group.admin, task[t].target}
        /\ \A u \in Users : \/ group'.members[u] <= group.members[u]
                            \/ Adds(task[t], u) /\ group'.members[u] = group.members[u] + 1
    BY <1>2, <1>4, SaveDoes
  <2>3. RecordOK(r, clock', created')
    BY <1>1, <1>2, <2>1 DEF RecordOK, Turned, Based, Syncing, Looping
  <2>4. PlaceOK(r, kind', group', conv'.id, row')
    BY <2>1, <2>2 DEF PlaceOK, Creating, Dropping, Looping
  <2>5. \A s \in Tasks \ {t} : PlaceOK(task[s], kind', group', conv'.id, row')
    <3> SUFFICES ASSUME NEW s \in Tasks PROVE PlaceOK(task[s], kind', group', conv'.id, row')
      OBVIOUS
    <3>1. PlaceOK(task[s], kind, group, conv.id, row)
      BY Here
    <3> QED
      BY <1>1, <2>2, <3>1 DEF PlaceOK
  <2>6. StoreOK'
    <3>1. group'.admin \in Users \cup {Nobody}
      BY <1>1, <1>2, <2>2 DEF StoreOK, RecordOK
    <3> QED
      BY <1>1, <1>2, <2>2, <3>1 DEF StoreOK, C!Times, RowKind
  <2>7. MembersBounded'
    <3> SUFFICES ASSUME NEW u \in Users
                 PROVE  group'.members[u] + Cardinality(Adding(u)') <= Cardinality(Tasks)
      BY DEF MembersBounded
    <3>1. /\ Adding(u)' \subseteq Adding(u) \ {t} /\ Adding(u) \subseteq Tasks
          /\ Adds(task[t], u) => t \in Adding(u) \ Adding(u)'
      BY <1>2, <2>1 DEF Adding, Adds, C!Move
    <3>2. group.members[u] + Cardinality(Adding(u)) <= Cardinality(Tasks)
      BY DEF RowsInv, MembersBounded
    <3>3. /\ Cardinality(Adding(u)') \in Nat /\ Cardinality(Adding(u)) \in Nat
          /\ Cardinality(Tasks) \in Nat /\ Cardinality(Adding(u)') <= Cardinality(Adding(u))
          /\ Adds(task[t], u) => Cardinality(Adding(u)') + 1 <= Cardinality(Adding(u))
      BY <3>1, Fewer
    <3>4. group.members[u] \in Nat /\ group'.members[u] \in Nat
      BY <1>2 DEF IsGroup, GroupInv
    <3> QED
      BY <2>2, <3>2, <3>3, <3>4
  <2>8. UnreadBounded'
    <3>1. \A u \in Users : ~Counts(r, u)
      BY <2>1 DEF Counts
    <3>2. \A k \in C!Convs, u \in Users : row'[k][u].unread <= row[k][u].unread
      BY <1>1, <1>2 DEF StoreOK, RowKind
    <3> QED
      BY <1>1, <1>2, <2>1, <2>6, <3>1, <3>2, UnreadStays
  <2>9. RowsAgree'
    <3>1. \A u : Owes(r, u)
      BY <2>1 DEF Owes
    <3> QED
      BY <2>1, <2>2, <3>1, RowsStay
  <2>10. clock <= clock' /\ created <= created'
    BY <1>1, <1>2
  <2> QED
    BY <1>1, <2>1, <2>3, <2>4, <2>5, <2>6, <2>7, <2>8, <2>9, <2>10, RequestDone
<1> QED
  BY <1>3, <1>4

(* The group is created: its creator's request owes every row.             *)
LEMMA InsertRows ==
  ASSUME RowsInv, GroupInv', NEW t \in Tasks, C!Insert(t)
  PROVE  RowsInv'
<1>1. /\ task[t].pc = "insert" /\ UNCHANGED <<kind, conv, row, clock, created, muddled, msgs>>
      /\ C!Goto(t, "syncRead") /\ group'.state = "live" /\ group'.admin = task[t].who
      /\ \A u \in Users : group'.members[u] \in {0, 1}
  BY DEF C!Insert, C!At, C!Counters, C!Ghosts
<1>2. /\ RecordOK(task[t], clock, created) /\ PlaceOK(task[t], kind, group, conv.id, row)
      /\ DOMAIN task[t] = Fields /\ StoreOK /\ Known(task[t], group)
      /\ DOMAIN task = Tasks /\ clock \in Nat /\ created \in Nat
  BY Here
<1>3. kind = "group" /\ group.state = "none" /\ created = 0 /\ conv.id = 0
  BY <1>1, <1>2 DEF PlaceOK, Known, StoreOK
<1>4. PICK r : C!Move(t, r) /\ r.pc = "syncRead" /\ Turned(r, task[t])
  BY <1>1, <1>2, GotoTurns
<1>5. RecordOK(r, clock', created')
  BY <1>1, <1>2, <1>4 DEF RecordOK, Turned, Based, Syncing, Looping
<1>6. PlaceOK(r, kind', group', conv'.id, row')
  BY <1>1, <1>4 DEF PlaceOK, Creating, Dropping, Looping
<1>7. \A s \in Tasks \ {t} : PlaceOK(task[s], kind', group', conv'.id, row')
  <2> SUFFICES ASSUME NEW s \in Tasks PROVE PlaceOK(task[s], kind', group', conv'.id, row')
    OBVIOUS
  <2>1. PlaceOK(task[s], kind, group, conv.id, row) /\ RecordOK(task[s], clock, created)
    BY Here
  <2>2. task[s].pc \notin Looping /\ (task[s].pc = "syncPut" => task[s].k = 0)
    BY <1>3, <2>1 DEF RecordOK
  <2> QED
    BY <1>1, <1>3, <2>1, <2>2 DEF PlaceOK, Looping
<1>8. StoreOK'
  <2>1. group'.admin \in Users \cup {Nobody}
    BY <1>1, <1>2 DEF RecordOK
  <2> QED
    BY <1>1, <1>2, <1>3, <2>1 DEF StoreOK, C!Times, RowKind
<1>9. MembersBounded'
  <2> SUFFICES ASSUME NEW u \in Users
               PROVE  group'.members[u] + Cardinality(Adding(u)') <= Cardinality(Tasks)
    BY DEF MembersBounded
  <2>1. Adding(u)' \subseteq Tasks \ {t}
    BY <1>2, <1>4 DEF Adding, Adds, C!Move
  <2>2. /\ Cardinality(Adding(u)') \in Nat /\ Cardinality(Tasks) \in Nat
        /\ Cardinality(Adding(u)') + 1 <= Cardinality(Tasks)
    BY <2>1, Fewer
  <2> QED
    BY <1>1, <2>2
<1>10. UnreadBounded'
  <2>1. \A u \in Users : ~Counts(r, u)
    BY <1>4 DEF Counts
  <2>2. \A k \in C!Convs, u \in Users : row'[k][u].unread <= row[k][u].unread
    BY <1>1, <1>2 DEF StoreOK, RowKind
  <2> QED
    BY <1>1, <1>2, <1>4, <1>8, <2>1, <2>2, UnreadStays
<1>11. RowsAgree'
  <2>1. \A u : Owes(task'[t], u)
    BY <1>2, <1>4 DEF Owes, C!Move
  <2> QED
    BY <2>1 DEF RowsAgree
<1>12. clock <= clock' /\ created <= created'
  BY <1>1, <1>2
<1> QED
  BY <1>1, <1>4, <1>5, <1>6, <1>7, <1>8, <1>9, <1>10, <1>11, <1>12, RequestDone

(* The group is deleted.                                                   *)
LEMMA DropGroupRows ==
  ASSUME RowsInv, GroupInv', NEW t \in Tasks, C!DropGroup(t)
  PROVE  RowsInv'
<1>1. /\ task[t].pc = "drop" /\ UNCHANGED <<kind, conv, row, clock, created, muddled, msgs>>
      /\ C!Goto(t, "dropConv")
      /\ group' = [group EXCEPT !.state = "deleted", !.members = [u \in Users |-> 0]]
  BY DEF C!DropGroup, C!At, C!Counters, C!Ghosts
<1>2. /\ RecordOK(task[t], clock, created) /\ DOMAIN task[t] = Fields /\ StoreOK /\ Known(task[t], group)
      /\ DOMAIN task = Tasks /\ IsGroup(group) /\ clock \in Nat /\ created \in Nat
  BY Here
<1>3. kind # "direct"
  BY <1>1, <1>2 DEF Known, StoreOK
<1>4. group'.state = "deleted" /\ group'.admin = group.admin /\ group'.members = [u \in Users |-> 0]
  BY <1>1, <1>2 DEF IsGroup
<1>5. PICK r : C!Move(t, r) /\ r.pc = "dropConv" /\ Turned(r, task[t])
  BY <1>1, <1>2, GotoTurns
<1>6. RecordOK(r, clock', created')
  BY <1>1, <1>2, <1>5 DEF RecordOK, Turned, Based, Syncing, Looping
<1>7. PlaceOK(r, kind', group', conv'.id, row')
  BY <1>4, <1>5 DEF PlaceOK, Creating, Dropping, Looping
<1>8. \A s \in Tasks \ {t} : PlaceOK(task[s], kind', group', conv'.id, row')
  <2> SUFFICES ASSUME NEW s \in Tasks PROVE PlaceOK(task[s], kind', group', conv'.id, row')
    OBVIOUS
  <2>1. PlaceOK(task[s], kind, group, conv.id, row)
    BY Here
  <2> QED
    BY <1>1, <1>4, <2>1 DEF PlaceOK
<1>9. StoreOK'
  BY <1>1, <1>2, <1>3, <1>4 DEF StoreOK, C!Times, RowKind
<1>10. MembersBounded'
  <2>1. \A u \in Users : ~Adds(r, u) /\ group'.members[u] <= group.members[u]
    BY <1>2, <1>4, <1>5 DEF IsGroup, Adds
  <2> QED
    BY <1>5, <2>1, MembersStay
<1>11. UnreadBounded'
  <2>1. \A u \in Users : ~Counts(r, u)
    BY <1>5 DEF Counts
  <2>2. \A k \in C!Convs, u \in Users : row'[k][u].unread <= row[k][u].unread
    BY <1>1, <1>2 DEF StoreOK, RowKind
  <2> QED
    BY <1>1, <1>2, <1>5, <1>9, <2>1, <2>2, UnreadStays
<1>12. RowsAgree'
  BY <1>4 DEF RowsAgree
<1>13. clock <= clock' /\ created <= created'
  BY <1>1, <1>2
<1> QED
  BY <1>1, <1>5, <1>6, <1>7, <1>8, <1>9, <1>10, <1>11, <1>12, <1>13, RequestDone

(* A request starts with an empty record.                                  *)
LEMMA RequestRows ==
  ASSUME RowsInv, GroupInv', NEW t \in Tasks, NEW q \in Requests, C!Request(t, q[1], q[2], q[3])
  PROVE  RowsInv'
<1>1. /\ task[t].pc = "idle" /\ UNCHANGED <<kind, group, conv, row, clock, created, muddled, msgs>>
      /\ kind = "direct" => q[1] \notin C!GroupOps
  BY DEF C!Request, C!At, C!Models, C!Ghosts
<1>2. /\ StoreOK /\ clock \in Nat /\ created \in Nat /\ MaxConvs \in Nat /\ kind \in {"direct", "group"}
      /\ \A m \in msgs' : m.at \in C!Times /\ m.aud \subseteq Users /\ m.seen \subseteq Users
  BY <1>1, Here DEF StoreOK
<1>3. PICK r : /\ C!Move(t, r)
               /\ r = [C!Idle EXCEPT !.op = q[1], !.who = q[2], !.target = q[3],
                                     !.pc = C!FirstStep(q[1]), !.since = cleared[q[2]]]
  BY DEF C!Request
<1>4. /\ r.op = q[1] /\ r.who = q[2] /\ r.target = q[3] /\ r.pc = C!FirstStep(q[1]) /\ r.boss = Nobody
      /\ r.shape = {} /\ r.todo = {} /\ r.k = 0 /\ r.msg = 0 /\ r.now = 0
  BY <1>3 DEF C!Idle
<1>5. /\ q[1] \in {"create", "add", "remove", "leave", "transfer", "delete", "send", "see", "clear",
                   "prefer", "page"}
      /\ q[2] \in Users /\ q[3] \in Users
  BY ConversationsAssumption
<1>6. /\ r.pc \in {"read", "allow", "insert", "say", "mark", "member"}
      /\ r.pc = "insert" => q[1] = "create"
  BY <1>4, <1>5 DEF C!FirstStep
<1>7. RecordOK(r, clock, created)
  BY <1>2, <1>4, <1>5, <1>6 DEF RecordOK, Syncing, Looping, Changes
<1>8. PlaceOK(r, kind, group, conv.id, row)
  BY <1>1, <1>2, <1>4, <1>6 DEF PlaceOK, Creating, Dropping, Looping, C!GroupOps
<1>9. \A u : ~Adds(r, u) /\ ~Counts(r, u) /\ ~Owes(task[t], u)
  BY <1>1, <1>6 DEF Adds, Counts, Owes
<1> QED
  BY <1>1, <1>2, <1>3, <1>7, <1>8, <1>9, QuietStep

(* A step that writes rows, and no other document.                         *)
LEMMA RowStep ==
  ASSUME RowsInv, GroupInv', NEW t \in Tasks, NEW r, C!Move(t, r),
         UNCHANGED <<kind, group, conv, created>>, clock' \in Nat, clock <= clock',
         \A m \in msgs' : m.at \in C!Times' /\ m.aud \subseteq Users /\ m.seen \subseteq Users,
         row' \in [C!Convs -> [Users -> RowKind']],
         \/ kind = "direct" \/ group.state = "deleted"
         \/ \A k \in C!Convs, u \in Users : row[k][u].live => row'[k][u].live,
         RecordOK(r, clock', created), PlaceOK(r, kind, group, conv.id, row'), \A u \in Users : ~Adds(r, u),
         UnreadBounded', RowsAgree'
  PROVE  RowsInv'
<1>1. StoreOK /\ IsGroup(group) /\ created \in Nat /\ kind \in {"direct", "group"}
  BY Here
<1>2. C!Times \subseteq C!Times'
  BY <1>1, TimesGrow
<1>3. StoreOK'
  BY <1>1, <1>2 DEF StoreOK, C!Convs
<1>4. MembersBounded'
  <2>1. \A u \in Users : group'.members[u] <= group.members[u]
    BY <1>1 DEF IsGroup
  <2> QED
    BY <2>1, MembersStay
<1>5. \A s \in Tasks \ {t} : PlaceOK(task[s], kind', group', conv'.id, row')
  <2> SUFFICES ASSUME NEW s \in Tasks PROVE PlaceOK(task[s], kind', group', conv'.id, row')
    OBVIOUS
  <2>1. PlaceOK(task[s], kind, group, conv.id, row) /\ RecordOK(task[s], clock, created)
    BY Here
  <2>2. task[s].pc \in {"syncRow", "put"} => task[s].k \in C!Convs /\ task[s].cur \in Users
    BY <1>1, <2>1 DEF RecordOK, Looping, C!Convs, StoreOK
  <2> QED
    BY <1>1, <2>1, <2>2 DEF PlaceOK
<1>6. PlaceOK(r, kind', group', conv'.id, row') /\ RecordOK(r, clock', created')
  OBVIOUS
<1>7. created <= created'
  BY <1>1
<1> QED
  BY <1>3, <1>4, <1>5, <1>6, <1>7, RequestDone

(* A step that may create the Conversation, and writes no row.             *)
LEMMA ConvStep ==
  ASSUME RowsInv, GroupInv', NEW t \in Tasks, NEW r, C!Move(t, r),
         UNCHANGED <<kind, group, row, muddled, msgs>>, clock' \in Nat, clock <= clock',
         \/ conv'.id = conv.id /\ created' = created
         \/ /\ conv.id = 0 /\ conv'.id = created + 1 /\ created' = created + 1 /\ created < MaxConvs
            /\ (kind = "direct" \/ group.state # "none"),
         conv'.last \in C!Times', RecordOK(r, clock', created'), PlaceOK(r, kind, group, conv'.id, row),
         \A u \in Users : /\ ~Adds(r, u) /\ (Counts(r, u) => Counts(task[t], u))
                          /\ group.state = "live" /\ u \notin muddled /\ Owes(task[t], u) => Owes(r, u)
  PROVE  RowsInv'
<1>1. /\ StoreOK /\ IsGroup(group) /\ created \in Nat /\ kind \in {"direct", "group"}
      /\ MaxConvs \in Nat \ {0}
  BY Here
<1>2. C!Times \subseteq C!Times'
  BY <1>1, TimesGrow
<1>a. row' \in [C!Convs -> [Users -> RowKind']]
  <2>1. row \in [C!Convs -> [Users -> RowKind']]
    BY <1>1, TimesGrow
  <2> QED
    BY <2>1
<1>b. \A m \in msgs' : m.at \in C!Times' /\ m.aud \subseteq Users /\ m.seen \subseteq Users
  BY <1>1, <1>2 DEF StoreOK
<1>c. created' \in 0 .. MaxConvs /\ conv'.id \in 0 .. created' /\ created <= created'
  BY <1>1 DEF StoreOK
<1>d. /\ kind' = "direct" => group'.state = "none"
      /\ kind' = "group" /\ group'.state # "deleted" => conv'.id = created'
      /\ kind' = "group" /\ group'.state = "none" => created' = 0
      /\ group'.admin \in Users \cup {Nobody}
  BY <1>1 DEF StoreOK
<1>3. StoreOK'
  BY <1>a, <1>b, <1>c, <1>d DEF StoreOK, C!Convs
<1>4. MembersBounded'
  <2>1. \A u \in Users : group'.members[u] <= group.members[u]
    BY <1>1 DEF IsGroup
  <2> QED
    BY <2>1, MembersStay
<1>5. \A s \in Tasks \ {t} : PlaceOK(task[s], kind', group', conv'.id, row')
  <2> SUFFICES ASSUME NEW s \in Tasks PROVE PlaceOK(task[s], kind', group', conv'.id, row')
    OBVIOUS
  <2>1. PlaceOK(task[s], kind, group, conv.id, row) /\ RecordOK(task[s], clock, created)
    BY Here
  <2>2. CASE conv'.id = conv.id
    BY <2>1, <2>2
  <2>3. CASE conv.id = 0
    <3>1. kind = "group" /\ group.state # "deleted" => created = 0
      BY <1>1, <2>3 DEF StoreOK
    <3>2. kind = "group" /\ group.state # "deleted" =>
            task[s].pc \notin Looping /\ (task[s].pc = "syncPut" => task[s].k = 0)
      BY <2>1, <3>1 DEF RecordOK
    <3> QED
      BY <1>1, <2>1, <3>2 DEF PlaceOK, Looping
  <2> QED
    BY <2>2, <2>3
<1>6. PlaceOK(r, kind', group', conv'.id, row')
  OBVIOUS
<1>7. UnreadBounded'
  <2>1. \A k \in C!Convs, u \in Users : row'[k][u].unread <= row[k][u].unread
    BY <1>1 DEF StoreOK, RowKind
  <2> QED
    BY <1>3, <2>1, UnreadStays
<1>8. RowsAgree'
  <2>1. \A u \in Users : Agrees(u) => Agrees(u)'
    BY DEF Agrees, C!Members
  <2> QED
    BY <2>1, RowsStay
<1> QED
  BY <1>3, <1>4, <1>5, <1>6, <1>7, <1>8, <1>c, RequestDone

(* A message is written: it counts for everybody until it has been.        *)
LEMMA SaveRows ==
  ASSUME RowsInv, GroupInv', NEW t \in Tasks, C!Save(t)
  PROVE  RowsInv'
<1>1. /\ task[t].pc = "say" /\ UNCHANGED <<kind, group, conv, row, created, muddled>>
      /\ clock' = clock + 1
      /\ \A m \in msgs' \ msgs : m.at = clock' /\ m.aud = C!Members /\ m.seen \subseteq {task[t].who}
  BY DEF C!Save, C!At, C!Models, C!Ghosts
<1>2. /\ RecordOK(task[t], clock, created) /\ DOMAIN task[t] = Fields /\ StoreOK /\ DOMAIN task = Tasks
      /\ clock \in Nat /\ created \in Nat /\ clock' \in Nat /\ clock <= clock'
  BY <1>1, Here
<1>3. PICK r : C!Move(t, r) /\ r = [task[t] EXCEPT !.pc = "shape", !.msg = clock + 1]
  BY DEF C!Save
<1>4. /\ r.pc = "shape" /\ r.msg = clock' /\ r.op = task[t].op /\ r.who = task[t].who
      /\ r.target = task[t].target /\ r.boss = task[t].boss /\ r.shape = task[t].shape
      /\ r.k = task[t].k /\ r.now = task[t].now /\ r.todo = task[t].todo
  BY <1>1, <1>2, <1>3 DEF Fields, C!Idle
<1>5. RecordOK(r, clock', created)
  BY <1>1, <1>2, <1>4 DEF RecordOK, Syncing, Looping
<1>6. PlaceOK(r, kind, group, conv.id, row')
  BY <1>4 DEF PlaceOK, Creating, Dropping, Looping
<1>7. \A u : ~Adds(r, u) /\ ~Owes(task[t], u)
  BY <1>1, <1>4 DEF Adds, Owes
<1>8. \A m \in msgs' : m.at \in C!Times' /\ m.aud \subseteq Users /\ m.seen \subseteq Users
  <2>1. C!Members \subseteq Users /\ task[t].who \in Users
    BY <1>1, <1>2, ConversationsAssumption DEF C!Members, RecordOK
  <2>2. clock' \in C!Times' /\ C!Times \subseteq C!Times'
    BY <1>2 DEF C!Times
  <2> QED
    BY <1>1, <1>2, <2>1, <2>2 DEF StoreOK
<1>9. row' \in [C!Convs -> [Users -> RowKind']]
  BY <1>1, <1>2, TimesGrow
<1>10. UnreadBounded'
  <2> SUFFICES ASSUME NEW u \in Users, NEW k \in C!Convs
               PROVE  row'[k][u].unread + Cardinality(Counting(u)') <= clock'
    BY DEF UnreadBounded
  <2>1. Counting(u) \subseteq Tasks /\ Counting(u)' \ {t} \subseteq Counting(u) /\ Counting(u)' \subseteq Tasks
    BY <1>2, <1>3 DEF Counting, C!Move
  <2>2. /\ Cardinality(Counting(u)') \in Nat /\ Cardinality(Counting(u)) \in Nat
        /\ Cardinality(Counting(u)') <= Cardinality(Counting(u)) + 1
    <3>1. IsFiniteSet(Counting(u)' \ {t}) /\ IsFiniteSet(Counting(u))
      BY <2>1, FS_Subset, ConversationsAssumption
    <3>2. /\ Cardinality(Counting(u)' \ {t}) \in Nat /\ Cardinality(Counting(u)) \in Nat
          /\ Cardinality(Counting(u)' \ {t}) <= Cardinality(Counting(u))
      BY <2>1, Fewer
    <3>3. IsFiniteSet(Counting(u)')
      BY <2>1, FS_Subset, ConversationsAssumption
    <3>4. Cardinality(Counting(u)' \ {t}) = IF t \in Counting(u)' THEN Cardinality(Counting(u)') - 1
                                            ELSE Cardinality(Counting(u)')
      BY <3>3, FS_RemoveElement
    <3>5. Cardinality(Counting(u)') \in Nat
      BY <3>3, FS_CardinalityType
    <3> QED
      BY <3>2, <3>4, <3>5
  <2>3. row[k][u].unread + Cardinality(Counting(u)) <= clock /\ row[k][u].unread \in Nat
    BY <1>2 DEF RowsInv, UnreadBounded, StoreOK, RowKind
  <2> QED
    BY <1>1, <1>2, <2>2, <2>3
<1>11. RowsAgree'
  <2>1. \A u \in Users : Agrees(u) => Agrees(u)'
    BY <1>1 DEF Agrees, C!Members
  <2> QED
    BY <1>1, <1>3, <1>7, <2>1, RowsStay
<1>12. \A k \in C!Convs, u \in Users : row[k][u].live => row'[k][u].live
  BY <1>1
<1> QED
  BY <1>1, <1>2, <1>3, <1>5, <1>6, <1>7, <1>8, <1>9, <1>10, <1>11, <1>12, RowStep

(* A message creates the Conversation or moves it up.                      *)
LEMMA UpsertRows ==
  ASSUME RowsInv, GroupInv', NEW t \in Tasks, C!Upsert(t)
  PROVE  RowsInv'
<1>1. /\ task[t].pc = "upsert" /\ UNCHANGED <<kind, group, row, muddled, msgs, clock>>
      /\ conv'.last = task[t].msg
      /\ conv'.id = IF conv.id = 0 THEN created + 1 ELSE conv.id
      /\ conv'.id <= MaxConvs /\ created' = IF conv.id = 0 THEN created + 1 ELSE created
  BY DEF C!Upsert, C!At, C!Ghosts
<1>2. /\ RecordOK(task[t], clock, created) /\ PlaceOK(task[t], kind, group, conv.id, row)
      /\ DOMAIN task[t] = Fields /\ StoreOK /\ clock \in Nat /\ created \in Nat /\ MaxConvs \in Nat
  BY Here
<1>3. /\ \/ conv'.id = conv.id /\ created' = created
         \/ /\ conv.id = 0 /\ conv'.id = created + 1 /\ created' = created + 1 /\ created < MaxConvs
            /\ kind = "direct" \/ group.state # "none"
      /\ conv'.id \in 1 .. created' /\ created' \in Nat
  BY <1>1, <1>2 DEF StoreOK, PlaceOK, Creating
<1>4. conv'.last \in C!Times' /\ clock' \in Nat /\ clock <= clock'
  BY <1>1, <1>2 DEF C!Times, RecordOK
<1>5. \A u : ~Owes(task[t], u) /\ ~Adds(task[t], u) /\ Counts(task[t], u)
  BY <1>1 DEF Owes, Adds, Counts
<1>6. CASE C!Enter(t, C!AfterMessage(task[t].op))
  <2>1. PICK r : Calm(t, r)
    BY <1>1, <1>6, EndingsCalm
  <2>2. /\ RecordOK(r, clock', created') /\ PlaceOK(r, kind, group, conv'.id, row) /\ C!Move(t, r)
        /\ \A u : ~Adds(r, u) /\ ~Counts(r, u)
    BY <1>3, <1>4, <2>1, CalmHolds DEF Calm
  <2> QED
    BY <1>1, <1>3, <1>4, <1>5, <2>2, ConvStep
<1>7. CASE task[t].shape # {} /\ C!Move(t, [task[t] EXCEPT !.k = conv'.id, !.todo = task[t].shape, !.pc = "find"])
  <2>1. PICK r : C!Move(t, r) /\ r = [task[t] EXCEPT !.k = conv'.id, !.todo = task[t].shape, !.pc = "find"]
    BY <1>7
  <2>2. /\ Based(r, task[t]) /\ r.pc = "find" /\ r.boss = task[t].boss /\ r.shape = task[t].shape
        /\ r.k = conv'.id /\ r.now = task[t].now /\ r.todo = task[t].shape
    BY <1>2, <2>1 DEF Based, Fields, C!Idle
  <2>3. RecordOK(r, clock', created')
    BY <1>1, <1>2, <1>3, <1>7, <2>2 DEF RecordOK, Based, Syncing, Looping
  <2>4. PlaceOK(r, kind, group, conv'.id, row)
    BY <2>2 DEF PlaceOK, Creating, Dropping, Looping
  <2>5. \A u : ~Adds(r, u)
    BY <2>2 DEF Adds
  <2> QED
    BY <1>1, <1>3, <1>4, <1>5, <2>1, <2>3, <2>4, <2>5, ConvStep
<1>8. conv'.id = IF conv.id = 0 THEN created + 1 ELSE conv.id
  BY <1>1
<1> QED
  BY <1>6, <1>7, <1>8 DEF C!Upsert

(* The preferences of a direct chat create its Conversation.               *)
LEMMA PrefNewRows ==
  ASSUME RowsInv, GroupInv', NEW t \in Tasks, C!PrefNew(t)
  PROVE  RowsInv'
<1>1. task[t].pc = "prefNew" /\ UNCHANGED <<kind, group, row, muddled, msgs, clock>>
  BY DEF C!PrefNew, C!At, C!Ghosts
<1>2. /\ RecordOK(task[t], clock, created) /\ PlaceOK(task[t], kind, group, conv.id, row)
      /\ DOMAIN task[t] = Fields /\ StoreOK /\ clock \in Nat /\ created \in Nat /\ MaxConvs \in Nat
      /\ \A m \in msgs' : m.at \in C!Times /\ m.aud \subseteq Users /\ m.seen \subseteq Users
  BY <1>1, Here DEF StoreOK
<1>3. kind = "direct" /\ \A u : ~Owes(task[t], u)
  BY <1>1, <1>2 DEF PlaceOK, Owes
<1>4. CASE conv.id # 0
  <2>1. UNCHANGED <<conv, created>> /\ \E r : Calm(t, r)
    BY <1>4, StopCalms DEF C!PrefNew
  <2> QED
    BY <1>1, <1>2, <1>3, <2>1, QuietCalm
<1>5. CASE conv.id = 0
  <2>1. /\ created < MaxConvs /\ created' = created + 1 /\ conv' = [id |-> created + 1, last |-> 0]
        /\ C!Move(t, [task[t] EXCEPT !.k = created + 1, !.pc = "prefRow"])
    BY <1>5 DEF C!PrefNew
  <2>2. PICK r : C!Move(t, r) /\ r = [task[t] EXCEPT !.k = created + 1, !.pc = "prefRow"]
    BY <2>1
  <2>3. /\ Based(r, task[t]) /\ r.pc = "prefRow" /\ r.boss = task[t].boss /\ r.shape = task[t].shape
        /\ r.k = created + 1 /\ r.now = task[t].now /\ r.todo = task[t].todo
    BY <1>2, <2>2 DEF Based, Fields, C!Idle
  <2>4. RecordOK(r, clock', created')
    BY <1>1, <1>2, <2>1, <2>3 DEF RecordOK, Based, Syncing, Looping
  <2>5. PlaceOK(r, kind, group, conv'.id, row)
    BY <1>3, <2>3 DEF PlaceOK, Creating, Dropping, Looping
  <2>6. \A u : ~Adds(r, u) /\ ~Counts(r, u)
    BY <2>3 DEF Adds, Counts
  <2>7. conv'.id = created + 1 /\ conv'.last \in C!Times' /\ clock' \in Nat /\ clock <= clock'
    BY <1>1, <1>2, <2>1 DEF C!Times
  <2> QED
    BY <1>1, <1>3, <1>5, <2>1, <2>2, <2>4, <2>5, <2>6, <2>7, ConvStep
<1> QED
  BY <1>4, <1>5

(* A sync that is refused leaves every row muddled.                        *)
LEMMA RefusedRows ==
  ASSUME RowsInv, GroupInv', NEW t \in Tasks, NEW r, Calm(t, r), muddled' = Users,
         UNCHANGED <<kind, group, conv, row, clock, created, msgs>>
  PROVE  RowsInv'
<1>1. StoreOK /\ clock \in Nat /\ created \in Nat
  BY Here
<1>2. /\ clock' \in Nat /\ clock <= clock' /\ row' \in [C!Convs -> [Users -> RowKind']]
      /\ \A m \in msgs' : m.at \in C!Times' /\ m.aud \subseteq Users /\ m.seen \subseteq Users
      /\ \A k \in C!Convs, u \in Users : row[k][u].live => row'[k][u].live
  BY <1>1 DEF StoreOK, C!Times, RowKind
<1>3. /\ RecordOK(r, clock', created) /\ PlaceOK(r, kind, group, conv.id, row') /\ C!Move(t, r)
      /\ \A u : ~Adds(r, u) /\ ~Counts(r, u)
  BY <1>1, CalmHolds DEF Calm
<1>4. UnreadBounded'
  <2>1. \A k \in C!Convs, u \in Users : row'[k][u].unread <= row[k][u].unread
    BY <1>1 DEF StoreOK, RowKind
  <2>2. StoreOK'
    BY <1>1 DEF StoreOK, C!Times, RowKind
  <2> QED
    BY <1>2, <1>3, <2>1, <2>2, UnreadStays
<1>5. RowsAgree'
  BY DEF RowsAgree
<1> QED
  BY <1>2, <1>3, <1>4, <1>5, RowStep

(* A sync creates the Conversation, unless another request has.            *)
LEMMA SyncPutRows ==
  ASSUME RowsInv, GroupInv', NEW t \in Tasks, C!SyncPut(t)
  PROVE  RowsInv'
<1>1. task[t].pc = "syncPut" /\ UNCHANGED <<kind, group, row, msgs>>
  BY DEF C!SyncPut, C!At
<1>2. /\ RecordOK(task[t], clock, created) /\ PlaceOK(task[t], kind, group, conv.id, row)
      /\ DOMAIN task[t] = Fields /\ StoreOK /\ clock \in Nat /\ created \in Nat /\ MaxConvs \in Nat
  BY Here
<1>3. CASE task[t].k = 0 /\ conv.id # 0
  <2>1. C!Enter(t, C!AfterSync(task[t].op)) /\ muddled' = Users /\ UNCHANGED <<conv, created, clock>>
    BY <1>3 DEF C!SyncPut
  <2>2. PICK r : Calm(t, r)
    BY <1>1, <2>1, EndingsCalm
  <2> QED
    BY <1>1, <2>1, <2>2, RefusedRows
<1>4. CASE ~(task[t].k = 0 /\ conv.id # 0)
  <2>1. PICK r : /\ C!Move(t, r)
                 /\ r = [task[t] EXCEPT !.k = IF @ = 0 THEN created + 1 ELSE @, !.now = clock + 1,
                           !.todo = task[t].shape, !.pc = IF task[t].shape = {} THEN "syncLeave" ELSE "syncFind"]
    BY <1>4 DEF C!SyncPut
  <2>2. /\ Based(r, task[t]) /\ r.pc = (IF task[t].shape = {} THEN "syncLeave" ELSE "syncFind")
        /\ r.boss = task[t].boss /\ r.shape = task[t].shape /\ r.now = clock + 1 /\ r.todo = task[t].shape
        /\ r.k = IF task[t].k = 0 THEN created + 1 ELSE task[t].k
    BY <1>2, <2>1 DEF Based, Fields, C!Idle
  <2>3. /\ clock' = clock + 1 /\ UNCHANGED muddled /\ conv'.last \in {conv.last, 0}
        /\ \/ task[t].k # 0 /\ conv'.id = conv.id /\ created' = created
           \/ /\ task[t].k = 0 /\ conv.id = 0 /\ conv'.id = created + 1 /\ created' = created + 1
              /\ created < MaxConvs
    BY <1>4 DEF C!SyncPut
  <2>4. kind = "direct" \/ group.state # "none"
    BY <1>1, <1>2 DEF PlaceOK, Creating
  <2>5. clock' \in Nat /\ clock <= clock' /\ created' \in Nat /\ created <= created' /\ created' <= MaxConvs
    BY <1>2, <2>3 DEF StoreOK
  <2>6. conv'.last \in C!Times'
    BY <1>2, <2>3, <2>5 DEF StoreOK, C!Times
  <2>7. r.k \in 1 .. created' /\ r.k \in 0 .. MaxConvs
    BY <1>1, <1>2, <2>2, <2>3, <2>5 DEF RecordOK
  <2>8. RecordOK(r, clock', created')
    BY <1>1, <1>2, <2>2, <2>3, <2>5, <2>7 DEF RecordOK, Based, Syncing, Looping
  <2>9. PlaceOK(r, kind, group, conv'.id, row)
    BY <1>1, <1>2, <2>2, <2>3 DEF PlaceOK, Creating, Dropping, Looping
  <2>10. \A u : ~Adds(r, u) /\ ~Counts(r, u) /\ Owes(r, u)
    BY <2>2 DEF Adds, Counts, Owes
  <2> QED
    BY <1>1, <2>1, <2>3, <2>4, <2>5, <2>6, <2>8, <2>9, <2>10, ConvStep
<1> QED
  BY <1>3, <1>4

(* The row as a sync writes it.                                            *)
LEMMA SyncedRow ==
  ASSUME NEW old \in RowKind, NEW found, NEW role \in C!Roles, NEW now \in C!Times, 0 \in C!Times
  PROVE  LET new == C!Synced(old, found, role, now) IN
         /\ new \in RowKind /\ (old.live \/ ~found.live => new.live) /\ new.left = 0
         /\ new.role = role /\ new.unread <= old.unread
<1> DEFINE new == C!Synced(old, found, role, now)
<1>1. old.live \in BOOLEAN /\ old.unread \in Nat
  BY DEF RowKind
<1>2. CASE ~found.live
  <2>1. new = [live |-> TRUE, role |-> role, joined |-> now, left |-> 0, deleted |-> 0, last |-> 0,
               unread |-> 0]
    BY <1>2 DEF C!Synced, C!NoRow
  <2>2. new \in RowKind
    BY <2>1 DEF RowKind
  <2> QED
    BY <1>1, <1>2, <2>1, <2>2
<1>3. CASE found.live
  <2>1. PICK at \in C!Times : new = [old EXCEPT !.role = role, !.left = 0, !.joined = at]
    <3>1. new = [old EXCEPT !.role = role, !.left = 0, !.joined = IF found.left # 0 THEN now ELSE old.joined]
      BY <1>3 DEF C!Synced, RowKind
    <3>2. (IF found.left # 0 THEN now ELSE old.joined) \in C!Times
      BY DEF RowKind
    <3> QED
      BY <3>1, <3>2
  <2>2. new \in RowKind /\ new.live = old.live /\ new.left = 0 /\ new.role = role /\ new.unread = old.unread
    BY <2>1 DEF RowKind
  <2> QED
    BY <1>1, <1>3, <2>2
<1> QED
  BY <1>2, <1>3

(* A sync writes a row: it is the current one, or the user is muddled.     *)
LEMMA SyncRowRows ==
  ASSUME RowsInv, GroupInv', NEW t \in Tasks, C!SyncRow(t)
  PROVE  RowsInv'
<1>1. task[t].pc = "syncRow" /\ UNCHANGED <<kind, group, conv, msgs, clock, created>>
  BY DEF C!SyncRow, C!At, C!Counters
<1>2. /\ RecordOK(task[t], clock, created) /\ PlaceOK(task[t], kind, group, conv.id, row)
      /\ DOMAIN task[t] = Fields /\ StoreOK /\ clock \in Nat /\ created \in Nat
      /\ kind \in {"direct", "group"}
  BY Here
<1> DEFINE q == task[t]  u == q.cur  old == row[q.k][u]  rest == q.todo \ {u}
<1>3. CASE ~q.found.live /\ old.live
  <2>1. C!Enter(t, C!AfterSync(q.op)) /\ muddled' = Users /\ UNCHANGED row
    BY <1>3 DEF C!SyncRow
  <2>2. PICK r : Calm(t, r)
    BY <1>1, <2>1, EndingsCalm
  <2> QED
    BY <1>1, <2>1, <2>2, RefusedRows
<1>4. CASE ~(~q.found.live /\ old.live)
  <2>1. PICK r : /\ C!Move(t, r)
                 /\ r = [q EXCEPT !.todo = rest, !.cur = Nobody, !.found = C!NoRow,
                                  !.pc = IF rest = {} THEN "syncLeave" ELSE "syncFind"]
    BY <1>4 DEF C!SyncRow
  <2>2. /\ Based(r, q) /\ r.pc = (IF rest = {} THEN "syncLeave" ELSE "syncFind")
        /\ r.boss = q.boss /\ r.shape = q.shape /\ r.k = q.k /\ r.now = q.now /\ r.todo = rest
    BY <1>2, <2>1 DEF Based, Fields, C!Idle
  <2>3. /\ row' = IF q.found.live /\ ~old.live THEN row
                  ELSE [row EXCEPT ![q.k][u] = C!Synced(old, q.found, C!RoleIn(q.boss, u), q.now)]
        /\ muddled' = IF C!Fresh(q, u) THEN muddled \ {u} ELSE muddled \cup {u}
    BY <1>4 DEF C!SyncRow
  <2>4. u \in Users /\ u \in q.todo /\ q.k \in C!Convs /\ q.shape \subseteq Users /\ q.now \in C!Times
    BY <1>1, <1>2 DEF RecordOK, Looping, StoreOK, C!Convs, C!Times
  <2>5. old \in RowKind /\ row \in [C!Convs -> [Users -> RowKind]]
    BY <1>2, <2>4 DEF StoreOK
  <2>6. RecordOK(r, clock', created)
    BY <1>1, <1>2, <2>2 DEF RecordOK, Based, Syncing, Looping
  <2>7. PlaceOK(r, kind, group, conv.id, row')
    BY <1>1, <1>2, <2>2 DEF PlaceOK, Creating, Dropping, Looping
  <2>8. \A v : ~Adds(r, v) /\ ~Counts(r, v) /\ (v # u /\ Owes(q, v) => Owes(r, v))
    BY <1>1, <2>2 DEF Adds, Counts, Owes
  <2> DEFINE new == C!Synced(old, q.found, C!RoleIn(q.boss, u), q.now)
  <2>9. /\ new \in RowKind /\ (old.live \/ ~q.found.live => new.live) /\ new.left = 0
        /\ new.role = C!RoleIn(q.boss, u) /\ new.unread <= old.unread
    <3>1. C!RoleIn(q.boss, u) \in C!Roles /\ 0 \in C!Times
      BY <1>2 DEF C!RoleIn, C!Roles, C!Times
    <3> QED
      BY <2>4, <2>5, <3>1, SyncedRow
  <2> HIDE DEF new
  <2>10. /\ row' \in [C!Convs -> [Users -> RowKind]]
         /\ \A k \in C!Convs, v \in Users :
              \/ row'[k][v] = row[k][v]
              \/ k = q.k /\ v = u /\ row'[k][v] = new
    <3>1. CASE q.found.live /\ ~old.live
      BY <2>3, <2>5, <3>1
    <3>2. CASE ~(q.found.live /\ ~old.live)
      <4>1. row' = [row EXCEPT ![q.k][u] = new]
        BY <2>3, <3>2 DEF new
      <4> QED
        BY <2>4, <2>5, <2>9, <4>1, RowWritten
    <3> QED
      BY <3>1, <3>2
  <2>11. row' \in [C!Convs -> [Users -> RowKind']]
    BY <1>1, <2>10 DEF RowKind, C!Times
  <2>a. C!Move(t, r) /\ clock <= clock' /\ clock' \in Nat
    BY <1>1, <1>2, <2>1
  <2>12. \A k \in C!Convs, v \in Users : row[k][v].live => row'[k][v].live
    BY <2>9, <2>10
  <2>13. \A m \in msgs' : m.at \in C!Times' /\ m.aud \subseteq Users /\ m.seen \subseteq Users
    BY <1>1, <1>2 DEF StoreOK, C!Times
  <2>14. UnreadBounded'
    <3>1. \A k \in C!Convs, v \in Users : row'[k][v].unread <= row[k][v].unread
      BY <2>5, <2>9, <2>10 DEF RowKind
    <3>2. StoreOK'
      BY <1>1, <1>2, <2>11 DEF StoreOK, C!Times
    <3> QED
      BY <2>a, <2>8, <3>1, <3>2, UnreadStays
  <2>15. RowsAgree'
    <3> SUFFICES ASSUME NEW v \in Users, group.state = "live", v \notin muddled'
                 PROVE  \/ Owes(r, v) \/ Agrees(v)'
                        \/ v \notin muddled /\ ~Owes(q, v) /\ (Agrees(v) => Agrees(v)')
      BY <1>1, <2>1, RowsStay
    <3>1. q.k = conv.id /\ conv.id \in C!Convs /\ (q.found.live => old.live)
      BY <1>1, <1>2, <2>4 DEF PlaceOK, StoreOK, Looping
    <3>2. CASE v = u
      <4>1. u \in C!Members /\ q.boss = group.admin
        BY <2>3, <3>2 DEF C!Fresh
      <4>a. C!Members' = C!Members
        BY <1>1 DEF C!Members
      <4>2. row'[conv.id][u] = new
        BY <2>3, <2>4, <2>5, <2>9, <3>1, RowWritten DEF new
      <4>3. new.live /\ new.left = 0 /\ new.role = C!RoleIn(group.admin, u)
        BY <2>9, <3>1, <4>1
      <4> QED
        BY <1>1, <3>1, <3>2, <4>1, <4>a, <4>2, <4>3 DEF Agrees, C!Convs
    <3>3. CASE v # u
      <4>1. v \notin muddled /\ row'[conv.id][v] = row[conv.id][v]
        BY <2>3, <2>10, <3>1, <3>3
      <4>2. Agrees(v) => Agrees(v)'
        BY <1>1, <4>1 DEF Agrees, C!Members
      <4> QED
        BY <2>8, <3>3, <4>1, <4>2
    <3> QED
      BY <3>2, <3>3
  <2> QED
    BY <1>1, <2>a, <2>6, <2>7, <2>8, <2>11, <2>12, <2>13, <2>14, <2>15, RowStep
<1> QED
  BY <1>3, <1>4

(* The rows of the users outside the copy are marked as left.              *)
LEMMA SyncLeaveRows ==
  ASSUME RowsInv, GroupInv', NEW t \in Tasks, C!SyncLeave(t)
  PROVE  RowsInv'
<1>1. task[t].pc = "syncLeave" /\ UNCHANGED <<kind, group, conv, msgs, clock, created>>
  BY DEF C!SyncLeave, C!At, C!Counters
<1>2. /\ RecordOK(task[t], clock, created) /\ PlaceOK(task[t], kind, group, conv.id, row)
      /\ StoreOK /\ clock \in Nat /\ created \in Nat /\ kind \in {"direct", "group"}
  BY Here
<1> DEFINE q == task[t]  out == Users \ q.shape
           Then(v) == IF C!Leaves(q, v) THEN [row[q.k][v] EXCEPT !.left = q.now, !.role = "none"]
                      ELSE row[q.k][v]
<1>3. /\ row' = [row EXCEPT ![q.k] = [v \in Users |-> Then(v)]]
      /\ muddled' = (muddled \ (out \ C!Members)) \cup (out \cap C!Members)
      /\ C!Enter(t, C!AfterSync(q.op))
  BY DEF C!SyncLeave
<1>4. PICK r : Calm(t, r)
  BY <1>1, <1>3, EndingsCalm
<1>5. /\ RecordOK(r, clock', created) /\ PlaceOK(r, kind, group, conv.id, row') /\ C!Move(t, r)
      /\ \A v : ~Adds(r, v) /\ ~Counts(r, v)
  BY <1>1, <1>2, <1>4, CalmHolds DEF Calm
<1>6. q.k \in C!Convs /\ q.now \in C!Times /\ q.now # 0 /\ row \in [C!Convs -> [Users -> RowKind]]
  BY <1>1, <1>2 DEF RecordOK, Looping, StoreOK, C!Convs, C!Times
<1>a. \A v \in Users : row[q.k][v] \in RowKind
  BY <1>6
<1>7. \A v \in Users : /\ Then(v) \in RowKind /\ Then(v).live = row[q.k][v].live
                       /\ Then(v).unread = row[q.k][v].unread
                       /\ v \notin q.shape => ~(Then(v).live /\ Then(v).left = 0)
                       /\ v \in q.shape => Then(v) = row[q.k][v]
  BY <1>6, <1>a DEF RowKind, C!Leaves, C!Roles
<1> HIDE DEF Then
<1>8. /\ row' \in [C!Convs -> [Users -> RowKind]]
      /\ \A k \in C!Convs, v \in Users : row'[k][v] = IF k = q.k THEN Then(v) ELSE row[k][v]
  BY <1>3, <1>6, <1>7
<1>9. row' \in [C!Convs -> [Users -> RowKind']]
  BY <1>1, <1>8 DEF RowKind, C!Times
<1>10. \A k \in C!Convs, v \in Users : row[k][v].live => row'[k][v].live
  BY <1>7, <1>8
<1>11. \A m \in msgs' : m.at \in C!Times' /\ m.aud \subseteq Users /\ m.seen \subseteq Users
  BY <1>1, <1>2 DEF StoreOK, C!Times
<1>12. UnreadBounded'
  <2>1. \A k \in C!Convs, v \in Users : row'[k][v].unread <= row[k][v].unread
    <3>1. \A k \in C!Convs, v \in Users : row[k][v].unread \in Nat /\ row'[k][v].unread = row[k][v].unread
      BY <1>6, <1>7, <1>8 DEF RowKind
    <3> QED
      BY <3>1
  <2>2. StoreOK'
    BY <1>1, <1>2, <1>9 DEF StoreOK, C!Times
  <2> QED
    BY <1>1, <1>2, <1>5, <2>1, <2>2, UnreadStays
<1>13. RowsAgree'
  <2> SUFFICES ASSUME NEW v \in Users, group.state = "live", v \notin muddled'
               PROVE  \/ Agrees(v)'
                      \/ v \notin muddled /\ ~Owes(q, v) /\ (Agrees(v) => Agrees(v)')
    BY <1>1, <1>5, RowsStay
  <2>1. q.k = conv.id /\ conv.id \in C!Convs /\ conv.id # 0
    BY <1>1, <1>2, <1>6 DEF PlaceOK, StoreOK, Looping, C!Convs
  <2>2. row'[conv.id][v] = Then(v)
    BY <1>8, <2>1
  <2>3. CASE v \in q.shape
    <3>1. v \notin muddled /\ ~Owes(q, v)
      BY <1>1, <1>3, <2>3 DEF Owes
    <3>2. Agrees(v) => Agrees(v)'
      BY <1>1, <1>7, <2>1, <2>2, <2>3 DEF Agrees, C!Members
    <3> QED
      BY <3>1, <3>2
  <2>4. CASE v \notin q.shape
    <3>1. v \notin C!Members
      BY <1>3, <2>4
    <3> QED
      BY <1>1, <1>7, <2>1, <2>2, <2>4, <3>1 DEF Agrees, C!Members
  <2> QED
    BY <2>3, <2>4
<1> QED
  BY <1>1, <1>2, <1>5, <1>9, <1>10, <1>11, <1>12, <1>13, RowStep

Counted(p, at, one) == [p EXCEPT !.last = at, !.unread = @ + one]
Begun(role, at, one) ==
  [C!NoRow EXCEPT !.live = TRUE, !.role = role, !.joined = at, !.last = at, !.unread = one]
(* The row as a message writes it.                                         *)
LEMMA PutRow ==
  ASSUME NEW old \in RowKind, NEW role \in C!Roles, NEW at \in C!Times, 0 \in C!Times, NEW one \in {0, 1}
  PROVE  /\ Counted(old, at, one) \in RowKind /\ Counted(old, at, one).live = old.live
         /\ Counted(old, at, one).left = old.left /\ Counted(old, at, one).role = old.role
         /\ Counted(old, at, one).unread <= old.unread + 1
         /\ Begun(role, at, one) \in RowKind /\ Begun(role, at, one).live /\ Begun(role, at, one).left = 0
         /\ Begun(role, at, one).role = role /\ Begun(role, at, one).unread <= old.unread + 1
<1>1. old.unread \in Nat
  BY DEF RowKind
<1>2. /\ old.unread + one \in Nat /\ one \in Nat
      /\ old.unread + one <= old.unread + 1 /\ one <= old.unread + 1
  BY <1>1
<1> DEFINE up == Counted(old, at, one)  new == Begun(role, at, one)
<1>3. up \in RowKind /\ up.live = old.live /\ up.left = old.left /\ up.role = old.role
      /\ up.unread = old.unread + one
  BY <1>1, <1>2 DEF RowKind, Counted
<1>4. new \in RowKind /\ new.live /\ new.left = 0 /\ new.role = role /\ new.unread = one
  BY <1>2 DEF C!NoRow, RowKind, C!Roles, Begun
<1> QED
  BY <1>2, <1>3, <1>4

(* A message writes a row: a new one is the current one, or the user is    *)
(* muddled.                                                                *)
LEMMA PutRows ==
  ASSUME RowsInv, GroupInv', NEW t \in Tasks, C!Put(t)
  PROVE  RowsInv'
<1>1. task[t].pc = "put" /\ UNCHANGED <<kind, group, conv, msgs, clock, created>>
  BY DEF C!Put, C!At, C!Counters
<1>2. /\ RecordOK(task[t], clock, created) /\ PlaceOK(task[t], kind, group, conv.id, row)
      /\ DOMAIN task[t] = Fields /\ StoreOK /\ clock \in Nat /\ created \in Nat /\ DOMAIN task = Tasks
      /\ kind \in {"direct", "group"}
      /\ \A m \in msgs' : m.at \in C!Times /\ m.aud \subseteq Users /\ m.seen \subseteq Users
  BY <1>1, Here DEF StoreOK
<1>a. \A v : ~Owes(task[t], v)
  BY <1>1 DEF Owes
<1> DEFINE q == task[t]  me == q.cur  old == row[q.k][me]  one == IF C!HasRead(q, me) THEN 0 ELSE 1
<1>3. CASE ~q.found.live /\ old.live
  <2>1. C!Enter(t, C!AfterMessage(q.op)) /\ UNCHANGED <<row, muddled>>
    BY <1>3 DEF C!Put
  <2>2. PICK r : Calm(t, r)
    BY <1>1, <2>1, EndingsCalm
  <2> QED
    BY <1>1, <1>2, <1>a, <2>1, <2>2, QuietCalm
<1>4. CASE ~(~q.found.live /\ old.live)
  <2>1. me \in Users /\ me \in q.todo /\ q.k \in C!Convs /\ q.msg \in C!Times /\ 0 \in C!Times
        /\ q.boss \in Users \cup {Nobody}
    BY <1>1, <1>2 DEF RecordOK, Looping, StoreOK, C!Convs, C!Times
  <2>2. old \in RowKind /\ row \in [C!Convs -> [Users -> RowKind]] /\ one \in {0, 1}
    BY <1>2, <2>1 DEF StoreOK
  <2> DEFINE new == IF q.found.live THEN Counted(old, q.msg, one)
                    ELSE Begun(C!RoleIn(q.boss, me), q.msg, one)
  <2>3. /\ row' = IF q.found.live /\ ~old.live THEN row ELSE [row EXCEPT ![q.k][me] = new]
        /\ muddled' = IF ~q.found.live /\ ~C!Fresh(q, me) THEN muddled \cup {me} ELSE muddled
        /\ C!Onward(t, q.todo \ {me})
    BY <1>4 DEF C!Put, Counted, Begun
  <2>4. C!RoleIn(q.boss, me) \in C!Roles
    BY DEF C!RoleIn, C!Roles
  <2>5. /\ new \in RowKind /\ new.unread <= old.unread + 1
        /\ q.found.live => new.live = old.live /\ new.left = old.left /\ new.role = old.role
        /\ ~q.found.live => new.live /\ new.left = 0 /\ new.role = C!RoleIn(q.boss, me)
    <3> DEFINE role == C!RoleIn(q.boss, me)  up == Counted(old, q.msg, one)  n == Begun(role, q.msg, one)
    <3>1. old \in RowKind /\ one \in {0, 1} /\ role \in C!Roles /\ q.msg \in C!Times /\ 0 \in C!Times
      BY <2>1, <2>2, <2>4
    <3> HIDE DEF one, role, old
    <3>2. up \in RowKind /\ up.live = old.live /\ up.left = old.left /\ up.role = old.role
          /\ up.unread <= old.unread + 1
      BY <3>1, PutRow
    <3>3. n \in RowKind /\ n.live /\ n.left = 0 /\ n.role = role /\ n.unread <= old.unread + 1
      BY <3>1, PutRow
    <3> QED
      BY <3>2, <3>3 DEF role
  <2> HIDE DEF new, one
  <2>6. /\ row' \in [C!Convs -> [Users -> RowKind]]
        /\ \A k \in C!Convs, v \in Users :
              \/ row'[k][v] = row[k][v]
              \/ k = q.k /\ v = me /\ row'[k][v] = new
        /\ row'[q.k][me] = IF q.found.live /\ ~old.live THEN old ELSE new
    <3>1. CASE q.found.live /\ ~old.live
      BY <2>2, <2>3, <3>1
    <3>2. CASE ~(q.found.live /\ ~old.live)
      <4>1. row' = [row EXCEPT ![q.k][me] = new]
        BY <2>3, <3>2
      <4>2. /\ row' \in [C!Convs -> [Users -> RowKind]]
            /\ \A i \in C!Convs, j \in Users : row'[i][j] = IF i = q.k /\ j = me THEN new ELSE row[i][j]
        BY <2>1, <2>2, <2>5, <4>1, RowWritten
      <4> QED
        BY <2>1, <3>2, <4>2
    <3> QED
      BY <3>1, <3>2
  <2>7. row' \in [C!Convs -> [Users -> RowKind']]
    BY <1>1, <2>6 DEF RowKind, C!Times
  <2>8. \A k \in C!Convs, v \in Users : row[k][v].live => row'[k][v].live
    BY <1>4, <2>5, <2>6
  <2>9. PICK r : /\ C!Move(t, r) /\ RecordOK(r, clock, created)
                 /\ \A v : ~Adds(r, v) /\ (Counts(r, v) => v \in q.todo \ {me})
                 /\ PlaceOK(r, kind, group, conv.id, row')
    <3>1. CASE \E r : Calm(t, r)
      <4>1. PICK r : Calm(t, r)
        BY <3>1
      <4> QED
        BY <1>2, <4>1, CalmHolds DEF Calm
    <3>2. ASSUME NEW r, C!Move(t, r), RecordOK(r, clock, created), r.pc = "find", r.k = q.k,
                 r.todo = q.todo \ {me}
          PROVE  /\ C!Move(t, r) /\ RecordOK(r, clock, created)
                 /\ \A v : ~Adds(r, v) /\ (Counts(r, v) => v \in q.todo \ {me})
                 /\ PlaceOK(r, kind, group, conv.id, row')
      BY <1>1, <1>2, <3>2 DEF Adds, Counts, PlaceOK, Creating, Dropping, Looping
    <3> QED
      BY <1>1, <2>3, <3>1, <3>2, OnwardMoves
  <2>10. UnreadBounded'
    <3> SUFFICES ASSUME NEW v \in Users, NEW k \in C!Convs
                 PROVE  row'[k][v].unread + Cardinality(Counting(v)') <= clock'
      BY DEF UnreadBounded
    <3>1. /\ Counting(v)' \subseteq Counting(v) /\ Counting(v) \subseteq Tasks
          /\ v = me => t \in Counting(v) \ Counting(v)'
      BY <1>1, <1>2, <2>1, <2>9 DEF Counting, Counts, C!Move
    <3>2. /\ Cardinality(Counting(v)') \in Nat /\ Cardinality(Counting(v)) \in Nat
          /\ Cardinality(Counting(v)') <= Cardinality(Counting(v))
          /\ v = me => Cardinality(Counting(v)') + 1 <= Cardinality(Counting(v))
      BY <3>1, Fewer
    <3>3. row[k][v].unread + Cardinality(Counting(v)) <= clock
      BY DEF RowsInv, UnreadBounded
    <3>4. row[k][v].unread \in Nat /\ row'[k][v].unread \in Nat
      BY <2>2, <2>6 DEF RowKind
    <3>5. \/ row'[k][v].unread = row[k][v].unread
          \/ v = me /\ row'[k][v].unread <= row[k][v].unread + 1
      BY <2>5, <2>6
    <3> QED
      BY <1>1, <1>2, <3>2, <3>3, <3>4, <3>5
  <2>11. RowsAgree'
    <3> SUFFICES ASSUME NEW v \in Users, group.state = "live", v \notin muddled'
                 PROVE  \/ Agrees(v)'
                        \/ v \notin muddled /\ ~Owes(q, v) /\ (Agrees(v) => Agrees(v)')
      BY <1>1, <2>9, RowsStay
    <3>1. q.k = conv.id /\ conv.id \in C!Convs /\ conv.id # 0 /\ (q.found.live => old.live)
      BY <1>1, <1>2, <2>1 DEF PlaceOK, StoreOK, Looping, C!Convs
    <3>2. C!Members' = C!Members /\ v \notin muddled
      BY <1>1, <2>3 DEF C!Members
    <3>3. CASE v = me /\ ~q.found.live
      <4>1. v \in C!Members /\ q.boss = group.admin
        BY <2>3, <3>3 DEF C!Fresh
      <4>2. row'[conv.id][v] = new
        BY <2>6, <3>1, <3>3
      <4> QED
        BY <1>1, <2>5, <3>1, <3>2, <3>3, <4>1, <4>2 DEF Agrees
    <3>4. CASE v # me \/ q.found.live
      <4>1. /\ row'[conv.id][v].live = row[conv.id][v].live /\ row'[conv.id][v].left = row[conv.id][v].left
            /\ row'[conv.id][v].role = row[conv.id][v].role
        BY <2>5, <2>6, <3>1, <3>4
      <4> QED
        BY <1>1, <1>a, <3>1, <3>2, <4>1 DEF Agrees
    <3> QED
      BY <3>3, <3>4
  <2>12. clock' \in Nat /\ clock <= clock' /\ RecordOK(r, clock', created)
         /\ \A m \in msgs' : m.at \in C!Times' /\ m.aud \subseteq Users /\ m.seen \subseteq Users
    BY <1>1, <1>2, <2>9 DEF C!Times
  <2> QED
    BY <1>1, <2>7, <2>8, <2>9, <2>10, <2>11, <2>12, RowStep
<1> QED
  BY <1>3, <1>4

(* A deleted group has its rows removed, and its Conversation.             *)
LEMMA DropRowsRows ==
  ASSUME RowsInv, GroupInv', NEW t \in Tasks, C!DropRows(t)
  PROVE  RowsInv'
<1>1. task[t].pc = "dropRows" /\ UNCHANGED <<kind, group, conv, msgs, clock, created, muddled>>
  BY DEF C!DropRows, C!At, C!Counters, C!Ghosts
<1>2. /\ RecordOK(task[t], clock, created) /\ PlaceOK(task[t], kind, group, conv.id, row)
      /\ DOMAIN task[t] = Fields /\ StoreOK /\ clock \in Nat /\ created \in Nat
  BY Here
<1>3. PICK r : C!Move(t, r) /\ r.pc = "dropDoc" /\ Turned(r, task[t])
  BY <1>2, GotoTurns DEF C!DropRows
<1>4. group.state = "deleted" /\ task[t].k \in C!Convs /\ row \in [C!Convs -> [Users -> RowKind]]
  BY <1>1, <1>2 DEF PlaceOK, Dropping, RecordOK, StoreOK, C!Convs
<1>5. C!NoRow \in RowKind /\ C!NoRow.unread = 0
  BY <1>2 DEF C!NoRow, RowKind, C!Roles, C!Times
<1>6. /\ row' \in [C!Convs -> [Users -> RowKind]]
      /\ \A k \in C!Convs, v \in Users : row'[k][v] = row[k][v] \/ row'[k][v] = C!NoRow
  BY <1>4, <1>5 DEF C!DropRows
<1>7. row' \in [C!Convs -> [Users -> RowKind']]
  BY <1>1, <1>6 DEF RowKind, C!Times
<1>8. /\ RecordOK(r, clock', created) /\ PlaceOK(r, kind, group, conv.id, row')
      /\ \A v : ~Adds(r, v) /\ ~Counts(r, v)
  BY <1>1, <1>2, <1>3, <1>4
     DEF RecordOK, PlaceOK, Turned, Based, Adds, Counts, Creating, Dropping, Looping, Syncing
<1>9. clock' \in Nat /\ clock <= clock'
      /\ \A m \in msgs' : m.at \in C!Times' /\ m.aud \subseteq Users /\ m.seen \subseteq Users
  BY <1>1, <1>2 DEF StoreOK, C!Times
<1>10. UnreadBounded'
  <2>1. \A k \in C!Convs, v \in Users : row'[k][v].unread <= row[k][v].unread
    <3>1. \A k \in C!Convs, v \in Users : row[k][v].unread \in Nat
      BY <1>4 DEF RowKind
    <3> QED
      BY <1>5, <1>6, <3>1
  <2>2. StoreOK'
    BY <1>1, <1>2, <1>7 DEF StoreOK, C!Times
  <2> QED
    BY <1>3, <1>8, <1>9, <2>1, <2>2, UnreadStays
<1>11. RowsAgree'
  BY <1>1, <1>4 DEF RowsAgree
<1> QED
  BY <1>1, <1>3, <1>4, <1>7, <1>8, <1>9, <1>10, <1>11, RowStep

(* The Conversation of a deleted group is deleted.                         *)
LEMMA DropDocRows ==
  ASSUME RowsInv, GroupInv', NEW t \in Tasks, C!DropDoc(t)
  PROVE  RowsInv'
<1>1. /\ task[t].pc = "dropDoc" /\ UNCHANGED <<kind, group, row, msgs, clock, created, muddled>>
      /\ conv' \in {C!NoConv, conv}
  BY DEF C!DropDoc, C!At, C!Counters, C!Ghosts
<1>2. /\ RecordOK(task[t], clock, created) /\ PlaceOK(task[t], kind, group, conv.id, row)
      /\ DOMAIN task[t] = Fields /\ StoreOK /\ clock \in Nat /\ created \in Nat /\ IsGroup(group)
  BY Here
<1>3. PICK r : C!Move(t, r) /\ r.pc = "purge" /\ Turned(r, task[t])
  BY <1>2, GotoTurns DEF C!DropDoc
<1>4. group.state = "deleted"
  BY <1>1, <1>2 DEF PlaceOK, Dropping
<1>5. conv'.id \in 0 .. created /\ conv'.last \in C!Times
  BY <1>1, <1>2 DEF StoreOK, C!NoConv, C!Times
<1>6. StoreOK'
  BY <1>1, <1>2, <1>4, <1>5 DEF StoreOK, C!Times, RowKind
<1>7. /\ RecordOK(r, clock', created') /\ PlaceOK(r, kind', group', conv'.id, row')
      /\ \A v : ~Adds(r, v) /\ ~Counts(r, v)
  BY <1>1, <1>2, <1>3, <1>4
     DEF RecordOK, PlaceOK, Turned, Based, Adds, Counts, Creating, Dropping, Looping, Syncing
<1>8. \A s \in Tasks \ {t} : PlaceOK(task[s], kind', group', conv'.id, row')
  <2> SUFFICES ASSUME NEW s \in Tasks PROVE PlaceOK(task[s], kind', group', conv'.id, row')
    OBVIOUS
  <2>1. PlaceOK(task[s], kind, group, conv.id, row)
    BY Here
  <2> QED
    BY <1>1, <1>4, <2>1 DEF PlaceOK
<1>9. MembersBounded'
  <2>1. \A u \in Users : group'.members[u] <= group.members[u]
    BY <1>1, <1>2 DEF IsGroup
  <2> QED
    BY <1>3, <1>7, <2>1, MembersStay
<1>10. UnreadBounded'
  <2>1. \A k \in C!Convs, u \in Users : row'[k][u].unread <= row[k][u].unread
    BY <1>1, <1>2 DEF StoreOK, RowKind
  <2>2. clock <= clock'
    BY <1>1, <1>2
  <2> QED
    BY <1>3, <1>6, <1>7, <2>1, <2>2, UnreadStays
<1>11. RowsAgree'
  BY <1>1, <1>4 DEF RowsAgree
<1>12. clock <= clock' /\ created <= created' /\ kind' = kind
  BY <1>1, <1>2
<1> QED
  BY <1>3, <1>6, <1>7, <1>8, <1>9, <1>10, <1>11, <1>12, RequestDone

(* The count of a row is set to zero.                                      *)
LEMMA ZeroUnreadRows ==
  ASSUME RowsInv, GroupInv', NEW t \in Tasks, C!ZeroUnread(t)
  PROVE  RowsInv'
<1>1. task[t].pc = "zero" /\ UNCHANGED <<kind, group, conv, msgs, clock, created, muddled>> /\ C!Stop(t)
  BY DEF C!ZeroUnread, C!At, C!Counters
<1>2. RecordOK(task[t], clock, created) /\ StoreOK /\ clock \in Nat /\ created \in Nat /\ MaxConvs \in Nat
  BY Here
<1>3. PICK r : Calm(t, r)
  BY <1>1, StopCalms
<1>4. /\ RecordOK(r, clock', created) /\ PlaceOK(r, kind, group, conv.id, row') /\ C!Move(t, r)
      /\ \A v : ~Adds(r, v) /\ ~Counts(r, v) /\ ~Owes(task[t], v)
  BY <1>1, <1>2, <1>3, CalmHolds DEF Calm, Owes
<1>5. row \in [C!Convs -> [Users -> RowKind]]
  BY <1>2 DEF StoreOK
<1>b. \A p \in RowKind : /\ C!Zeroed(p) \in RowKind /\ C!Zeroed(p).live = p.live
                           /\ C!Zeroed(p).left = p.left /\ C!Zeroed(p).role = p.role
                           /\ p.unread \in Nat /\ C!Zeroed(p).unread = 0
  BY DEF RowKind, C!Zeroed
<1>6. /\ row' \in [C!Convs -> [Users -> RowKind]]
      /\ \A k \in C!Convs, v \in Users :
           row'[k][v] = row[k][v] \/ row'[k][v] = C!Zeroed(row[k][v])
  <2>1. CASE UNCHANGED row
    BY <1>5, <2>1
  <2>2. CASE ~UNCHANGED row
    <3> DEFINE me == task[t].who
    <3>1. PICK k \in C!Listed(me) : row' = [row EXCEPT ![k][me] = C!Zeroed(@)]
      BY <2>2 DEF C!ZeroUnread
    <3>2. me \in Users /\ k \in C!Convs
      BY <1>1, <1>2 DEF RecordOK, C!Listed
    <3>3. C!Zeroed(row[k][me]) \in RowKind /\ row' = [row EXCEPT ![k][me] = C!Zeroed(row[k][me])]
      BY <1>5, <1>b, <3>1, <3>2
    <3> QED
      BY <1>5, <3>2, <3>3, RowWritten
  <2> QED
    BY <2>1, <2>2
<1>a. \A k \in C!Convs, v \in Users :
        /\ row'[k][v].live = row[k][v].live /\ row'[k][v].left = row[k][v].left
        /\ row'[k][v].role = row[k][v].role /\ row'[k][v].unread <= row[k][v].unread
  <2> SUFFICES ASSUME NEW k \in C!Convs, NEW v \in Users
               PROVE  /\ row'[k][v].live = row[k][v].live /\ row'[k][v].left = row[k][v].left
                      /\ row'[k][v].role = row[k][v].role /\ row'[k][v].unread <= row[k][v].unread
    OBVIOUS
  <2>1. row[k][v] \in RowKind
    BY <1>5
  <2> QED
    BY <1>6, <1>b, <2>1
<1>7. row' \in [C!Convs -> [Users -> RowKind']]
  BY <1>1, <1>6 DEF RowKind, C!Times
<1>8. clock' \in Nat /\ clock <= clock'
      /\ \A m \in msgs' : m.at \in C!Times' /\ m.aud \subseteq Users /\ m.seen \subseteq Users
  BY <1>1, <1>2 DEF StoreOK, C!Times
<1>9. UnreadBounded'
  <2>2. StoreOK'
    BY <1>1, <1>2, <1>7 DEF StoreOK, C!Times
  <2> QED
    BY <1>4, <1>8, <1>a, <2>2, UnreadStays
<1>10. RowsAgree'
  <2>1. ASSUME NEW u \in Users, Agrees(u) PROVE Agrees(u)'
    <3>1. C!Members' = C!Members
      BY <1>1 DEF C!Members
    <3>2. conv.id \in C!Convs
      BY <1>2, <2>1 DEF Agrees, StoreOK, C!Convs
    <3> QED
      BY <1>1, <1>a, <2>1, <3>1, <3>2 DEF Agrees
  <2> QED
    BY <1>1, <1>4, <2>1, RowsStay
<1>11. \A k \in C!Convs, v \in Users : row[k][v].live => row'[k][v].live
  BY <1>a
<1> QED
  BY <1>1, <1>4, <1>7, <1>8, <1>9, <1>10, <1>11, RowStep

(* The preferences of a user without a row create one.                     *)
LEMMA PrefRowRows ==
  ASSUME RowsInv, GroupInv', NEW t \in Tasks, C!PrefRow(t)
  PROVE  RowsInv'
<1>1. task[t].pc = "prefRow" /\ UNCHANGED <<kind, group, conv, msgs, created>> /\ C!Stop(t)
  BY DEF C!PrefRow, C!At
<1>2. /\ RecordOK(task[t], clock, created) /\ PlaceOK(task[t], kind, group, conv.id, row) /\ StoreOK
      /\ clock \in Nat /\ created \in Nat /\ kind \in {"direct", "group"}
  BY Here
<1>3. PICK r : Calm(t, r)
  BY <1>1, StopCalms
<1>a. \A v : ~Owes(task[t], v)
  BY <1>1 DEF Owes
<1> DEFINE q == task[t]  me == q.who  old == row[q.k][me]
           role == IF kind = "direct" THEN "none" ELSE "member"
           new == [C!NoRow EXCEPT !.live = TRUE, !.role = role, !.joined = clock + 1]
<1>4. CASE C!Listed(me) # {}
  <2>1. UNCHANGED <<row, clock, muddled>>
    BY <1>4 DEF C!PrefRow
  <2>2. \A m \in msgs' : m.at \in C!Times /\ m.aud \subseteq Users /\ m.seen \subseteq Users
    BY <1>1, <1>2 DEF StoreOK
  <2> QED
    BY <1>1, <1>3, <1>a, <2>1, <2>2, QuietCalm
<1>5. CASE C!Listed(me) = {}
  <2>1. /\ clock' = clock + 1 /\ row' = [row EXCEPT ![q.k][me] = new]
        /\ muddled' = IF me \notin C!Members \/ me = group.admin THEN muddled \cup {me} ELSE muddled
    BY <1>5 DEF C!PrefRow
  <2>2. clock' \in Nat /\ clock <= clock' /\ C!Times \subseteq C!Times' /\ clock + 1 \in C!Times' /\ 0 \in C!Times'
    BY <1>2, <2>1 DEF C!Times
  <2>3. me \in Users /\ q.k \in C!Convs
    BY <1>1, <1>2 DEF RecordOK, Looping, StoreOK, C!Convs
  <2>4. /\ new \in RowKind' /\ new.live /\ new.left = 0 /\ new.role = role /\ new.unread = 0
    BY <2>2 DEF RowKind, C!NoRow, C!Roles
  <2>5. row \in [C!Convs -> [Users -> RowKind']] /\ row \in [C!Convs -> [Users -> RowKind]]
    BY <1>2, <2>2, TimesGrow DEF StoreOK
  <2> HIDE DEF new
  <2>6. /\ row' \in [C!Convs -> [Users -> RowKind']]
        /\ \A i \in C!Convs, j \in Users : row'[i][j] = IF i = q.k /\ j = me THEN new ELSE row[i][j]
    BY <2>1, <2>3, <2>4, <2>5, RowWritten
  <2>7. /\ RecordOK(r, clock', created) /\ PlaceOK(r, kind, group, conv.id, row') /\ C!Move(t, r)
        /\ \A v : ~Adds(r, v) /\ ~Counts(r, v)
    BY <1>2, <1>3, <2>2, CalmHolds DEF Calm
  <2>8. \A k \in C!Convs, v \in Users : row[k][v].live => row'[k][v].live
    BY <2>4, <2>6
  <2>9. \A m \in msgs' : m.at \in C!Times' /\ m.aud \subseteq Users /\ m.seen \subseteq Users
    BY <1>1, <1>2, <2>2 DEF StoreOK
  <2>10. UnreadBounded'
    <3>1. \A k \in C!Convs, v \in Users : row'[k][v].unread <= row[k][v].unread
      <4>1. \A k \in C!Convs, v \in Users : row[k][v].unread \in Nat
        BY <2>5 DEF RowKind
      <4> QED
        BY <2>4, <2>6, <4>1
    <3>2. StoreOK'
      BY <1>1, <1>2, <2>2, <2>6, <2>9 DEF StoreOK
    <3> QED
      BY <2>2, <2>7, <3>1, <3>2, UnreadStays
  <2>11. RowsAgree'
    <3> SUFFICES ASSUME NEW v \in Users, group.state = "live", v \notin muddled'
                 PROVE  \/ Agrees(v)'
                        \/ v \notin muddled /\ ~Owes(q, v) /\ (Agrees(v) => Agrees(v)')
      BY <1>1, <2>7, RowsStay
    <3>1. q.k = conv.id /\ conv.id \in C!Convs /\ conv.id # 0 /\ kind # "direct"
      BY <1>1, <1>2, <2>3 DEF PlaceOK, StoreOK, Looping, C!Convs
    <3>2. C!Members' = C!Members /\ v \notin muddled
      BY <1>1, <2>1 DEF C!Members
    <3>3. CASE v = me
      <4>1. v \in C!Members /\ v # group.admin /\ row'[conv.id][v] = new
        BY <2>1, <2>6, <3>1, <3>3
      <4> QED
        BY <1>1, <2>4, <3>1, <3>2, <4>1 DEF Agrees, C!RoleIn
    <3>4. CASE v # me
      <4>1. row'[conv.id][v] = row[conv.id][v]
        BY <2>6, <3>1, <3>4
      <4> QED
        BY <1>1, <1>a, <3>1, <3>2, <4>1 DEF Agrees
    <3> QED
      BY <3>3, <3>4
  <2> QED
    BY <1>1, <2>2, <2>6, <2>7, <2>8, <2>9, <2>10, <2>11, RowStep
<1> QED
  BY <1>4, <1>5

(* The rows whose dates are in a set.                                      *)
RowsOver(T) ==
  [live : BOOLEAN, role : C!Roles, joined : T, left : T, deleted : T, last : T, unread : Nat]
(* A row that was cleared.                                                 *)
LEMMA SoftDeletedRow ==
  ASSUME NEW T, 0 \in T, NEW at \in T, NEW p \in RowsOver(T)
  PROVE  /\ C!SoftDeleted(p, at) \in RowsOver(T) /\ C!SoftDeleted(p, at).live = p.live
         /\ C!SoftDeleted(p, at).left = p.left /\ C!SoftDeleted(p, at).role = p.role
         /\ C!SoftDeleted(p, at).unread <= p.unread
<1>1. p.unread \in Nat
  BY DEF RowsOver
<1>2. C!SoftDeleted(p, at) \in RowsOver(T)
  BY DEF RowsOver, C!SoftDeleted
<1>3. /\ C!SoftDeleted(p, at).live = p.live /\ C!SoftDeleted(p, at).left = p.left
      /\ C!SoftDeleted(p, at).role = p.role /\ C!SoftDeleted(p, at).unread = 0
  BY DEF RowsOver, C!SoftDeleted
<1> QED
  BY <1>1, <1>2, <1>3

(* The history is cleared: the row keeps its role and its dates, and the   *)
(* requests that hold the user's row are only marked.                      *)
LEMMA WipeRows ==
  ASSUME RowsInv, GroupInv', NEW t \in Tasks, C!Wipe(t)
  PROVE  RowsInv'
<1> DEFINE q == task[t]  me == q.who  old == row[q.k][me]  new == C!SoftDeleted(old, clock + 1)
<1>1. /\ q.pc = "wipe" /\ UNCHANGED <<kind, group, conv, msgs, created, muddled>> /\ clock' = clock + 1
      /\ row' = IF old.live THEN [row EXCEPT ![q.k][me] = C!SoftDeleted(@, clock + 1)] ELSE row
      /\ task' = [s \in Tasks |->
           IF s = t THEN C!Idle
           ELSE IF C!At(s, "put") /\ task[s].cur = me THEN [task[s] EXCEPT !.crossed = TRUE] ELSE task[s]]
  BY DEF C!Wipe, C!At
<1>2. /\ RecordOK(q, clock, created) /\ StoreOK /\ clock \in Nat /\ created \in Nat /\ MaxConvs \in Nat
      /\ DOMAIN task = Tasks /\ kind \in {"direct", "group"} /\ IsGroup(group)
  BY Here
<1>3. /\ clock' \in Nat /\ clock <= clock' /\ C!Times \subseteq C!Times' /\ clock + 1 \in C!Times' /\ 0 \in C!Times'
  BY <1>1, <1>2 DEF C!Times
<1>4. /\ row \in [C!Convs -> [Users -> RowKind]] /\ row \in [C!Convs -> [Users -> RowKind']]
      /\ q.k \in C!Convs /\ me \in Users
  BY <1>1, <1>2, <1>3, TimesGrow DEF StoreOK, RecordOK, C!Convs
<1>5. \A p \in RowKind', at \in C!Times' :
        /\ C!SoftDeleted(p, at) \in RowKind' /\ C!SoftDeleted(p, at).live = p.live
        /\ C!SoftDeleted(p, at).left = p.left /\ C!SoftDeleted(p, at).role = p.role
        /\ C!SoftDeleted(p, at).unread <= p.unread
  <2> SUFFICES ASSUME NEW p \in RowKind', NEW at \in C!Times'
               PROVE  /\ C!SoftDeleted(p, at) \in RowKind' /\ C!SoftDeleted(p, at).live = p.live
                      /\ C!SoftDeleted(p, at).left = p.left /\ C!SoftDeleted(p, at).role = p.role
                      /\ C!SoftDeleted(p, at).unread <= p.unread
    OBVIOUS
  <2>1. RowKind' = RowsOver(C!Times')
    BY DEF RowKind, RowsOver
  <2> QED
    BY <1>3, <2>1, SoftDeletedRow
<1>6. old \in RowKind' /\ \A k \in C!Convs, v \in Users : row[k][v].unread \in Nat
  BY <1>4 DEF RowKind
<1>7. /\ row' \in [C!Convs -> [Users -> RowKind']]
      /\ \A k \in C!Convs, v \in Users : row'[k][v] = row[k][v] \/ (k = q.k /\ v = me /\ row'[k][v] = new)
  <2>1. CASE ~old.live
    BY <1>1, <1>4, <2>1
  <2>2. CASE old.live
    <3>1. row' = [row EXCEPT ![q.k][me] = new] /\ new \in RowKind'
      BY <1>1, <1>3, <1>5, <1>6, <2>2
    <3> HIDE DEF new
    <3> QED
      BY <1>4, <3>1, RowWritten
  <2> QED
    BY <2>1, <2>2
<1>8. \A k \in C!Convs, v \in Users :
        /\ row'[k][v].live = row[k][v].live /\ row'[k][v].left = row[k][v].left
        /\ row'[k][v].role = row[k][v].role /\ row'[k][v].unread <= row[k][v].unread
        /\ row[k][v].unread \in Nat /\ row'[k][v].unread \in Nat
  <2> SUFFICES ASSUME NEW k \in C!Convs, NEW v \in Users
               PROVE  /\ row'[k][v].live = row[k][v].live /\ row'[k][v].left = row[k][v].left
                      /\ row'[k][v].role = row[k][v].role /\ row'[k][v].unread <= row[k][v].unread
                      /\ row[k][v].unread \in Nat /\ row'[k][v].unread \in Nat
    OBVIOUS
  <2>1. row[k][v].unread \in Nat /\ row'[k][v].unread \in Nat
    BY <1>6, <1>7 DEF RowKind
  <2>2. CASE row'[k][v] = row[k][v]
    BY <2>1, <2>2
  <2>3. CASE k = q.k /\ v = me /\ row'[k][v] = new
    BY <1>3, <1>5, <1>6, <2>1, <2>3
  <2> QED
    BY <1>7, <2>2, <2>3
<1>9. StoreOK'
  BY <1>1, <1>2, <1>3, <1>7 DEF StoreOK
(* What the other requests hold is what they held. *)
<1>10. ASSUME NEW s \in Tasks, s # t
       PROVE  /\ task'[s].pc = task[s].pc /\ Turned(task'[s], task[s])
  <2>1. DOMAIN task[s] = Fields
    BY Here
  <2>2. task'[s] = task[s] \/ task'[s] = [task[s] EXCEPT !.crossed = TRUE]
    BY <1>1, <1>10
  <2> QED
    BY <2>1, <2>2 DEF Turned, Based, Fields, C!Idle
<1>11. task'[t] = C!Idle
  BY <1>1
<1>12. /\ \A n, m \in Nat : RecordOK(C!Idle, n, m)
       /\ \A kd, g, id, rows : PlaceOK(C!Idle, kd, g, id, rows)
       /\ \A u : ~Adds(C!Idle, u) /\ ~Counts(C!Idle, u) /\ ~Owes(C!Idle, u)
  BY <1>2 DEF C!Idle, RecordOK, PlaceOK, Adds, Counts, Owes, Syncing, Looping, Creating, Dropping, Changes
<1>13. TasksOK'
  <2> SUFFICES ASSUME NEW s \in Tasks
               PROVE  RecordOK(task'[s], clock', created') /\ PlaceOK(task'[s], kind', group', conv'.id, row')
    BY DEF TasksOK
  <2>1. CASE s = t
    BY <1>1, <1>2, <1>3, <1>11, <1>12, <2>1
  <2>2. CASE s # t
    <3>1. RecordOK(task[s], clock, created) /\ PlaceOK(task[s], kind, group, conv.id, row)
      BY Here
    <3>2. RecordOK(task[s], clock', created')
      BY <1>1, <1>2, <1>3, <3>1, RecordsGrow
    <3>3. task'[s].pc = task[s].pc /\ Turned(task'[s], task[s])
      BY <1>10, <2>2
    <3>4. RecordOK(task'[s], clock', created')
      BY <3>2, <3>3 DEF RecordOK, Turned, Based
    <3>5. task[s].pc \in {"syncRow", "put"} => task[s].k \in C!Convs /\ task[s].cur \in Users
      BY <1>2, <3>1 DEF RecordOK, Looping, C!Convs, StoreOK
    <3>6. PlaceOK(task[s], kind', group', conv'.id, row')
      BY <1>1, <1>8, <3>1, <3>5, SMTT(20) DEF PlaceOK
    <3>7. PlaceOK(task'[s], kind', group', conv'.id, row')
      BY <3>3, <3>6, SMTT(30) DEF PlaceOK, Turned, Based
    <3> QED
      BY <3>4, <3>7
  <2> QED
    BY <2>1, <2>2
<1>14. \A u : /\ Adding(u)' \subseteq Adding(u) /\ Counting(u)' \subseteq Counting(u)
              /\ \A s \in Tasks : Owes(task[s], u) => Owes(task'[s], u)
  <2> SUFFICES ASSUME NEW u, NEW s \in Tasks
               PROVE  /\ Adds(task'[s], u) => Adds(task[s], u)
                      /\ Counts(task'[s], u) => Counts(task[s], u)
                      /\ Owes(task[s], u) => Owes(task'[s], u)
    BY DEF Adding, Counting
  <2>1. CASE s = t
    BY <1>1, <1>11, <1>12, <2>1 DEF Owes
  <2>2. CASE s # t
    BY <1>10, <2>2 DEF Turned, Based, Adds, Counts, Owes
  <2> QED
    BY <2>1, <2>2
<1>15. MembersBounded'
  <2> SUFFICES ASSUME NEW u \in Users
               PROVE  group'.members[u] + Cardinality(Adding(u)') <= Cardinality(Tasks)
    BY DEF MembersBounded
  <2>1. group.members[u] \in Nat /\ group'.members[u] = group.members[u]
    BY <1>1, <1>2 DEF IsGroup
  <2>2. group.members[u] + Cardinality(Adding(u)) <= Cardinality(Tasks)
    BY DEF RowsInv, MembersBounded
  <2>3. Adding(u)' \subseteq Adding(u) /\ Adding(u) \subseteq Tasks
    BY <1>14 DEF Adding
  <2>4. /\ Cardinality(Adding(u)') \in Nat /\ Cardinality(Adding(u)) \in Nat /\ Cardinality(Tasks) \in Nat
        /\ Cardinality(Adding(u)') <= Cardinality(Adding(u))
    BY <2>3, Fewer
  <2> QED
    BY <2>1, <2>2, <2>4
<1>16. UnreadBounded'
  <2> SUFFICES ASSUME NEW u \in Users, NEW k \in C!Convs
               PROVE  row'[k][u].unread + Cardinality(Counting(u)') <= clock'
    BY DEF UnreadBounded
  <2>1. row[k][u].unread + Cardinality(Counting(u)) <= clock
    BY DEF RowsInv, UnreadBounded
  <2>2. Counting(u)' \subseteq Counting(u) /\ Counting(u) \subseteq Tasks
    BY <1>14 DEF Counting
  <2>3. /\ Cardinality(Counting(u)') \in Nat /\ Cardinality(Counting(u)) \in Nat
        /\ Cardinality(Counting(u)') <= Cardinality(Counting(u))
    BY <2>2, Fewer
  <2>4. /\ row[k][u].unread \in Nat /\ row'[k][u].unread \in Nat
        /\ row'[k][u].unread <= row[k][u].unread
    BY <1>8
  <2> QED
    BY <1>2, <1>3, <2>1, <2>3, <2>4
<1>17. RowsAgree'
  <2> SUFFICES ASSUME group'.state = "live", NEW u \in Users \ muddled', ~Agrees(u)'
               PROVE  \E s \in Tasks : Owes(task'[s], u)
    BY DEF RowsAgree
  <2>1. ~Agrees(u)
    <3> SUFFICES ASSUME Agrees(u) PROVE Agrees(u)'
      OBVIOUS
    <3>1. C!Members' = C!Members
      BY <1>1 DEF C!Members
    <3>2. conv.id \in C!Convs
      BY <1>2 DEF Agrees, StoreOK, C!Convs
    <3> QED
      <4>1. u \in Users /\ conv'.id = conv.id /\ group'.admin = group.admin
        BY <1>1
      <4>2. /\ row'[conv.id][u].live = row[conv.id][u].live /\ row'[conv.id][u].left = row[conv.id][u].left
            /\ row'[conv.id][u].role = row[conv.id][u].role
        BY <1>8, <3>2, <4>1
      <4> QED
        BY <3>1, <4>1, <4>2 DEF Agrees
  <2>2. PICK s \in Tasks : Owes(task[s], u)
    BY <1>1, <2>1 DEF RowsInv, RowsAgree
  <2> QED
    BY <1>14, <2>2
<1> QED
  BY <1>9, <1>13, <1>15, <1>16, <1>17 DEF RowsInv

(* The rows of a group that is already there.                              *)
LEMMA OldRows ==
  ASSUME NEW T, {0, 1, 2, 3, 4} \subseteq T, NEW role \in C!Roles, NEW p,
         \/ p = C!NoRow
         \/ p = [[C!NoRow EXCEPT !.live = TRUE, !.joined = 1, !.last = 4] EXCEPT !.role = role]
         \/ p = [[C!NoRow EXCEPT !.live = TRUE, !.joined = 1, !.last = 4]
                   EXCEPT !.left = 3, !.last = 2, !.unread = 1]
  PROVE  p \in RowsOver(T) /\ p.unread \in {0, 1}
<1>1. CASE p = C!NoRow
  BY <1>1 DEF RowsOver, C!NoRow, C!Roles
<1>2. CASE p = [[C!NoRow EXCEPT !.live = TRUE, !.joined = 1, !.last = 4] EXCEPT !.role = role]
  BY <1>2 DEF RowsOver, C!NoRow, C!Roles
<1>3. CASE p = [[C!NoRow EXCEPT !.live = TRUE, !.joined = 1, !.last = 4]
                   EXCEPT !.left = 3, !.last = 2, !.unread = 1]
  BY <1>3 DEF RowsOver, C!NoRow, C!Roles
<1> QED
  BY <1>1, <1>2, <1>3

(* The rows when the conversation begins.                                  *)
LEMMA RowsInit == C!Init => RowsInv
<1> SUFFICES ASSUME C!Init PROVE RowsInv
  OBVIOUS
<1>1. GroupInv /\ task = [t \in Tasks |-> C!Idle] /\ muddled = {} /\ kind \in {"direct", "group"}
  BY ConversationsInit DEF C!Init, GroupInv
<1>2. MaxConvs \in Nat \ {0} /\ IsFiniteSet(Tasks) /\ Tasks # {} /\ Founder \in Users /\ Invited \subseteq Users
  BY ConversationsAssumption
<1>3. /\ \A n, m \in Nat : RecordOK(C!Idle, n, m)
      /\ \A kd, g, id, rows : PlaceOK(C!Idle, kd, g, id, rows)
      /\ \A u : ~Adds(C!Idle, u) /\ ~Counts(C!Idle, u)
  BY <1>2 DEF C!Idle, RecordOK, PlaceOK, Adds, Counts, Syncing, Looping, Creating, Dropping, Changes
<1>4. \A u : Cardinality(Adding(u)) = 0 /\ Cardinality(Counting(u)) = 0
  <2>1. \A u : Adding(u) = {} /\ Counting(u) = {}
    BY <1>1, <1>3 DEF Adding, Counting
  <2> QED
    BY <2>1, FS_EmptySet
<1>5. Cardinality(Tasks) \in Nat /\ Cardinality(Tasks) >= 1
  BY <1>2, FS_CardinalityType, FS_EmptySet
<1>6. CASE C!Fresh0
  <2>1. /\ group = C!NoGroup /\ conv = C!NoConv /\ created = 0 /\ clock = 0 /\ msgs = {}
        /\ row = [k \in C!Convs |-> [u \in Users |-> C!NoRow]]
    BY <1>6 DEF C!Fresh0
  <2>2. C!NoRow \in RowKind /\ C!NoRow.unread = 0
    BY <2>1 DEF C!NoRow, RowKind, C!Roles, C!Times
  <2>3. StoreOK
    BY <1>1, <1>2, <2>1, <2>2 DEF StoreOK, C!NoGroup, C!NoConv, C!Times
  <2>4. TasksOK
    BY <1>1, <1>3, <2>1 DEF TasksOK
  <2>5. MembersBounded
    BY <1>4, <1>5, <2>1 DEF MembersBounded, C!NoGroup
  <2>6. UnreadBounded
    BY <1>4, <2>1, <2>2 DEF UnreadBounded
  <2>7. RowsAgree
    BY <2>1 DEF RowsAgree, C!NoGroup
  <2> QED
    BY <1>1, <2>3, <2>4, <2>5, <2>6, <2>7 DEF RowsInv
<1>7. ASSUME kind = "group", NEW gone \in Users \ Invited, C!Settled(Founder, gone)
      PROVE  RowsInv
  <2> DEFINE all == Invited \cup {Founder, gone}  rest == all \ {gone}
             here == [C!NoRow EXCEPT !.live = TRUE, !.joined = 1, !.last = 4]
             First(u) == CASE u \in rest -> [here EXCEPT !.role = C!RoleIn(Founder, u)]
                           [] u = gone -> [here EXCEPT !.left = 3, !.last = 2, !.unread = 1]
                           [] OTHER -> C!NoRow
             Row(k, u) == CASE k = 1 /\ u \in rest -> [here EXCEPT !.role = C!RoleIn(Founder, u)]
                            [] k = 1 /\ u = gone -> [here EXCEPT !.left = 3, !.last = 2, !.unread = 1]
                            [] OTHER -> C!NoRow
  <2>1. /\ group = [state |-> "live", admin |-> Founder, ver |-> 1,
                    members |-> [u \in Users |-> IF u \in rest THEN 1 ELSE 0]]
        /\ conv.id = 1 /\ conv.last = 4 /\ created = 1 /\ clock = 4
        /\ msgs = {C!Past(2, all, rest)} \cup {C!Past(4, rest, rest)}
    BY <1>7 DEF C!Settled
  <2>2. row = [k \in C!Convs |-> [u \in Users |-> Row(k, u)]]
    BY <1>7 DEF C!Settled
  <2>3. rest \subseteq Users /\ all \subseteq Users /\ gone \notin rest
    BY <1>2
  <2>4. C!Times = 0 .. 4
    BY <2>1 DEF C!Times
  <2>5. \A k, u : /\ Row(k, u) \in RowKind /\ Row(k, u).unread \in {0, 1}
    <3> SUFFICES ASSUME NEW k, NEW u PROVE Row(k, u) \in RowKind /\ Row(k, u).unread \in {0, 1}
      OBVIOUS
    <3> DEFINE role == C!RoleIn(Founder, u)
    <3>1. role \in C!Roles /\ {0, 1, 2, 3, 4} \subseteq C!Times /\ RowKind = RowsOver(C!Times)
      BY <2>4 DEF C!RoleIn, C!Roles, RowKind, RowsOver
    <3>2. \/ Row(k, u) = C!NoRow \/ Row(k, u) = [here EXCEPT !.role = role]
          \/ Row(k, u) = [here EXCEPT !.left = 3, !.last = 2, !.unread = 1]
      OBVIOUS
    <3> HIDE DEF Row, role
    <3> QED
      BY <3>1, <3>2, OldRows
  <2>6. \A u : /\ u \in rest <=> Row(1, u).live /\ Row(1, u).left = 0
               /\ u \in rest => Row(1, u).role = C!RoleIn(Founder, u)
    <3> SUFFICES ASSUME NEW u
                 PROVE  /\ u \in rest <=> Row(1, u).live /\ Row(1, u).left = 0
                        /\ u \in rest => Row(1, u).role = C!RoleIn(Founder, u)
      OBVIOUS
    <3> DEFINE in == u \in rest  p == Row(1, u)
    <3>1. CASE in
      <4>1. p = [here EXCEPT !.role = C!RoleIn(Founder, u)]
        BY <3>1
      <4> HIDE DEF p
      <4> QED
        BY <3>1, <4>1 DEF C!NoRow
    <3>2. CASE ~in /\ u = gone
      <4>1. p = [here EXCEPT !.left = 3, !.last = 2, !.unread = 1]
        BY <3>2
      <4> HIDE DEF p
      <4>2. p.left = 3
        BY <4>1 DEF C!NoRow
      <4> QED
        BY <3>2, <4>2 DEF p
    <3>3. CASE ~in /\ u # gone
      <4>1. p = C!NoRow
        BY <3>3
      <4> HIDE DEF p
      <4> QED
        BY <3>3, <4>1 DEF C!NoRow
    <3> QED
      BY <3>1, <3>2, <3>3
  <2> HIDE DEF Row
  <2>7. /\ row \in [C!Convs -> [Users -> RowKind]] /\ 1 \in C!Convs
        /\ \A k \in C!Convs, u \in Users : row[k][u] = Row(k, u)
    BY <1>2, <2>2, <2>5 DEF C!Convs
  <2> HIDE DEF rest, all
  <2>8. \A m \in msgs : m.at \in C!Times /\ m.aud \subseteq Users /\ m.seen \subseteq Users
    <3>1. \A m \in msgs : /\ m.at \in {2, 4} /\ m.aud \in {all, rest} /\ m.seen = rest
      BY <2>1 DEF C!Past
    <3> QED
      BY <2>3, <2>4, <3>1
  <2>9. /\ group.state = "live" /\ group.admin = Founder
        /\ \A u \in Users : group.members[u] = IF u \in rest THEN 1 ELSE 0
    BY <2>1
  <2>10. StoreOK
    BY <1>2, <1>7, <2>1, <2>4, <2>7, <2>8, <2>9 DEF StoreOK
  <2>11. TasksOK
    BY <1>1, <1>3, <2>1 DEF TasksOK
  <2>12. MembersBounded
    <3>1. \A u \in Users : group.members[u] \in {0, 1}
      BY <2>9
    <3> QED
      BY <1>4, <1>5, <3>1 DEF MembersBounded
  <2>13. UnreadBounded
    <3>1. \A u \in Users, k \in C!Convs : row[k][u].unread \in {0, 1}
      BY <2>5, <2>7
    <3>2. clock = 4
      BY <2>1
    <3> QED
      BY <1>4, <3>1, <3>2 DEF UnreadBounded
  <2>14. RowsAgree
    <3>1. C!Members = rest
      BY <1>7, <2>3, <2>9 DEF C!Members
    <3>2. conv.id = 1
      BY <2>1
    <3>3. \A u \in Users : Agrees(u)
      BY <2>6, <2>7, <2>9, <3>1, <3>2 DEF Agrees
    <3> QED
      BY <3>3 DEF RowsAgree
  <2> QED
    BY <1>1, <2>10, <2>11, <2>12, <2>13, <2>14 DEF RowsInv
<1> QED
  BY <1>6, <1>7 DEF C!Init

(* A step keeps the rows.                                                  *)
LEMMA RowsStep == RowsInv /\ GroupInv' /\ C!Next => RowsInv'
<1>1. ASSUME RowsInv, GroupInv', NEW t \in Tasks, NEW q \in Requests, C!Request(t, q[1], q[2], q[3])
      PROVE  RowsInv'
  BY <1>1, RequestRows
<1>2. ASSUME RowsInv, GroupInv', NEW t \in Tasks, C!Step(t)
      PROVE  RowsInv'
  <2>1. CASE \/ C!DropConv(t) \/ C!Purge(t) \/ C!MarkRead(t) \/ C!Allow(t) \/ C!Seek(t) \/ C!PrefConv(t)
             \/ C!PageMember(t) \/ C!PageRow(t) \/ C!PageFetch(t)
    BY <1>2, <2>1, MindRows
  <2>2. CASE C!Insert(t) \/ C!ReadGroup(t) \/ C!SaveGroup(t) \/ C!DropGroup(t)
    BY <1>2, <2>2, InsertRows, ReadGroupRows, SaveGroupRows, DropGroupRows
  <2>3. CASE \/ C!SyncRead(t) \/ C!SyncConv(t) \/ C!SyncPut(t) \/ C!SyncFind(t) \/ C!SyncRow(t)
             \/ C!SyncLeave(t)
    BY <1>2, <2>3, SyncReadRows, SyncConvRows, SyncPutRows, SyncFindRows, SyncRowRows, SyncLeaveRows
  <2>4. CASE C!Save(t) \/ C!Shape(t) \/ C!Upsert(t) \/ C!Find(t) \/ C!Put(t)
    BY <1>2, <2>4, SaveRows, ShapeRows, UpsertRows, FindRows, PutRows
  <2>5. CASE \/ C!DropRows(t) \/ C!DropDoc(t) \/ C!ZeroUnread(t) \/ C!Wipe(t) \/ C!PrefNew(t) \/ C!PrefRow(t)
    BY <1>2, <2>5, DropRowsRows, DropDocRows, ZeroUnreadRows, WipeRows, PrefNewRows, PrefRowRows
  <2> QED
    BY <1>2, <2>1, <2>2, <2>3, <2>4, <2>5 DEF C!Step
<1> QED
  BY <1>1, <1>2 DEF C!Next

(* Nothing changes.                                                        *)
LEMMA RowsRest == RowsInv /\ UNCHANGED convVars => RowsInv'
<1> SUFFICES ASSUME RowsInv, UNCHANGED convVars PROVE RowsInv'
  OBVIOUS
<1>1. UNCHANGED <<kind, group, conv, row, msgs, task, clock, requests, created, muddled>>
  BY DEF convVars
<1>2. GroupInv'
  BY <1>1 DEF RowsInv, GroupInv, C!At
<1>3. StoreOK'
  BY <1>1 DEF RowsInv, StoreOK, C!Times, RowKind
<1>4. TasksOK'
  BY <1>1 DEF RowsInv, TasksOK
<1>5. MembersBounded' /\ UnreadBounded'
  BY <1>1 DEF RowsInv, MembersBounded, UnreadBounded, Adding, Counting
<1>6. RowsAgree'
  BY <1>1 DEF RowsInv, RowsAgree, Agrees, C!Members
<1> QED
  BY <1>2, <1>3, <1>4, <1>5, <1>6 DEF RowsInv

(* The rows that agree are what the property asks for.                     *)
LEMMA RowsShow ==
  ASSUME RowsInv
  PROVE  C!TypeOK /\ C!RowsFollowGroup
<1>1. /\ StoreOK /\ IsGroup(group) /\ kind \in {"direct", "group"} /\ clock \in Nat /\ created \in Nat
      /\ MaxConvs \in Nat /\ Tasks # {} /\ IsFiniteSet(Tasks) /\ Cardinality(Tasks) \in Nat
  BY ConversationsAssumption, Here, FS_CardinalityType
<1>2. \A u \in Users : group.members[u] \in 0 .. Cardinality(Tasks)
  <2> SUFFICES ASSUME NEW u \in Users PROVE group.members[u] \in 0 .. Cardinality(Tasks)
    OBVIOUS
  <2>1. group.members[u] \in Nat /\ group.members[u] + Cardinality(Adding(u)) <= Cardinality(Tasks)
    BY <1>1 DEF RowsInv, MembersBounded, IsGroup
  <2>2. Cardinality(Adding(u)) \in Nat
    BY Fewer DEF Adding
  <2> QED
    BY <1>1, <2>1, <2>2
<1>3. \A k \in C!Convs, u \in Users : row[k][u] \in C!RowType
  <2> SUFFICES ASSUME NEW k \in C!Convs, NEW u \in Users PROVE row[k][u] \in C!RowType
    OBVIOUS
  <2>1. row[k][u] \in RowKind
    BY <1>1 DEF StoreOK
  <2>2. row[k][u].unread \in Nat /\ row[k][u].unread + Cardinality(Counting(u)) <= clock
    BY <2>1 DEF RowsInv, UnreadBounded, RowKind
  <2>3. Cardinality(Counting(u)) \in Nat
    BY Fewer DEF Counting
  <2>4. row[k][u].unread \in C!Times
    BY <1>1, <2>2, <2>3 DEF C!Times
  <2> QED
    BY <2>1, <2>4 DEF RowKind, C!RowType
<1>4. C!TypeOK
  <2>1. \A t \in Tasks : task[t].todo \subseteq task[t].shape
    BY Here DEF RecordOK
  <2>2. group.state \in {"none", "live", "deleted"} /\ created <= MaxConvs
    BY <1>1 DEF IsGroup, StoreOK
  <2>3. /\ conv.id \in 0..created /\ conv.last \in C!Times /\ group.admin \in Users \cup {Nobody}
        /\ \A m \in msgs : m.at \in C!Times /\ m.aud \subseteq Users /\ m.seen \subseteq Users
    BY <1>1 DEF StoreOK
  <2> QED
    <3>1. kind \in {"direct", "group"}
      BY <1>1
    <3>2. \A u \in Users : group.members[u] \in 0..C!Cardinality(Tasks)
      <4>1. C!Cardinality(Tasks) = Cardinality(Tasks)
        BY DEF C!Cardinality, Cardinality
      <4> QED
        BY <1>2, <4>1
    <3>3. \A k \in C!Convs, u \in Users : row[k][u] \in C!RowType
      BY <1>3
    <3> QED
      BY <2>1, <2>2, <2>3, <3>1, <3>2, <3>3, Zenon DEF C!TypeOK
<1>5. C!RowsFollowGroup
  <2> SUFFICES ASSUME group.state = "live", \A t \in Tasks : task[t].op \notin C!GroupOps,
                      NEW u \in Users \ muddled
               PROVE  Agrees(u)
    BY DEF C!RowsFollowGroup, Agrees
  <2>1. ASSUME NEW t \in Tasks PROVE ~Owes(task[t], u)
    <3>1. RecordOK(task[t], clock, created)
      BY Here
    <3> QED
      BY <2>1, <3>1 DEF RecordOK, Owes, Syncing, Changes, C!GroupOps
  <2> QED
    BY <2>1 DEF RowsInv, RowsAgree
<1> QED
  BY <1>4, <1>5

(* When no change of a group is under way, a user is an active participant *)
(* in the role the group gives exactly when the user is a member, unless a *)
(* sync or a message wrote an outdated copy or was broken off; and counts, *)
(* times and members stay within their bounds (syncGroupLifecycle,         *)
(* ensureParticipant).                                                     *)
THEOREM RowsFollowTheGroup == ServerSpec => []RowsFollowGroup
<1>1. ServerInit => (part = "conversations" => RowsInv)
  BY RowsInit DEF ServerInit
<1>2. (part = "conversations" => RowsInv) /\ [ServerNext]_<<part, convVars, uploadVars>>
        => (part = "conversations" => RowsInv)'
  <2> SUFFICES ASSUME part = "conversations" => RowsInv, [ServerNext]_<<part, convVars, uploadVars>>
               PROVE  (part = "conversations" => RowsInv)'
    OBVIOUS
  <2>1. CASE part = "conversations" /\ C!Next /\ UNCHANGED part
    <3>1. RowsInv /\ GroupInv
      BY <2>1 DEF RowsInv
    <3> QED
      BY <2>1, <3>1, ConversationsStep, RowsStep
  <2>2. CASE part # "conversations" /\ UNCHANGED part
    BY <2>2
  <2>3. CASE UNCHANGED <<part, convVars, uploadVars>>
    BY <2>3, RowsRest
  <2> QED
    BY <2>1, <2>2, <2>3 DEF ServerNext
<1>3. (part = "conversations" => RowsInv) => RowsFollowGroup
  BY RowsShow DEF RowsFollowGroup
<1> QED
  BY <1>1, <1>2, <1>3, PTL DEF ServerSpec

-----------------------------------------------------------------------------

(* What readers get: unread counts and pages.                              *)

(* The conversation stands: it is direct, or its group is not deleted.     *)
Standing == kind = "direct" \/ group.state # "deleted"
Writing == {"shape", "upsert", "find", "put"}

(* A conversation that stands has one Conversation document at most, and   *)
(* rows of no other one; before the group is created nothing is under way. *)
OneConversation ==
  /\ \A k \in C!Convs, u \in Users : row[k][u].live \/ row[k][u] = C!NoRow
  /\ Standing =>
       /\ conv.id = created /\ created \in {0, 1}
       /\ \A k \in C!Convs \ {1}, u \in Users : ~row[k][u].live
       /\ \A t \in Tasks : task[t].pc \in {"syncRow", "put"} /\ task[t].found.live => row[1][task[t].cur].live
  /\ kind = "group" /\ group.state = "none" => \A t \in Tasks : task[t].pc \in {"idle", "insert", "member", "allow"}

(* A request that writes its message out has one of its own, which no row  *)
(* it has still to write shows as the last one; whom it has still to count *)
(* the message for has not seen it, and it counts for the message's        *)
(* audience: but for the blurred.                                          *)
WrittenAs(r, m, B) ==
  /\ m.at = r.msg /\ m.by = (IF r.op = "send" THEN r.who ELSE Nobody)
  /\ r.op = "create" => r.who \in m.seen
  /\ \A u \in Users \ B :
       /\ Counts(r, u) /\ u \in m.seen => r.op = "create" /\ u = r.who
       /\ r.pc # "shape" => (u \in m.aud <=> u \in r.shape)
Parts == {"at", "by", "aud", "may", "seen"}
MessageTimes ==
  /\ \A m \in msgs : m.at \in 1 .. clock /\ DOMAIN m = Parts
  /\ \A m, n \in msgs : m.at = n.at => m = n
MessageOK(t) ==
  task[t].pc \in Writing =>
    /\ task[t].msg \in 1 .. clock
    /\ \A k \in C!Convs, u \in Users : Counts(task[t], u) => row[k][u].last # task[t].msg
    /\ \A s \in Tasks \ {t} : task[s].pc \in Writing => task[s].msg # task[t].msg
    /\ Standing => \E m \in msgs : WrittenAs(task[t], m, blurred)
    /\ Standing /\ task[t].pc = "put" /\ ~task[t].crossed => row[1][task[t].cur].deleted < task[t].msg
MessagesOK == MessageTimes /\ \A t \in Tasks : MessageOK(t)

(* A count is that of the messages its user owes a look, without those     *)
(* that are still to be counted.                                           *)
Reading(u) == \E t \in Tasks : task[t].pc = "zero" /\ task[t].who = u
Unseen(u, n) == \E m \in msgs : m.at = n /\ u \in m.aud /\ u \notin m.seen /\ m.by # u
Due(u) == {n \in Nat : /\ Unseen(u, n) /\ n > row[1][u].deleted
                       /\ \A t \in Tasks : Counts(task[t], u) => task[t].msg # n}
UnreadOK ==
  Standing => \A u \in Users \ blurred : Reading(u) \/ row[1][u].unread = Cardinality(Due(u))

(* A row remembers when its user cleared the history, and a page asks for  *)
(* the row before it has one.                                              *)
ClearedOK ==
  /\ cleared \in [Users -> 0 .. clock]
  /\ \A t \in Tasks :
       /\ task[t].pc # "idle" => task[t].since \in Nat /\ task[t].since <= cleared[task[t].who]
       /\ task[t].pc \in {"member", "bounds"} => task[t].found = C!NoRow
  /\ Standing =>
       /\ \A u \in Users : row[1][u].deleted = cleared[u]
       /\ \A t \in Tasks : task[t].pc = "fetch" =>
            task[t].found.deleted \in Nat /\ task[t].since <= task[t].found.deleted

(* A user with a role may see every message since joining, and so may one  *)
(* whose row a request is about to write after its copy of the group.      *)
AllSince(u, n, M) == \A m \in M : n <= m.at => u \in m.may
Copied(r, u, M) ==
  \/ r.pc \in {"syncConv", "syncPut", "upsert"} /\ u \in r.shape
  \/ r.pc \in {"syncFind", "syncRow", "find", "put"} /\ u \in r.todo
  \/ r.pc = "shape" /\ \E m \in M : m.at = r.msg /\ u \in m.aud
Base(r) == IF r.pc \in Writing THEN r.msg ELSE r.now
Unbased == {"syncConv", "syncPut"}
Paged(r, u, M) == \A m \in M : r.found.joined <= m.at /\ m.at <= r.now => u \in m.may
CopyOK(r, u, M, now, rows) ==
  /\ Copied(r, u, M) => u \in now /\ (r.pc \notin Unbased => AllSince(u, Base(r), M))
  /\ r.pc = "syncRow" /\ r.cur = u /\ r.found.live /\ r.found.left = 0 => AllSince(u, rows[1][u].joined, M)
  /\ r.pc = "fetch" /\ r.who = u /\ r.found.role # "none" => Paged(r, u, M)
JoinedOK(u) ==
  /\ row[1][u].role # "none" => AllSince(u, row[1][u].joined, msgs)
  /\ \A t \in Tasks : CopyOK(task[t], u, msgs, C!Members, row)
PagesOK ==
  Standing /\ kind = "group" =>
    /\ \A u \in Users : row[1][u].live =>
         (row[1][u].left = 0 <=> row[1][u].role # "none") /\ row[1][u].joined # 0
    /\ \A t \in Tasks : task[t].pc = "fetch" /\ task[t].found.role # "none" => task[t].found.joined \in Nat \ {0}
    /\ \A u \in Users \ strayed : JoinedOK(u)

ReadsInv == OneConversation /\ MessagesOK /\ UnreadOK /\ ClearedOK /\ PagesOK

(* The step of a request: it takes a new record, the others are at most    *)
(* told that a deletion crossed them; what is recorded stays recorded.     *)
Kin(n, o) ==
  /\ n.op = o.op /\ n.who = o.who /\ n.pc = o.pc /\ n.cur = o.cur /\ n.todo = o.todo /\ n.shape = o.shape
  /\ n.msg = o.msg /\ n.now = o.now /\ n.found = o.found /\ n.since = o.since /\ (o.crossed => n.crossed)
Steps(t, r) ==
  /\ task'[t] = r /\ \A s \in Tasks \ {t} : Kin(task'[s], task[s])
  /\ kind' = kind /\ clock' \in Nat /\ clock <= clock'
  /\ blurred \subseteq blurred' /\ strayed \subseteq strayed' /\ (Standing' => Standing)

(* A step that moves one request.                                          *)
LEMMA MoveSteps ==
  ASSUME RowsInv, NEW t \in Tasks, NEW r, C!Move(t, r), UNCHANGED kind, clock' \in Nat, clock <= clock',
         blurred \subseteq blurred', strayed \subseteq strayed', Standing' => Standing
  PROVE  Steps(t, r)
<1>1. DOMAIN task = Tasks
  BY DEF RowsInv, GroupInv
<1>2. task'[t] = r /\ \A s \in Tasks \ {t} : task'[s] = task[s]
  BY <1>1 DEF C!Move
<1>3. \A s \in Tasks \ {t} : Kin(task'[s], task[s])
  BY <1>2 DEF Kin
<1> QED
  BY <1>2, <1>3 DEF Steps

(* The Conversation document and the rows stay one.                        *)
LEMMA OneStays ==
  ASSUME RowsInv, OneConversation, NEW t \in Tasks, NEW r, Steps(t, r),
         \A k \in C!Convs, u \in Users : row'[k][u].live \/ row'[k][u] = C!NoRow,
         Standing' => /\ conv'.id = created' /\ created' \in {0, 1}
                      /\ \A k \in C!Convs \ {1}, u \in Users : ~row'[k][u].live
                      /\ \A u \in Users : row[1][u].live => row'[1][u].live
                      /\ r.pc \in {"syncRow", "put"} /\ r.found.live => row'[1][r.cur].live,
         kind = "group" /\ group'.state = "none" =>
           group.state = "none" /\ r.pc \in {"idle", "insert", "member", "allow"}
  PROVE  OneConversation'
<1>1. ASSUME Standing', NEW s \in Tasks, task'[s].pc \in {"syncRow", "put"}, task'[s].found.live
      PROVE  row'[1][task'[s].cur].live
  <2>1. CASE s = t
    BY <1>1, <2>1 DEF Steps
  <2>2. CASE s # t
    <3>1. Kin(task'[s], task[s]) /\ Standing
      BY <1>1, <2>2 DEF Steps
    <3>2. task[s].pc \in {"syncRow", "put"} /\ task[s].found.live /\ task'[s].cur = task[s].cur
      BY <1>1, <3>1 DEF Kin
    <3>3. RecordOK(task[s], clock, created)
      BY Here
    <3>4. task[s].cur \in Users
      BY <3>2, <3>3 DEF RecordOK
    <3> QED
      BY <1>1, <3>1, <3>2, <3>4 DEF OneConversation
  <2> QED
    BY <2>1, <2>2
<1>2. ASSUME kind = "group", group'.state = "none", NEW s \in Tasks
      PROVE  task'[s].pc \in {"idle", "insert", "member", "allow"}
  <2>1. s # t => task'[s].pc = task[s].pc
    BY DEF Steps, Kin
  <2> QED
    BY <1>2, <2>1 DEF Steps, OneConversation
<1>3. kind' = kind
  BY DEF Steps
<1> QED
  BY <1>1, <1>2, <1>3 DEF OneConversation

(* Nothing of the Conversation or its rows changes.                        *)
LEMMA OneRests ==
  ASSUME RowsInv, OneConversation, NEW t \in Tasks, NEW r, Steps(t, r),
         UNCHANGED <<row, created>>, conv'.id = conv.id,
         Standing /\ r.pc \in {"syncRow", "put"} /\ r.found.live => row[1][r.cur].live,
         kind = "group" /\ group'.state = "none" =>
           group.state = "none" /\ r.pc \in {"idle", "insert", "member", "allow"}
  PROVE  OneConversation'
<1>1. Standing' => Standing
  BY DEF Steps
<1>2. \A k \in C!Convs, u \in Users : row'[k][u].live \/ row'[k][u] = C!NoRow
  BY DEF OneConversation
<1>3. Standing' => /\ conv'.id = created' /\ created' \in {0, 1}
                   /\ \A k \in C!Convs \ {1}, u \in Users : ~row'[k][u].live
                   /\ \A u \in Users : row[1][u].live => row'[1][u].live
                   /\ r.pc \in {"syncRow", "put"} /\ r.found.live => row'[1][r.cur].live
  BY <1>1 DEF OneConversation
<1> QED
  BY <1>2, <1>3, OneStays

(* The messages are the same ones, but that the users of S may have seen   *)
(* more of them and more users may see them.                               *)
Newer(m, n, S) ==
  /\ DOMAIN n = DOMAIN m /\ n.at = m.at /\ n.by = m.by /\ n.aud = m.aud
  /\ m.seen \subseteq n.seen /\ n.seen \subseteq m.seen \cup S /\ m.may \subseteq n.may
Renewed(S) ==
  /\ \A m \in msgs : \E n \in msgs' : Newer(m, n, S)
  /\ \A n \in msgs' : \E m \in msgs : Newer(m, n, S)
  /\ \A m, n \in msgs' : m.at = n.at => m = n

(* The same messages are no other ones.                                    *)
LEMMA SameRenews ==
  ASSUME MessagesOK, UNCHANGED msgs
  PROVE  Renewed({})
<1>1. \A m \in msgs : Newer(m, m, {})
  BY DEF Newer
<1> QED
  BY <1>1 DEF Renewed, MessagesOK, MessageTimes

(* What is told of a message stays true of its renewal.                    *)
LEMMA WrittenStays ==
  ASSUME NEW S, NEW r, NEW q, NEW m \in msgs, WrittenAs(q, m, blurred), Renewed(S), blurred \subseteq blurred',
         r.msg = q.msg, r.op = q.op, r.who = q.who,
         \A u \in Users \ blurred' : Counts(r, u) => Counts(q, u) /\ u \notin S,
         \A u \in Users \ blurred' : r.pc # "shape" =>
           IF q.pc = "shape" THEN \A n \in msgs : n.at = q.msg => (u \in n.aud <=> u \in r.shape)
           ELSE u \in r.shape <=> u \in q.shape
  PROVE  \E n \in msgs' : WrittenAs(r, n, blurred')
<1>1. PICK n \in msgs' : Newer(m, n, S)
  BY DEF Renewed
<1>2. n.at = r.msg /\ n.by = (IF r.op = "send" THEN r.who ELSE Nobody) /\ (r.op = "create" => r.who \in n.seen)
  BY <1>1 DEF Newer, WrittenAs
<1>3. ASSUME NEW u \in Users \ blurred', Counts(r, u), u \in n.seen
      PROVE  r.op = "create" /\ u = r.who
  BY <1>1, <1>3 DEF Newer, WrittenAs
<1>4. ASSUME NEW u \in Users \ blurred', r.pc # "shape"
      PROVE  u \in n.aud <=> u \in r.shape
  <2>1. m.at = q.msg /\ n.aud = m.aud
    BY <1>1 DEF Newer, WrittenAs
  <2> QED
    BY <1>4, <2>1 DEF WrittenAs
<1>5. /\ n.at = r.msg /\ n.by = (IF r.op = "send" THEN r.who ELSE Nobody)
      /\ r.op = "create" => r.who \in n.seen
      /\ \A u \in Users \ blurred' :
           /\ Counts(r, u) /\ u \in n.seen => r.op = "create" /\ u = r.who
           /\ r.pc # "shape" => (u \in n.aud <=> u \in r.shape)
  BY <1>2, <1>3, <1>4
<1>6. WrittenAs(r, n, blurred')
  BY <1>5 DEF WrittenAs
<1> QED
  BY <1>6

(* What a request that writes its message out has before and after it.     *)
LastKept(t, r) ==
  \A k \in C!Convs, u \in Users :
    \/ row'[k][u].last = row[k][u].last \/ row'[k][u].last = 0
    \/ task[t].pc \in Writing /\ row'[k][u].last = task[t].msg /\ ~Counts(r, u)
Crossing(t) ==
  \A u \in Users : \/ row'[1][u].deleted = row[1][u].deleted
                   \/ \A s \in Tasks \ {t} : task[s].pc = "put" /\ task[s].cur = u => task'[s].crossed
Unmarked(t, S) ==
  \A u \in S \ blurred' : \A s \in Tasks \ {t} : ~Counts(task[s], u)
WritesOn(t, r) ==
  r.pc \in Writing =>
    /\ task[t].pc \in Writing /\ r.msg = task[t].msg /\ r.op = task[t].op /\ r.who = task[t].who
    /\ \A u \in Users : Counts(r, u) => Counts(task[t], u)
    /\ \A u \in Users \ blurred' : r.pc # "shape" =>
         IF task[t].pc = "shape" THEN \A n \in msgs : n.at = task[t].msg => (u \in n.aud <=> u \in r.shape)
         ELSE u \in r.shape <=> u \in task[t].shape
    /\ Standing /\ r.pc = "put" /\ ~r.crossed => row'[1][r.cur].deleted < r.msg

(* A message that was being written out still is, or has been.             *)
LEMMA MessageStays ==
  ASSUME RowsInv, MessagesOK, NEW t \in Tasks, NEW r, NEW S, Steps(t, r), Renewed(S), LastKept(t, r), Crossing(t),
         Unmarked(t, S), WritesOn(t, r), r.pc \in Writing => S \subseteq blurred', NEW s \in Tasks
  PROVE  MessageOK(s)'
<1> SUFFICES ASSUME task'[s].pc \in Writing
             PROVE  /\ task'[s].msg \in 1 .. clock'
                    /\ \A k \in C!Convs, u \in Users : Counts(task'[s], u) => row'[k][u].last # task'[s].msg
                    /\ \A v \in Tasks \ {s} : task'[v].pc \in Writing => task'[v].msg # task'[s].msg
                    /\ Standing' => \E m \in msgs' : WrittenAs(task'[s], m, blurred')
                    /\ Standing' /\ task'[s].pc = "put" /\ ~task'[s].crossed =>
                         row'[1][task'[s].cur].deleted < task'[s].msg
  BY DEF MessageOK, Counts
<1>1. clock \in Nat /\ clock' \in Nat /\ clock <= clock'
  BY Here DEF Steps
(* Whoever writes out wrote the same message out before. *)
<1>2. ASSUME NEW v \in Tasks, task'[v].pc \in Writing
      PROVE  /\ task[v].pc \in Writing /\ task'[v].msg = task[v].msg /\ task'[v].op = task[v].op
             /\ task'[v].who = task[v].who /\ \A u \in Users : Counts(task'[v], u) => Counts(task[v], u)
  <2>1. CASE v = t
    BY <1>2, <2>1 DEF Steps, WritesOn
  <2>2. CASE v # t
    <3>1. Kin(task'[v], task[v])
      BY <2>2 DEF Steps
    <3> QED
      BY <1>2, <3>1 DEF Kin, Counts
  <2> QED
    BY <2>1, <2>2
<1>3. /\ task[s].pc \in Writing /\ task'[s].msg = task[s].msg /\ task'[s].op = task[s].op
      /\ task'[s].who = task[s].who /\ \A u \in Users : Counts(task'[s], u) => Counts(task[s], u)
  BY <1>2
<1>4. MessageOK(s)
  BY DEF MessagesOK
<1>5. task[s].msg \in 1 .. clock
  BY <1>3, <1>4 DEF MessageOK
<1>6. task'[s].msg \in 1 .. clock'
  BY <1>1, <1>3, <1>5
<1>7. \A v \in Tasks \ {s} : task'[v].pc \in Writing => task'[v].msg # task'[s].msg
  BY <1>2, <1>3, <1>4 DEF MessageOK
<1>8. ASSUME NEW k \in C!Convs, NEW u \in Users, Counts(task'[s], u)
      PROVE  row'[k][u].last # task'[s].msg
  <2>1. row[k][u].last # task[s].msg
    BY <1>3, <1>4, <1>8 DEF MessageOK
  <2>2. CASE row'[k][u].last = row[k][u].last \/ row'[k][u].last = 0
    BY <1>3, <1>5, <2>1, <2>2
  <2>3. CASE task[t].pc \in Writing /\ row'[k][u].last = task[t].msg /\ ~Counts(r, u)
    <3>1. s # t
      BY <1>8, <2>3 DEF Steps
    <3> QED
      BY <1>3, <1>4, <2>3, <3>1 DEF MessageOK
  <2> QED
    BY <2>2, <2>3 DEF LastKept
<1>9. ASSUME Standing'
      PROVE  \E m \in msgs' : WrittenAs(task'[s], m, blurred')
  <2>1. Standing /\ blurred \subseteq blurred'
    BY <1>9 DEF Steps
  <2>2. PICK m \in msgs : WrittenAs(task[s], m, blurred)
    BY <1>3, <1>4, <2>1 DEF MessageOK
  <2>3. \A u \in Users \ blurred' : Counts(task'[s], u) => u \notin S
    <3>1. CASE s = t
      BY <3>1 DEF Steps
    <3>2. CASE s # t
      BY <1>3, <3>2 DEF Unmarked
    <3> QED
      BY <3>1, <3>2
  <2>4. \A u \in Users \ blurred' : task'[s].pc # "shape" =>
          IF task[s].pc = "shape" THEN \A n \in msgs : n.at = task[s].msg => (u \in n.aud <=> u \in task'[s].shape)
          ELSE u \in task'[s].shape <=> u \in task[s].shape
    <3>1. CASE s = t
      BY <3>1 DEF Steps, WritesOn
    <3>2. CASE s # t
      <4>1. Kin(task'[s], task[s])
        BY <3>2 DEF Steps
      <4> QED
        BY <4>1 DEF Kin
    <3> QED
      BY <3>1, <3>2
  <2>5. \A q : /\ q.msg = task[s].msg /\ q.op = task[s].op /\ q.who = task[s].who
               /\ \A u \in Users \ blurred' : Counts(q, u) => Counts(task[s], u) /\ u \notin S
               /\ \A u \in Users \ blurred' : q.pc # "shape" =>
                    IF task[s].pc = "shape" THEN \A n \in msgs : n.at = task[s].msg => (u \in n.aud <=> u \in q.shape)
                    ELSE u \in q.shape <=> u \in task[s].shape
               => \E n \in msgs' : WrittenAs(q, n, blurred')
    BY <2>1, <2>2, WrittenStays
  <2> QED
    BY <1>3, <2>3, <2>4, <2>5
<1>10. ASSUME Standing', task'[s].pc = "put", ~task'[s].crossed
       PROVE  row'[1][task'[s].cur].deleted < task'[s].msg
  <2>1. CASE s = t
    BY <1>10, <2>1 DEF Steps, WritesOn, Writing
  <2>2. CASE s # t
    <3>1. Kin(task'[s], task[s]) /\ Standing
      BY <1>10, <2>2 DEF Steps
    <3>2. task[s].pc = "put" /\ ~task[s].crossed /\ task'[s].cur = task[s].cur
      BY <1>10, <3>1 DEF Kin
    <3>3. row[1][task[s].cur].deleted < task[s].msg
      BY <1>3, <1>4, <3>1, <3>2 DEF MessageOK
    <3>4. task[s].cur \in Users
      <4>1. RecordOK(task[s], clock, created)
        BY Here
      <4> QED
        BY <3>2, <4>1 DEF RecordOK
    <3>5. row'[1][task[s].cur].deleted = row[1][task[s].cur].deleted
      BY <1>10, <2>2, <3>2, <3>4 DEF Crossing
    <3> QED
      BY <1>3, <3>2, <3>3, <3>5
  <2> QED
    BY <2>1, <2>2
<1> QED
  BY <1>6, <1>7, <1>8, <1>9, <1>10

(* The messages and those that write them out.                             *)
LEMMA MessagesStay ==
  ASSUME RowsInv, MessagesOK, NEW t \in Tasks, NEW r, NEW S, Steps(t, r), Renewed(S), LastKept(t, r), Crossing(t),
         Unmarked(t, S), WritesOn(t, r), r.pc \in Writing => S \subseteq blurred'
  PROVE  MessagesOK'
<1>1. clock \in Nat /\ clock' \in Nat /\ clock <= clock'
  BY Here DEF Steps
<1>2. \A n \in msgs' : n.at \in 1 .. clock' /\ DOMAIN n = Parts
  <2> SUFFICES ASSUME NEW n \in msgs' PROVE n.at \in 1 .. clock' /\ DOMAIN n = Parts
    OBVIOUS
  <2>1. PICK m \in msgs : Newer(m, n, S)
    BY DEF Renewed
  <2>2. m.at \in 1 .. clock /\ n.at = m.at /\ DOMAIN n = Parts
    BY <2>1 DEF Newer, MessagesOK, MessageTimes
  <2> QED
    BY <1>1, <2>2
<1>3. \A m, n \in msgs' : m.at = n.at => m = n
  BY DEF Renewed
<1>4. \A s \in Tasks : MessageOK(s)'
  BY MessageStays
<1> QED
  BY <1>2, <1>3, <1>4 DEF MessagesOK, MessageTimes

(* What is unseen is so afterwards, but for those who have marked it.      *)
LEMMA UnseenStays ==
  ASSUME NEW S, Renewed(S), NEW u, u \notin S, NEW n
  PROVE  Unseen(u, n)' <=> Unseen(u, n)
<1>1. ASSUME NEW m \in msgs, m.at = n, u \in m.aud, u \notin m.seen, m.by # u
      PROVE  \E k \in msgs' : k.at = n /\ u \in k.aud /\ u \notin k.seen /\ k.by # u
  <2>1. PICK k \in msgs' : Newer(m, k, S)
    BY DEF Renewed
  <2> QED
    BY <1>1, <2>1 DEF Newer
<1>2. ASSUME NEW k \in msgs', k.at = n, u \in k.aud, u \notin k.seen, k.by # u
      PROVE  \E m \in msgs : m.at = n /\ u \in m.aud /\ u \notin m.seen /\ m.by # u
  <2>1. PICK m \in msgs : Newer(m, k, S)
    BY DEF Renewed
  <2> QED
    BY <1>2, <2>1 DEF Newer
<1> QED
  BY <1>1, <1>2 DEF Unseen

(* The messages due to a user whom the step neither counts a message for   *)
(* nor reads, unless it leaves off one that is not due.                    *)
Settles(t, r, u) ==
  \/ Counts(r, u) <=> Counts(task[t], u)
  \/ /\ Counts(task[t], u)
     /\ ~Unseen(u, task[t].msg) \/ task[t].msg <= row[1][u].deleted

(* What is due stays due.                                                  *)
LEMMA DueStays ==
  ASSUME NEW t \in Tasks, NEW r, NEW S, Steps(t, r), Renewed(S), NEW u, u \notin S,
         Counts(r, u) => r.msg = task[t].msg, Settles(t, r, u), row'[1][u].deleted = row[1][u].deleted,
         row[1][u].deleted \in Nat
  PROVE  Due(u)' = Due(u)
<1>1. \A n : Unseen(u, n)' <=> Unseen(u, n)
  BY UnseenStays
<1>2. \A s \in Tasks \ {t} : (Counts(task'[s], u) <=> Counts(task[s], u)) /\ task'[s].msg = task[s].msg
  BY DEF Steps, Kin, Counts
<1>3. task'[t] = r
  BY DEF Steps
<1>4. ASSUME NEW n \in Nat, Unseen(u, n), n > row[1][u].deleted
      PROVE  (\A s \in Tasks : Counts(task'[s], u) => task'[s].msg # n)
               <=> (\A s \in Tasks : Counts(task[s], u) => task[s].msg # n)
  <2>1. (Counts(r, u) => r.msg # n) <=> (Counts(task[t], u) => task[t].msg # n)
    BY <1>4 DEF Settles
  <2> QED
    BY <1>2, <1>3, <2>1
<1>5. \A n \in Nat : n \in Due(u) <=> /\ Unseen(u, n) /\ n > row[1][u].deleted
                                      /\ \A s \in Tasks : Counts(task[s], u) => task[s].msg # n
  BY DEF Due
<1>6. \A n \in Nat : n \in Due(u)' <=> /\ Unseen(u, n)' /\ n > row'[1][u].deleted
                                       /\ \A s \in Tasks : Counts(task'[s], u) => task'[s].msg # n
  BY DEF Due, Counts
<1>7. Due(u) \subseteq Nat /\ Due(u)' \subseteq Nat
  BY DEF Due
<1> QED
  BY <1>1, <1>4, <1>5, <1>6, <1>7

(* What is due is finite.                                                  *)
LEMMA DueFinite ==
  ASSUME RowsInv, MessagesOK, NEW u
  PROVE  IsFiniteSet(Due(u)) /\ Cardinality(Due(u)) \in Nat
<1>1. clock \in Nat
  BY Here DEF RowsInv, StoreOK
<1>2. IsFiniteSet(1 .. clock)
  BY <1>1, FS_Interval
<1>3. Due(u) \subseteq 1 .. clock
  BY DEF Due, Unseen, MessagesOK, MessageTimes
<1> QED
  BY <1>2, <1>3, FS_Subset, FS_CardinalityType

(* A step that leaves a user's count and its reading alone.                *)
CountKept(t, r, S, u) ==
  /\ u \notin S /\ (Counts(r, u) => r.msg = task[t].msg) /\ Settles(t, r, u)
  /\ task[t].pc = "zero" => task[t].who # u
  /\ row'[1][u].deleted = row[1][u].deleted /\ row'[1][u].unread = row[1][u].unread
CountOK(u) == Reading(u) \/ row[1][u].unread = Cardinality(Due(u))

(* A count that is kept stays exact.                                       *)
LEMMA CountStays ==
  ASSUME RowsInv, MessagesOK, NEW t \in Tasks, NEW r, NEW S, Steps(t, r), Renewed(S), NEW u \in Users,
         CountKept(t, r, S, u), CountOK(u)
  PROVE  CountOK(u)'
<1>1. row[1][u].deleted \in Nat
  <2>1. StoreOK /\ 1 \in C!Convs
    BY Here, ConversationsAssumption DEF C!Convs
  <2> QED
    BY <2>1 DEF StoreOK, RowKind, C!Times
<1>2. CASE Reading(u)
  <2>1. PICK s \in Tasks : task[s].pc = "zero" /\ task[s].who = u
    BY <1>2 DEF Reading
  <2>2. s # t /\ Kin(task'[s], task[s])
    BY <2>1 DEF Steps, CountKept
  <2> QED
    BY <2>1, <2>2 DEF CountOK, Reading, Kin
<1>3. CASE row[1][u].unread = Cardinality(Due(u))
  <2>1. Due(u)' = Due(u)
    BY <1>1, DueStays DEF CountKept
  <2> QED
    BY <1>3, <2>1 DEF CountOK, CountKept
<1> QED
  BY <1>2, <1>3 DEF CountOK

(* The unread counts stay exact.                                           *)
LEMMA UnreadLasts ==
  ASSUME RowsInv, MessagesOK, UnreadOK, NEW t \in Tasks, NEW r, NEW S, Steps(t, r), Renewed(S),
         Standing' => \A u \in Users \ blurred' : CountKept(t, r, S, u) \/ CountOK(u)'
  PROVE  UnreadOK'
<1> SUFFICES ASSUME Standing', NEW u \in Users \ blurred', CountKept(t, r, S, u)
             PROVE  CountOK(u)'
  BY DEF UnreadOK, CountOK
<1>1. Standing /\ u \notin blurred
  BY DEF Steps
<1>2. CountOK(u)
  BY <1>1 DEF UnreadOK, CountOK
<1> QED
  BY <1>2, CountStays

Carries(q, r) ==
  /\ r.pc # "idle" => /\ r.who \in Users
                      /\ \/ q.pc # "idle" /\ r.since = q.since /\ r.who = q.who
                         \/ r.since = cleared[r.who]
  /\ r.pc \in {"member", "bounds"} => r.found = C!NoRow

(* When the histories were cleared.                                        *)
LEMMA ClearedStays ==
  ASSUME RowsInv, ClearedOK, NEW t \in Tasks, NEW r, Steps(t, r),
         cleared' \in [Users -> 0 .. clock'], \A u \in Users : cleared[u] <= cleared'[u],
         Carries(task[t], r),
         Standing' => /\ \A u \in Users : row'[1][u].deleted = cleared'[u]
                      /\ r.pc = "fetch" => r.found.deleted \in Nat /\ r.since <= r.found.deleted
  PROVE  ClearedOK'
<1>1. ASSUME NEW s \in Tasks, task'[s].pc # "idle"
      PROVE  task'[s].since \in Nat /\ task'[s].since <= cleared'[task'[s].who]
  <2>1. CASE s = t
    <3>1. r.who \in Users /\ cleared[r.who] \in Nat /\ cleared'[r.who] \in Nat /\ cleared[r.who] <= cleared'[r.who]
      BY <1>1, <2>1 DEF Steps, ClearedOK, Carries
    <3>2. r.since \in Nat /\ r.since <= cleared[r.who]
      BY <1>1, <2>1, <3>1 DEF Steps, ClearedOK, Carries
    <3> QED
      BY <2>1, <3>1, <3>2 DEF Steps
  <2>2. CASE s # t
    <3>1. Kin(task'[s], task[s])
      BY <2>2 DEF Steps
    <3>2. task[s].pc # "idle" /\ task'[s].since = task[s].since /\ task'[s].who = task[s].who
      BY <1>1, <3>1 DEF Kin
    <3>3. RecordOK(task[s], clock, created)
      BY Here
    <3>4. task[s].who \in Users /\ task[s].since \in Nat /\ task[s].since <= cleared[task[s].who]
      BY <3>2, <3>3 DEF RecordOK, ClearedOK
    <3>5. cleared[task[s].who] \in Nat /\ cleared'[task[s].who] \in Nat
          /\ cleared[task[s].who] <= cleared'[task[s].who]
      BY <3>4 DEF ClearedOK
    <3> QED
      BY <3>2, <3>4, <3>5
  <2> QED
    BY <2>1, <2>2
<1>2. ASSUME Standing', NEW s \in Tasks, task'[s].pc = "fetch"
      PROVE  task'[s].found.deleted \in Nat /\ task'[s].since <= task'[s].found.deleted
  <2>1. CASE s = t
    BY <1>2, <2>1 DEF Steps
  <2>2. CASE s # t
    <3>1. Kin(task'[s], task[s]) /\ Standing
      BY <1>2, <2>2 DEF Steps
    <3> QED
      BY <1>2, <3>1 DEF Kin, ClearedOK
  <2> QED
    BY <2>1, <2>2
<1>3. ASSUME NEW s \in Tasks, task'[s].pc \in {"member", "bounds"}
      PROVE  task'[s].found = C!NoRow
  <2>1. CASE s = t
    BY <1>3, <2>1 DEF Steps, Carries
  <2>2. CASE s # t
    <3>1. Kin(task'[s], task[s])
      BY <2>2 DEF Steps
    <3> QED
      BY <1>3, <3>1 DEF Kin, ClearedOK
  <2> QED
    BY <2>1, <2>2
<1> QED
  BY <1>1, <1>2, <1>3 DEF ClearedOK

(* Nothing is cleared.                                                     *)
LEMMA ClearedRests ==
  ASSUME RowsInv, ClearedOK, NEW t \in Tasks, NEW r, Steps(t, r), cleared' = cleared,
         Carries(task[t], r),
         Standing' => /\ \A u \in Users : row'[1][u].deleted = row[1][u].deleted
                      /\ r.pc = "fetch" => r.found.deleted \in Nat /\ r.since <= r.found.deleted
  PROVE  ClearedOK'
<1>1. cleared' \in [Users -> 0 .. clock'] /\ \A u \in Users : cleared[u] <= cleared'[u]
  BY Here DEF ClearedOK, Steps
<1>2. Standing' => \A u \in Users : row'[1][u].deleted = cleared'[u]
  BY DEF ClearedOK, Steps
<1> QED
  BY <1>1, <1>2, ClearedStays

(* A message that has been renewed is for the same users, and may be seen  *)
(* by whoever could see it before.                                         *)
LEMMA SinceStays ==
  ASSUME NEW S, Renewed(S), NEW u, NEW n, AllSince(u, n, msgs)
  PROVE  AllSince(u, n, msgs')
<1>1. ASSUME NEW k \in msgs', n <= k.at PROVE u \in k.may
  <2>1. PICK m \in msgs : Newer(m, k, S)
    BY DEF Renewed
  <2> QED
    BY <1>1, <2>1 DEF Newer, AllSince
<1> QED
  BY <1>1 DEF AllSince

(* The audience of a message is that of its renewal.                       *)
LEMMA HeardStays ==
  ASSUME NEW S, Renewed(S), NEW u, NEW n
  PROVE  (\E m \in msgs' : m.at = n /\ u \in m.aud) <=> (\E m \in msgs : m.at = n /\ u \in m.aud)
<1>1. ASSUME NEW m \in msgs, m.at = n, u \in m.aud PROVE \E k \in msgs' : k.at = n /\ u \in k.aud
  <2>1. PICK k \in msgs' : Newer(m, k, S)
    BY DEF Renewed
  <2> QED
    BY <1>1, <2>1 DEF Newer
<1>2. ASSUME NEW k \in msgs', k.at = n, u \in k.aud PROVE \E m \in msgs : m.at = n /\ u \in m.aud
  <2>1. PICK m \in msgs : Newer(m, k, S)
    BY DEF Renewed
  <2> QED
    BY <1>2, <2>1 DEF Newer
<1> QED
  BY <1>1, <1>2

(* What a page may show stays so.                                          *)
LEMMA PagedStays ==
  ASSUME NEW S, Renewed(S), NEW r, NEW u, Paged(r, u, msgs)
  PROVE  Paged(r, u, msgs')
<1> SUFFICES ASSUME NEW k \in msgs', r.found.joined <= k.at, k.at <= r.now
             PROVE  u \in k.may
  BY DEF Paged
<1>1. PICK m \in msgs : Newer(m, k, S)
  BY DEF Renewed
<1>2. r.found.joined <= m.at /\ m.at <= r.now
  BY <1>1 DEF Newer
<1>3. u \in m.may
  BY <1>2 DEF Paged
<1> QED
  BY <1>1, <1>3 DEF Newer

(* What the step of a request does for a user who has not strayed.         *)
CopyGoes(q, r, u) ==
  /\ Copied(r, u, msgs) =>
       \/ Copied(q, u, msgs) /\ (r.pc \notin Unbased => q.pc \notin Unbased /\ Base(r) = Base(q))
          /\ (u \in C!Members => u \in C!Members')
       \/ u \in C!Members' /\ (r.pc \notin Unbased => AllSince(u, Base(r), msgs'))
  /\ r.pc = "syncRow" /\ r.cur = u /\ r.found.live /\ r.found.left = 0 => AllSince(u, row'[1][u].joined, msgs')
  /\ r.pc = "fetch" /\ r.who = u /\ r.found.role # "none" => Paged(r, u, msgs')
RowJoins(u) ==
  /\ row'[1][u].joined = row[1][u].joined \/ AllSince(u, row'[1][u].joined, msgs')
  /\ row'[1][u].role # "none" => row[1][u].role # "none" \/ AllSince(u, row'[1][u].joined, msgs')
Stays(t, u) == \/ u \in C!Members => u \in C!Members'
               \/ \A s \in Tasks \ {t} : ~Copied(task[s], u, msgs)

(* A request that rests keeps what its copy of the group promises.         *)
LEMMA CopyStays ==
  ASSUME NEW S, Renewed(S), NEW u, NEW q, NEW o, Kin(q, o), CopyOK(o, u, msgs, C!Members, row), RowJoins(u),
         Copied(o, u, msgs) => (u \in C!Members => u \in C!Members')
  PROVE  CopyOK(q, u, msgs', C!Members', row')
<1>1. \A n : AllSince(u, n, msgs) => AllSince(u, n, msgs')
  BY SinceStays
<1>2. \A n : (\E m \in msgs' : m.at = n /\ u \in m.aud) <=> (\E m \in msgs : m.at = n /\ u \in m.aud)
  BY HeardStays
<1>3. Copied(q, u, msgs') <=> Copied(o, u, msgs)
  BY <1>2 DEF Kin, Copied
<1>4. Base(q) = Base(o) /\ q.pc = o.pc
  BY DEF Kin, Base
<1>5. Copied(q, u, msgs') => u \in C!Members' /\ (q.pc \notin Unbased => AllSince(u, Base(q), msgs'))
  BY <1>1, <1>3, <1>4 DEF CopyOK
<1>6. q.pc = "syncRow" /\ q.cur = u /\ q.found.live /\ q.found.left = 0 => AllSince(u, row'[1][u].joined, msgs')
  BY <1>1 DEF CopyOK, Kin, RowJoins
<1>7. Paged(o, u, msgs) => Paged(o, u, msgs')
  BY PagedStays
<1>8. q.pc = "fetch" /\ q.who = u /\ q.found.role # "none" => Paged(q, u, msgs')
  BY <1>7 DEF CopyOK, Kin, Paged
<1> QED
  BY <1>5, <1>6, <1>8 DEF CopyOK

(* What is promised to a user who has not strayed stays so.                *)
LEMMA JoinedStays ==
  ASSUME NEW t \in Tasks, NEW r, NEW S, Steps(t, r), Renewed(S), NEW u, JoinedOK(u),
         CopyGoes(task[t], r, u), RowJoins(u), Stays(t, u)
  PROVE  JoinedOK(u)'
<1>1. \A n : AllSince(u, n, msgs) => AllSince(u, n, msgs')
  BY SinceStays
<1>2. row'[1][u].role # "none" => AllSince(u, row'[1][u].joined, msgs')
  BY <1>1 DEF RowJoins, JoinedOK
<1>3. ASSUME NEW s \in Tasks, s # t
      PROVE  CopyOK(task'[s], u, msgs', C!Members', row')
  <2>1. Kin(task'[s], task[s]) /\ CopyOK(task[s], u, msgs, C!Members, row)
    BY <1>3 DEF Steps, JoinedOK
  <2>2. Copied(task[s], u, msgs) => (u \in C!Members => u \in C!Members')
    BY <1>3 DEF Stays
  <2> QED
    BY <2>1, <2>2, CopyStays
<1>4. CopyOK(r, u, msgs', C!Members', row')
  <2>1. CopyOK(task[t], u, msgs, C!Members, row)
    BY DEF JoinedOK
  <2>2. \A n : (\E m \in msgs' : m.at = n /\ u \in m.aud) <=> (\E m \in msgs : m.at = n /\ u \in m.aud)
    BY HeardStays
  <2>3. Copied(r, u, msgs') <=> Copied(r, u, msgs)
    BY <2>2 DEF Copied
  <2>4. Copied(r, u, msgs) => u \in C!Members' /\ (r.pc \notin Unbased => AllSince(u, Base(r), msgs'))
    BY <1>1, <2>1 DEF CopyOK, CopyGoes
  <2> QED
    BY <2>3, <2>4 DEF CopyOK, CopyGoes
<1>5. task'[t] = r
  BY DEF Steps
<1> QED
  BY <1>2, <1>3, <1>4, <1>5 DEF JoinedOK

(* What pages promise.                                                     *)
Roled(rows) ==
  \A u \in Users : rows[1][u].live => (rows[1][u].left = 0 <=> rows[1][u].role # "none") /\ rows[1][u].joined # 0

(* What pages promise stays so.                                            *)
LEMMA PagesStay ==
  ASSUME RowsInv, PagesOK, NEW t \in Tasks, NEW r, NEW S, Steps(t, r), Renewed(S),
         Standing' /\ kind = "group" =>
           /\ Roled(row')
           /\ r.pc = "fetch" /\ r.found.role # "none" => r.found.joined \in Nat \ {0}
           /\ \A u \in Users \ strayed' : CopyGoes(task[t], r, u) /\ RowJoins(u) /\ Stays(t, u)
  PROVE  PagesOK'
<1> SUFFICES ASSUME Standing', kind = "group"
             PROVE  /\ Roled(row')
                    /\ \A s \in Tasks : task'[s].pc = "fetch" /\ task'[s].found.role # "none" => task'[s].found.joined \in Nat \ {0}
                    /\ \A u \in Users \ strayed' : JoinedOK(u)'
  BY DEF PagesOK, Steps, Roled
<1>1. Standing /\ strayed \subseteq strayed'
  BY DEF Steps
<1>2. ASSUME NEW s \in Tasks, task'[s].pc = "fetch", task'[s].found.role # "none"
      PROVE  task'[s].found.joined \in Nat \ {0}
  <2>1. CASE s = t
    BY <1>2, <2>1 DEF Steps
  <2>2. CASE s # t
    <3>1. Kin(task'[s], task[s])
      BY <2>2 DEF Steps
    <3> QED
      BY <1>1, <1>2, <3>1 DEF Kin, PagesOK
  <2> QED
    BY <2>1, <2>2
<1>3. ASSUME NEW u \in Users \ strayed' PROVE JoinedOK(u)'
  <2>1. JoinedOK(u)
    BY <1>1, <1>3 DEF PagesOK
  <2> QED
    BY <1>3, <2>1, JoinedStays
<1> QED
  BY <1>2, <1>3

(* A step, from what it does to each part.                                 *)
LEMMA ReadsGo ==
  ASSUME RowsInv, ReadsInv, NEW t \in Tasks, NEW r, NEW S, Steps(t, r), Renewed(S), OneConversation', ClearedOK',
         LastKept(t, r), Crossing(t), Unmarked(t, S), WritesOn(t, r), r.pc \in Writing => S \subseteq blurred',
         Standing' => \A u \in Users \ blurred' : CountKept(t, r, S, u) \/ CountOK(u)',
         Standing' /\ kind = "group" =>
           /\ Roled(row')
           /\ r.pc = "fetch" /\ r.found.role # "none" => r.found.joined \in Nat \ {0}
           /\ \A u \in Users \ strayed' : CopyGoes(task[t], r, u) /\ RowJoins(u) /\ Stays(t, u)
  PROVE  ReadsInv'
<1>1. MessagesOK'
  BY MessagesStay DEF ReadsInv
<1>2. UnreadOK'
  BY UnreadLasts DEF ReadsInv
<1>3. PagesOK'
  BY PagesStay DEF ReadsInv
<1> QED
  BY <1>1, <1>2, <1>3 DEF ReadsInv

(* A step that leaves the rows and the messages alone.                     *)
Fetches(r) ==
  r.pc = "fetch" => /\ r.found.deleted \in Nat /\ r.since <= r.found.deleted
                    /\ kind = "group" /\ r.found.role # "none" => r.found.joined \in Nat \ {0}

(* Nothing of it is disturbed.                                             *)
LEMMA QuietReads ==
  ASSUME RowsInv, ReadsInv, NEW t \in Tasks, NEW r, Steps(t, r), UNCHANGED <<row, msgs, cleared>>, OneConversation',
         Carries(task[t], r), WritesOn(t, r), task[t].pc # "zero",
         Standing' =>
           /\ Fetches(r)
           /\ \A u \in Users \ blurred' : (Counts(r, u) => r.msg = task[t].msg) /\ Settles(t, r, u),
         Standing' /\ kind = "group" => \A u \in Users \ strayed' : CopyGoes(task[t], r, u) /\ Stays(t, u)
  PROVE  ReadsInv'
<1>1. Renewed({})
  BY SameRenews DEF ReadsInv
<1>2. ClearedOK'
  BY ClearedRests DEF ReadsInv, Fetches
<1>3. LastKept(t, r) /\ Crossing(t) /\ Unmarked(t, {})
  BY DEF LastKept, Crossing, Unmarked
<1>4. Standing' => \A u \in Users \ blurred' : CountKept(t, r, {}, u)
  BY DEF CountKept
<1>5. ASSUME Standing', kind = "group"
      PROVE  /\ Roled(row')
             /\ r.pc = "fetch" /\ r.found.role # "none" => r.found.joined \in Nat \ {0}
             /\ \A u \in Users \ strayed' : CopyGoes(task[t], r, u) /\ RowJoins(u) /\ Stays(t, u)
  <2>1. Standing
    BY <1>5 DEF Steps
  <2>2. Roled(row') /\ \A u : RowJoins(u)
    BY <1>5, <2>1 DEF ReadsInv, PagesOK, Roled, RowJoins
  <2> QED
    BY <1>5, <2>2 DEF Fetches
<1> QED
  BY <1>1, <1>2, <1>3, <1>4, <1>5, ReadsGo

(* And one that neither writes a message out, nor reads for a page.        *)
Copying == {"syncConv", "syncPut", "syncFind", "syncRow"}

(* Nothing of it is disturbed either.                                      *)
LEMMA PlainReads ==
  ASSUME RowsInv, ReadsInv, NEW t \in Tasks, NEW r, C!Move(t, r), conv'.id = conv.id,
         UNCHANGED <<kind, group, row, msgs, clock, created, cleared, blurred, strayed>>,
         Carries(task[t], r), task[t].pc \notin Writing \cup {"zero"}, r.pc \notin Writing \cup Copying \cup {"fetch"},
         kind = "group" /\ group.state = "none" => r.pc \in {"idle", "insert", "member", "allow"}
  PROVE  ReadsInv'
<1>1. Steps(t, r)
  <2>1. clock \in Nat
    BY Here DEF StoreOK
  <2> QED
    BY <2>1, MoveSteps DEF Standing
<1>2. OneConversation'
  BY <1>1, OneRests DEF ReadsInv, Writing, Copying
<1>3. WritesOn(t, r) /\ Fetches(r)
  BY DEF WritesOn, Fetches
<1>4. \A u : ~Counts(r, u) /\ ~Counts(task[t], u)
  BY DEF Counts, Writing
<1>5. \A u : (Counts(r, u) => r.msg = task[t].msg) /\ Settles(t, r, u)
  BY <1>4 DEF Settles
<1>6. \A u : ~Copied(r, u, msgs) /\ (u \in C!Members => u \in C!Members')
  BY DEF Copied, Writing, Copying, C!Members
<1>7. \A u : CopyGoes(task[t], r, u) /\ Stays(t, u)
  BY <1>6 DEF CopyGoes, Stays, Copying
<1> QED
  BY <1>1, <1>2, <1>3, <1>5, <1>7, QuietReads

(* The records requests go on with.                                        *)
LEMMA Going ==
  ASSUME NEW t \in Tasks, DOMAIN task[t] = Fields, NEW pc, C!Goto(t, pc)
  PROVE  \E r : /\ C!Move(t, r) /\ r.pc = pc /\ Turned(r, task[t])
                /\ r.since = task[t].since /\ r.crossed = task[t].crossed
<1> DEFINE r == [task[t] EXCEPT !.pc = pc]
<1>1. C!Move(t, r)
  BY DEF C!Goto
<1>2. r.pc = pc /\ Turned(r, task[t]) /\ r.since = task[t].since /\ r.crossed = task[t].crossed
  BY DEF Turned, Based, Fields, C!Idle
<1> QED
  BY <1>1, <1>2

(* The record of a request that is done.                                   *)
LEMMA Leaving ==
  ASSUME NEW t \in Tasks, C!Stop(t)
  PROVE  \E r : C!Move(t, r) /\ r.pc = "idle"
<1>1. C!Move(t, C!Idle) /\ C!Idle.pc = "idle"
  BY DEF C!Stop, C!Idle
<1> QED
  BY <1>1
Parting == {"idle", "say", "save", "drop"}

(* The record of a request that goes on to its next part.                  *)
LEMMA Entering ==
  ASSUME NEW t \in Tasks, NEW pc \in {"done", "say", "save", "drop"}, C!Enter(t, pc),
         task[t].pc # "idle", task[t].who \in Users
  PROVE  \E r : C!Move(t, r) /\ r.pc \in Parting /\ Carries(task[t], r)
<1>1. CASE pc = "done"
  <2>1. PICK r : C!Move(t, r) /\ r.pc = "idle"
    BY <1>1, Leaving DEF C!Enter
  <2> QED
    BY <2>1 DEF Parting, Carries
<1>2. CASE pc # "done"
  <2> DEFINE r == [C!Idle EXCEPT !.op = task[t].op, !.who = task[t].who, !.target = task[t].target,
                                 !.doc = task[t].doc, !.since = task[t].since, !.pc = pc]
  <2>1. C!Move(t, r)
    BY <1>2 DEF C!Enter
  <2>2. r.pc = pc /\ r.who = task[t].who /\ r.since = task[t].since
    BY DEF C!Idle
  <2>3. r.pc \in Parting /\ Carries(task[t], r)
    BY <1>2, <2>2 DEF Parting, Carries
  <2> QED
    BY <2>1, <2>3
<1> QED
  BY <1>1, <1>2

(* Requests that stop, or go on to the next part, and change nothing else. *)
Quiet == UNCHANGED <<kind, group, conv, row, msgs, clock, created, cleared, blurred, strayed>>

(* A request goes on to another step.                                      *)
LEMMA GotoReads ==
  ASSUME RowsInv, ReadsInv, NEW t \in Tasks, NEW pc, C!Goto(t, pc), Quiet, task[t].pc # "idle",
         task[t].pc \notin Writing \cup {"zero"}, pc \notin Writing \cup Copying \cup {"fetch"},
         pc \in {"member", "bounds"} => task[t].pc = "member",
         kind = "group" /\ group.state = "none" => pc \in {"idle", "insert", "member", "allow"}
  PROVE  ReadsInv'
<1>1. DOMAIN task[t] = Fields /\ RecordOK(task[t], clock, created)
  BY Here
<1>2. PICK r : C!Move(t, r) /\ r.pc = pc /\ Turned(r, task[t]) /\ r.since = task[t].since
  BY <1>1, Going
<1>3. Carries(task[t], r)
  BY <1>1, <1>2 DEF Carries, RecordOK, Turned, Based, ReadsInv, ClearedOK
<1> QED
  BY <1>2, <1>3, PlainReads DEF Quiet

(* A request is done.                                                      *)
LEMMA StopReads ==
  ASSUME RowsInv, ReadsInv, NEW t \in Tasks, C!Stop(t), Quiet, task[t].pc \notin Writing \cup {"zero"}
  PROVE  ReadsInv'
<1>1. PICK r : C!Move(t, r) /\ r.pc = "idle"
  BY Leaving
<1>2. Carries(task[t], r) /\ r.pc \notin Writing \cup Copying \cup {"fetch"}
  BY <1>1 DEF Carries, Writing, Copying
<1> QED
  BY <1>1, <1>2, PlainReads DEF Quiet

(* A request goes on to its next part.                                     *)
LEMMA EnterReads ==
  ASSUME RowsInv, ReadsInv, NEW t \in Tasks, NEW pc \in {"done", "say", "save", "drop"}, C!Enter(t, pc), Quiet,
         task[t].pc \notin Writing \cup {"zero", "idle", "insert", "member", "allow"}
  PROVE  ReadsInv'
<1>1. RecordOK(task[t], clock, created)
  BY Here
<1>2. PICK r : C!Move(t, r) /\ r.pc \in Parting /\ Carries(task[t], r)
  BY <1>1, Entering DEF RecordOK
<1>3. ~(kind = "group" /\ group.state = "none")
  BY DEF ReadsInv, OneConversation
<1>4. r.pc \notin Writing \cup Copying \cup {"fetch"}
  BY <1>2 DEF Writing, Copying, Parting
<1> QED
  BY <1>2, <1>3, <1>4, PlainReads DEF Quiet

(* The steps that only decide how a request goes on.                       *)
LEMMA RequestReads ==
  ASSUME RowsInv, ReadsInv, NEW t \in Tasks, NEW q \in Requests, C!Request(t, q[1], q[2], q[3])
  PROVE  ReadsInv'
<1> DEFINE op == q[1]  u == q[2]
           r == [C!Idle EXCEPT !.op = q[1], !.who = q[2], !.target = q[3], !.pc = C!FirstStep(q[1]), !.since = cleared[q[2]]]
<1>1. task[t].pc = "idle" /\ C!Move(t, r) /\ Quiet
  BY DEF C!Request, C!At, C!Models, C!Ghosts, Quiet
<1>2. op \in {"create", "add", "remove", "transfer", "delete", "leave", "clear", "prefer", "send", "see", "page"} /\ u \in Users
  BY ConversationsAssumption
<1>3. r.pc = C!FirstStep(op) /\ r.who = u /\ r.since = cleared[u] /\ r.found = C!NoRow
  BY DEF C!Idle
<1>4. r.pc \in {"read", "allow", "insert", "say", "mark", "member"}
  BY <1>2, <1>3 DEF C!FirstStep
<1>5. kind = "group" /\ group.state = "none" => r.pc \in {"idle", "insert", "member", "allow"}
  <2> SUFFICES ASSUME kind = "group", group.state = "none"
               PROVE  r.pc \in {"insert", "member", "allow"}
    OBVIOUS
  <2>1. IsGroup(group)
    BY Here
  <2>2. C!Members = {}
    BY <1>2, <2>1 DEF IsGroup, C!Members
  <2>3. op \in {"create", "page", "clear"}
    BY <2>2 DEF C!Request
  <2> QED
    BY <1>3, <2>3 DEF C!FirstStep
<1>6. Carries(task[t], r)
  BY <1>2, <1>3 DEF Carries
<1>7. task[t].pc \notin Writing \cup {"zero"} /\ r.pc \notin Writing \cup Copying \cup {"fetch"}
  BY <1>1, <1>4 DEF Writing, Copying
<1>8. conv'.id = conv.id /\ UNCHANGED <<kind, group, row, msgs, clock, created, cleared, blurred, strayed>>
  BY <1>1 DEF Quiet
<1> HIDE DEF r
<1> QED
  BY <1>1, <1>5, <1>6, <1>7, <1>8, PlainReads

(* The controllers read the group.                                         *)
LEMMA ReadGroupReads ==
  ASSUME RowsInv, ReadsInv, NEW t \in Tasks, C!ReadGroup(t)
  PROVE  ReadsInv'
<1>1. task[t].pc = "read" /\ Quiet /\ task[t].pc \notin Writing \cup {"zero"}
  BY DEF C!ReadGroup, C!At, C!Models, C!Counters, C!Ghosts, Quiet, Writing
<1>2. CASE C!Stop(t)
  BY <1>1, <1>2, StopReads
<1>3. CASE ~C!Stop(t)
  <2> DEFINE r == [task[t] EXCEPT !.doc = group, !.pc = IF task[t].op \in {"remove", "delete"} THEN "say" ELSE "save"]
  <2>1. C!Move(t, r)
    BY <1>3 DEF C!ReadGroup
  <2>2. DOMAIN task[t] = Fields /\ task[t].who \in Users
    BY <1>1, Here DEF RecordOK
  <2>3. r.pc \in {"say", "save"} /\ r.who = task[t].who /\ r.since = task[t].since
    BY <2>2 DEF Fields, C!Idle
  <2>4. Carries(task[t], r) /\ r.pc \notin Writing \cup Copying \cup {"fetch"}
    BY <1>1, <2>2, <2>3 DEF Carries, Writing, Copying
  <2>5. ~(kind = "group" /\ group.state = "none")
    BY <1>1 DEF ReadsInv, OneConversation
  <2> QED
    BY <1>1, <2>1, <2>4, <2>5, PlainReads DEF Quiet
<1> QED
  BY <1>2, <1>3

(* The panel's permissions.                                                *)
LEMMA AllowReads ==
  ASSUME RowsInv, ReadsInv, NEW t \in Tasks, C!Allow(t)
  PROVE  ReadsInv'
<1>1. task[t].pc = "allow" /\ Quiet /\ task[t].pc \notin Writing \cup {"zero"}
  BY DEF C!Allow, C!At, C!Models, C!Counters, C!Ghosts, Quiet, Writing
<1>2. CASE C!Stop(t)
  BY <1>1, <1>2, StopReads
<1>3. CASE ~C!Stop(t)
  <2>1. PICK pc \in {"read", "seek", "prefConv"} : C!Goto(t, pc)
    BY <1>3 DEF C!Allow
  <2>2. ~(kind = "group" /\ group.state = "none")
    BY <1>3 DEF C!Allow
  <2> QED
    BY <1>1, <2>1, <2>2, GotoReads DEF Writing, Copying
<1> QED
  BY <1>2, <1>3

(* The row whose history is to be deleted.                                 *)
LEMMA SeekReads ==
  ASSUME RowsInv, ReadsInv, NEW t \in Tasks, C!Seek(t)
  PROVE  ReadsInv'
<1>1. task[t].pc = "seek" /\ Quiet /\ task[t].pc \notin Writing \cup {"zero"}
  BY DEF C!Seek, C!At, C!Models, C!Counters, C!Ghosts, Quiet, Writing
<1>2. CASE C!Stop(t)
  BY <1>1, <1>2, StopReads
<1>3. CASE ~C!Stop(t)
  <2>1. PICK k : C!Move(t, [task[t] EXCEPT !.pc = "wipe", !.k = k])
    BY <1>3 DEF C!Seek
  <2> DEFINE r == [task[t] EXCEPT !.pc = "wipe", !.k = k]
  <2>2. DOMAIN task[t] = Fields /\ task[t].who \in Users
    BY <1>1, Here DEF RecordOK
  <2>3. r.pc = "wipe" /\ r.who = task[t].who /\ r.since = task[t].since
    BY <2>2 DEF Fields, C!Idle
  <2>4. Carries(task[t], r) /\ r.pc \notin Writing \cup Copying \cup {"fetch"}
    BY <1>1, <2>2, <2>3 DEF Carries, Writing, Copying
  <2>5. ~(kind = "group" /\ group.state = "none")
    BY <1>1 DEF ReadsInv, OneConversation
  <2> QED
    BY <1>1, <2>1, <2>4, <2>5, PlainReads DEF Quiet
<1> QED
  BY <1>2, <1>3

(* The Conversation whose preferences are updated.                         *)
LEMMA PrefConvReads ==
  ASSUME RowsInv, ReadsInv, NEW t \in Tasks, C!PrefConv(t)
  PROVE  ReadsInv'
<1>1. task[t].pc = "prefConv" /\ Quiet /\ task[t].pc \notin Writing \cup {"zero"}
  BY DEF C!PrefConv, C!At, C!Models, C!Counters, C!Ghosts, Quiet, Writing
<1>2. CASE C!Stop(t)
  BY <1>1, <1>2, StopReads
<1>3. CASE ~C!Stop(t)
  <2> DEFINE r == [task[t] EXCEPT !.k = conv.id, !.pc = IF conv.id = 0 THEN "prefNew" ELSE "prefRow"]
  <2>1. C!Move(t, r)
    BY <1>3 DEF C!PrefConv
  <2>2. DOMAIN task[t] = Fields /\ task[t].who \in Users
    BY <1>1, Here DEF RecordOK
  <2>3. r.pc \in {"prefNew", "prefRow"} /\ r.who = task[t].who /\ r.since = task[t].since
    BY <2>2 DEF Fields, C!Idle
  <2>4. Carries(task[t], r) /\ r.pc \notin Writing \cup Copying \cup {"fetch"}
    BY <1>1, <2>2, <2>3 DEF Carries, Writing, Copying
  <2>5. ~(kind = "group" /\ group.state = "none")
    BY <1>1 DEF ReadsInv, OneConversation
  <2> QED
    BY <1>1, <2>1, <2>4, <2>5, PlainReads DEF Quiet
<1> QED
  BY <1>2, <1>3

(* The Conversation of a group that is being deleted.                      *)
LEMMA DropConvReads ==
  ASSUME RowsInv, ReadsInv, NEW t \in Tasks, C!DropConv(t)
  PROVE  ReadsInv'
<1>1. task[t].pc = "dropConv" /\ Quiet /\ task[t].pc \notin Writing \cup {"zero"}
  BY DEF C!DropConv, C!At, C!Models, C!Counters, C!Ghosts, Quiet, Writing
<1> DEFINE r == [task[t] EXCEPT !.k = conv.id, !.pc = IF conv.id = 0 THEN "purge" ELSE "dropRows"]
<1>2. C!Move(t, r)
  BY DEF C!DropConv
<1>3. DOMAIN task[t] = Fields /\ task[t].who \in Users
  BY <1>1, Here DEF RecordOK
<1>4. r.pc \in {"purge", "dropRows"} /\ r.who = task[t].who /\ r.since = task[t].since
  BY <1>3 DEF Fields, C!Idle
<1>5. Carries(task[t], r) /\ r.pc \notin Writing \cup Copying \cup {"fetch"}
  BY <1>1, <1>3, <1>4 DEF Carries, Writing, Copying
<1>6. ~(kind = "group" /\ group.state = "none")
  BY <1>1 DEF ReadsInv, OneConversation
<1> QED
  BY <1>1, <1>2, <1>5, <1>6, PlainReads DEF Quiet

(* The membership of who asks for a page.                                  *)
LEMMA PageMemberReads ==
  ASSUME RowsInv, ReadsInv, NEW t \in Tasks, C!PageMember(t)
  PROVE  ReadsInv'
<1>1. task[t].pc = "member" /\ Quiet /\ task[t].pc \notin Writing \cup {"zero"}
  BY DEF C!PageMember, C!At, C!Models, C!Counters, C!Ghosts, Quiet, Writing
<1>2. CASE task[t].who \in C!Members
  <2>1. C!Goto(t, "bounds")
    BY <1>2 DEF C!PageMember
  <2>2. IsGroup(group)
    BY Here
  <2>3. ~(kind = "group" /\ group.state = "none")
    BY <1>2, <2>2 DEF C!Members, IsGroup
  <2> QED
    BY <1>1, <2>1, <2>3, GotoReads DEF Writing, Copying
<1>3. CASE task[t].who \notin C!Members
  BY <1>1, <1>3, StopReads DEF C!PageMember
<1> QED
  BY <1>2, <1>3

(* The page is read.                                                       *)
LEMMA PageFetchReads ==
  ASSUME RowsInv, ReadsInv, NEW t \in Tasks, C!PageFetch(t)
  PROVE  ReadsInv'
<1>1. C!Stop(t) /\ Quiet /\ task[t].pc \notin Writing \cup {"zero"}
  BY DEF C!PageFetch, C!At, C!Models, C!Counters, C!Ghosts, Quiet, Writing
<1> QED
  BY <1>1, StopReads

(* The row that bounds a page.                                             *)
LEMMA PageRowReads ==
  ASSUME RowsInv, ReadsInv, NEW t \in Tasks, C!PageRow(t)
  PROVE  ReadsInv'
<1> DEFINE u == task[t].who
<1>1. task[t].pc = "bounds" /\ Quiet /\ DOMAIN task[t] = Fields /\ u \in Users /\ clock \in Nat
  BY Here DEF C!PageRow, C!At, C!Models, C!Counters, C!Ghosts, Quiet, RecordOK
<1>2. /\ task[t].found = C!NoRow /\ task[t].since \in Nat /\ task[t].since <= cleared[u]
      /\ ~(kind = "group" /\ group.state = "none")
  BY <1>1 DEF ReadsInv, ClearedOK, OneConversation
<1>3. PICK r : /\ C!Move(t, r) /\ r.pc = "fetch" /\ r.who = u /\ r.since = task[t].since
               /\ \/ C!Listed(u) = {} /\ r.found = C!NoRow
                  \/ r.now = clock /\ \E k \in C!Listed(u) : r.found = row[k][u]
  <2>1. CASE C!Goto(t, "fetch") /\ C!Listed(u) = {}
    <3>1. PICK r : C!Move(t, r) /\ r.pc = "fetch" /\ Turned(r, task[t]) /\ r.since = task[t].since
      BY <1>1, <2>1, Going
    <3> QED
      BY <1>2, <2>1, <3>1 DEF Turned, Based
  <2>2. CASE ~(C!Goto(t, "fetch") /\ C!Listed(u) = {})
    <3>1. PICK k \in C!Listed(u) : C!Move(t, [task[t] EXCEPT !.pc = "fetch", !.found = row[k][u], !.now = clock])
      BY <2>2 DEF C!PageRow
    <3> DEFINE r == [task[t] EXCEPT !.pc = "fetch", !.found = row[k][u], !.now = clock]
    <3>2. r.pc = "fetch" /\ r.who = u /\ r.since = task[t].since /\ r.found = row[k][u] /\ r.now = clock
      BY <1>1 DEF Fields, C!Idle
    <3> QED
      BY <3>1, <3>2
  <2> QED
    BY <2>1, <2>2
<1>4. Steps(t, r)
  BY <1>1, <1>3, MoveSteps DEF Quiet, Standing
<1>5. OneConversation'
  BY <1>1, <1>2, <1>3, <1>4, OneRests DEF ReadsInv, Quiet
<1>6. Carries(task[t], r) /\ WritesOn(t, r)
  BY <1>1, <1>3 DEF Carries, WritesOn, Writing
<1>7. \A v : ~Counts(r, v) /\ ~Counts(task[t], v) /\ ~Copied(r, v, msgs)
  BY <1>1, <1>3 DEF Counts, Copied
<1>8. ASSUME Standing
      PROVE  \/ C!Listed(u) = {} /\ r.found = C!NoRow /\ row[1][u] = C!NoRow
             \/ r.found = row[1][u] /\ row[1][u].live /\ r.now = clock
  <2>1. 1 \in C!Convs
    BY ConversationsAssumption DEF C!Convs
  <2>2. (row[1][u].live \/ row[1][u] = C!NoRow) /\ \A k \in C!Convs \ {1} : ~row[k][u].live
    BY <1>1, <1>8, <2>1 DEF ReadsInv, OneConversation
  <2>3. \A k \in C!Listed(u) : k = 1 /\ row[1][u].live
    BY <2>2 DEF C!Listed
  <2>4. C!Listed(u) = {} => ~row[1][u].live
    BY <2>1 DEF C!Listed
  <2> QED
    BY <1>3, <2>2, <2>3, <2>4
<1>9. ASSUME Standing
      PROVE  Fetches(r)
  <2>1. row[1][u].deleted = cleared[u] /\ cleared[u] \in Nat
    BY <1>1, <1>9 DEF ReadsInv, ClearedOK
  <2>2. r.found.deleted = row[1][u].deleted
    BY <1>8, <1>9
  <2>3. kind = "group" /\ row[1][u].live => row[1][u].joined # 0
    BY <1>1, <1>9 DEF ReadsInv, PagesOK
  <2>4. kind = "group" /\ r.found.role # "none" => r.found.joined \in Nat \ {0}
    <3>1. row[1][u].joined \in Nat
      <4>1. StoreOK /\ 1 \in C!Convs
        BY Here, ConversationsAssumption DEF C!Convs
      <4>2. row[1][u] \in RowKind
        BY <1>1, <4>1 DEF StoreOK
      <4> QED
        BY <4>2 DEF RowKind, C!Times
    <3> QED
      BY <1>8, <1>9, <2>3, <3>1 DEF C!NoRow
  <2> QED
    BY <1>2, <1>3, <2>1, <2>2, <2>4 DEF Fetches
<1>10. ASSUME Standing, kind = "group", NEW v \in Users \ strayed
       PROVE  CopyGoes(task[t], r, v) /\ Stays(t, v)
  <2>1. JoinedOK(v)
    BY <1>10 DEF ReadsInv, PagesOK
  <2>2. ASSUME r.who = v, r.found.role # "none"
        PROVE  Paged(r, v, msgs')
    <3>1. v = u /\ r.found = row[1][u]
      BY <1>3, <1>8, <1>10, <2>2 DEF C!NoRow
    <3>2. AllSince(v, r.found.joined, msgs)
      BY <2>1, <2>2, <3>1 DEF JoinedOK
    <3> QED
      BY <1>1, <3>2 DEF AllSince, Paged, Quiet
  <2>3. v \in C!Members => v \in C!Members'
    BY <1>1 DEF C!Members, Quiet
  <2> QED
    BY <1>3, <1>7, <2>2, <2>3 DEF CopyGoes, Stays
<1>11. \A v : (Counts(r, v) => r.msg = task[t].msg) /\ Settles(t, r, v)
  BY <1>7 DEF Settles
<1>12. (Standing' => Standing) /\ strayed' = strayed /\ UNCHANGED <<row, msgs, cleared>>
  BY <1>1 DEF Quiet, Standing
<1>13. task[t].pc # "zero"
  BY <1>1
<1>14. Standing' => /\ Fetches(r)
                    /\ \A v \in Users \ blurred' : (Counts(r, v) => r.msg = task[t].msg) /\ Settles(t, r, v)
  BY <1>9, <1>11, <1>12
<1>15. Standing' /\ kind = "group" => \A v \in Users \ strayed' : CopyGoes(task[t], r, v) /\ Stays(t, v)
  BY <1>10, <1>12
<1> QED
  BY <1>4, <1>5, <1>6, <1>12, <1>13, <1>14, <1>15, QuietReads

(* The synchronisation of the rows reads the group, the Conversation and   *)
(* the rows.                                                               *)
LEMMA CopyReads ==
  ASSUME RowsInv, ReadsInv, NEW t \in Tasks, NEW r, C!Move(t, r), Quiet,
         task[t].pc \in {"syncRead"} \cup Copying, r.pc \in Copying,
         r.who = task[t].who, r.since = task[t].since,
         Standing /\ r.pc = "syncRow" /\ r.found.live => row[1][r.cur].live,
         Standing /\ kind = "group" => \A u \in Users \ strayed : CopyGoes(task[t], r, u)
  PROVE  ReadsInv'
<1>1. task[t].who \in Users /\ clock \in Nat
  BY Here DEF RecordOK, Copying
<1>2. Steps(t, r)
  BY <1>1, MoveSteps DEF Quiet, Standing
<1>3. ~(kind = "group" /\ group.state = "none")
  BY DEF ReadsInv, OneConversation, Copying
<1>4. OneConversation'
  BY <1>2, <1>3, OneRests DEF ReadsInv, Quiet, Copying
<1>5. Carries(task[t], r) /\ WritesOn(t, r) /\ Fetches(r) /\ task[t].pc # "zero"
  BY <1>1 DEF Carries, WritesOn, Writing, Copying, Fetches
<1>6. \A u : (Counts(r, u) => r.msg = task[t].msg) /\ Settles(t, r, u)
  BY DEF Settles, Counts, Copying
<1>7. \A u : Stays(t, u)
  BY DEF Stays, C!Members, Quiet
<1>8. (Standing' => Standing) /\ strayed' = strayed /\ UNCHANGED <<row, msgs, cleared>>
  BY DEF Quiet, Standing
<1>9. Standing' /\ kind = "group" => \A u \in Users \ strayed' : CopyGoes(task[t], r, u) /\ Stays(t, u)
  BY <1>7, <1>8
<1> QED
  BY <1>2, <1>4, <1>5, <1>6, <1>8, <1>9, QuietReads

(* A sync reads the group.                                                 *)
LEMMA SyncReadReads ==
  ASSUME RowsInv, ReadsInv, NEW t \in Tasks, C!SyncRead(t)
  PROVE  ReadsInv'
<1>1. task[t].pc = "syncRead" /\ Quiet /\ DOMAIN task[t] = Fields
  BY Here DEF C!SyncRead, C!At, C!Models, C!Counters, C!Ghosts, Quiet
<1>2. CASE group.state # "live"
  <2>1. C!Enter(t, C!AfterSync(task[t].op)) /\ C!AfterSync(task[t].op) \in {"done", "say", "save", "drop"}
    BY <1>2 DEF C!SyncRead, C!AfterSync
  <2> QED
    BY <1>1, <2>1, EnterReads DEF Writing
<1>3. CASE group.state = "live"
  <2> DEFINE r == [task[t] EXCEPT !.pc = "syncConv", !.boss = group.admin, !.shape = C!MemberSet(group)]
  <2>1. C!Move(t, r)
    BY <1>3 DEF C!SyncRead
  <2>2. r.pc = "syncConv" /\ r.who = task[t].who /\ r.since = task[t].since /\ r.shape = C!MemberSet(group)
    BY <1>1 DEF Fields, C!Idle
  <2> HIDE DEF r
  <2>3. ASSUME kind = "group", NEW u PROVE CopyGoes(task[t], r, u)
    <3>1. Copied(r, u, msgs) => u \in C!Members'
      BY <1>1, <2>2, <2>3 DEF Copied, C!MemberSet, C!Members, Quiet
    <3> QED
      BY <2>2, <3>1 DEF CopyGoes, Unbased
  <2> QED
    BY <1>1, <2>1, <2>2, <2>3, CopyReads DEF Copying
<1> QED
  BY <1>2, <1>3

(* A sync reads the Conversation.                                          *)
LEMMA SyncConvReads ==
  ASSUME RowsInv, ReadsInv, NEW t \in Tasks, C!SyncConv(t)
  PROVE  ReadsInv'
<1>1. task[t].pc = "syncConv" /\ Quiet /\ DOMAIN task[t] = Fields
  BY Here DEF C!SyncConv, C!At, C!Models, C!Counters, C!Ghosts, Quiet
<1> DEFINE r == [task[t] EXCEPT !.pc = "syncPut", !.k = conv.id]
<1>2. C!Move(t, r)
  BY DEF C!SyncConv
<1>3. r.pc = "syncPut" /\ r.who = task[t].who /\ r.since = task[t].since /\ r.shape = task[t].shape
  BY <1>1 DEF Fields, C!Idle
<1> HIDE DEF r
<1>4. ASSUME NEW u PROVE CopyGoes(task[t], r, u)
  <2>1. u \in C!Members => u \in C!Members'
    BY <1>1 DEF C!Members, Quiet
  <2>2. Copied(r, u, msgs) => Copied(task[t], u, msgs)
    BY <1>1, <1>3 DEF Copied
  <2> QED
    BY <1>3, <2>1, <2>2 DEF CopyGoes, Unbased
<1> QED
  BY <1>1, <1>2, <1>3, <1>4, CopyReads DEF Copying

(* Whom a loop takes next is one of those it has still to take.            *)
LEMMA FirstOfTodo ==
  ASSUME NEW S, S # {} PROVE C!FirstOf(S) \in S
BY DEF C!FirstOf

(* A sync reads a row.                                                     *)
LEMMA SyncFindReads ==
  ASSUME RowsInv, ReadsInv, NEW t \in Tasks, C!SyncFind(t)
  PROVE  ReadsInv'
<1> DEFINE q == task[t]  u == C!FirstOf(q.todo)
           r == [q EXCEPT !.pc = "syncRow", !.cur = u, !.found = row[q.k][u]]
<1>1. /\ q.pc = "syncFind" /\ Quiet /\ DOMAIN q = Fields /\ q.todo # {} /\ q.todo \subseteq Users
      /\ q.k \in 1 .. created
  BY Here DEF C!SyncFind, C!At, C!Models, C!Counters, C!Ghosts, Quiet, RecordOK, Looping
<1>2. C!Move(t, r)
  BY DEF C!SyncFind
<1>3. /\ r.pc = "syncRow" /\ r.who = q.who /\ r.since = q.since /\ r.todo = q.todo /\ r.now = q.now
      /\ r.cur = u /\ r.found = row[q.k][u]
  BY <1>1 DEF Fields, C!Idle
<1>4. u \in Users
  BY <1>1, FirstOfTodo
<1>5. Standing => q.k = 1
  BY <1>1 DEF ReadsInv, OneConversation
<1> HIDE DEF r
<1>6. ASSUME Standing, kind = "group", NEW v \in Users \ strayed
      PROVE  CopyGoes(q, r, v)
  <2>1. v \in C!Members => v \in C!Members'
    BY <1>1 DEF C!Members, Quiet
  <2>2. Copied(r, v, msgs) => Copied(q, v, msgs)
    BY <1>1, <1>3 DEF Copied
  <2>3. Base(r) = Base(q)
    BY <1>1, <1>3 DEF Base, Writing
  <2>4. ASSUME r.cur = v, r.found.live, r.found.left = 0
        PROVE  AllSince(v, row'[1][v].joined, msgs')
    <3>1. row[1][v].live /\ row[1][v].left = 0
      BY <1>3, <1>5, <1>6, <2>4
    <3>2. row[1][v].role # "none"
      BY <1>6, <3>1 DEF ReadsInv, PagesOK
    <3>3. JoinedOK(v)
      BY <1>6 DEF ReadsInv, PagesOK
    <3> QED
      BY <1>1, <3>2, <3>3 DEF JoinedOK, Quiet
  <2> QED
    BY <1>1, <1>3, <2>1, <2>2, <2>3, <2>4 DEF CopyGoes, Unbased
<1>7. Standing /\ r.pc = "syncRow" /\ r.found.live => row[1][r.cur].live
  BY <1>3, <1>5
<1> QED
  BY <1>1, <1>2, <1>3, <1>6, <1>7, CopyReads DEF Copying

(* The Conversation is created once.                                       *)
LEMMA ConvReads ==
  ASSUME RowsInv, ReadsInv, NEW t \in Tasks, NEW r, Steps(t, r), UNCHANGED <<group, row>>,
         \/ conv'.id = conv.id /\ created' = created
         \/ conv.id = 0 /\ conv'.id = created + 1 /\ created' = created + 1,
         r.pc \notin {"syncRow", "put"}, ~(kind = "group" /\ group.state = "none")
  PROVE  OneConversation'
<1>1. \A k \in C!Convs, u \in Users : row'[k][u].live \/ row'[k][u] = C!NoRow
  BY DEF ReadsInv, OneConversation
<1>2. ASSUME Standing'
      PROVE  /\ conv'.id = created' /\ created' \in {0, 1}
             /\ \A k \in C!Convs \ {1}, u \in Users : ~row'[k][u].live
  BY <1>2 DEF ReadsInv, OneConversation, Steps
<1> QED
  BY <1>1, <1>2, OneStays DEF ReadsInv

(* A sync creates the Conversation, or updates it.                         *)
LEMMA SyncPutReads ==
  ASSUME RowsInv, ReadsInv, NEW t \in Tasks, C!SyncPut(t)
  PROVE  ReadsInv'
<1> DEFINE q == task[t]
           r == [q EXCEPT !.k = IF @ = 0 THEN created + 1 ELSE @, !.now = clock + 1, !.todo = q.shape,
                          !.pc = IF q.shape = {} THEN "syncLeave" ELSE "syncFind"]
<1>1. /\ q.pc = "syncPut" /\ DOMAIN q = Fields /\ q.who \in Users /\ clock \in Nat /\ q.shape \subseteq Users
      /\ UNCHANGED <<kind, group, row, msgs, cleared, blurred, strayed>>
      /\ ~(kind = "group" /\ group.state = "none")
  BY Here DEF C!SyncPut, C!At, RecordOK, ReadsInv, OneConversation
<1>2. CASE q.k = 0 /\ conv.id # 0
  <2>1. C!Enter(t, C!AfterSync(q.op)) /\ C!AfterSync(q.op) \in {"done", "say", "save", "drop"}
        /\ UNCHANGED <<conv, created, clock>>
    BY <1>2 DEF C!SyncPut, C!AfterSync
  <2>2. Quiet
    BY <1>1, <2>1 DEF Quiet
  <2> QED
    BY <1>1, <2>1, <2>2, EnterReads DEF Writing
<1>3. CASE ~(q.k = 0 /\ conv.id # 0)
  <2>1. C!Move(t, r) /\ clock' = clock + 1
        /\ \/ conv'.id = conv.id /\ created' = created
           \/ conv.id = 0 /\ conv'.id = created + 1 /\ created' = created + 1
    BY <1>3 DEF C!SyncPut
  <2>2. /\ r.pc = (IF q.shape = {} THEN "syncLeave" ELSE "syncFind") /\ r.who = q.who /\ r.since = q.since
        /\ r.now = clock + 1 /\ r.todo = q.shape
    BY <1>1 DEF Fields, C!Idle
  <2> HIDE DEF r
  <2>3. Steps(t, r)
    BY <1>1, <2>1, MoveSteps DEF Standing
  <2>4. OneConversation'
    BY <1>1, <2>1, <2>2, <2>3, ConvReads
  <2>5. Carries(q, r) /\ WritesOn(t, r) /\ Fetches(r) /\ q.pc # "zero"
    BY <1>1, <2>2 DEF Carries, WritesOn, Writing, Fetches
  <2>6. \A u : (Counts(r, u) => r.msg = q.msg) /\ Settles(t, r, u)
    BY <1>1, <2>2 DEF Settles, Counts
  <2>7. ASSUME Standing, kind = "group", NEW u \in Users \ strayed
        PROVE  CopyGoes(q, r, u) /\ Stays(t, u)
    <3>1. u \in C!Members => u \in C!Members'
      BY <1>1 DEF C!Members
    <3>2. CopyOK(q, u, msgs, C!Members, row)
      BY <2>7 DEF ReadsInv, PagesOK, JoinedOK
    <3>3. Copied(r, u, msgs) => Copied(q, u, msgs)
      BY <1>1, <2>2 DEF Copied
    <3>4. Copied(r, u, msgs) => u \in C!Members'
      BY <3>1, <3>2, <3>3 DEF CopyOK
    <3>5. AllSince(u, Base(r), msgs')
      <4>1. Base(r) = clock + 1
        BY <2>2 DEF Base, Writing
      <4>2. \A m \in msgs : m.at \in 1 .. clock
        BY DEF ReadsInv, MessagesOK, MessageTimes
      <4> QED
        BY <1>1, <4>1, <4>2 DEF AllSince
    <3> QED
      BY <2>2, <3>1, <3>4, <3>5 DEF CopyGoes, Stays
  <2>8. (Standing' => Standing) /\ strayed' = strayed /\ UNCHANGED <<row, msgs, cleared>>
    BY <1>1 DEF Standing
  <2>9. Standing' /\ kind = "group" => \A u \in Users \ strayed' : CopyGoes(q, r, u) /\ Stays(t, u)
    BY <2>7, <2>8
  <2> QED
    BY <2>3, <2>4, <2>5, <2>6, <2>8, <2>9, QuietReads
<1> QED
  BY <1>2, <1>3

(* The Conversation of a direct chat is created for its preferences.       *)
LEMMA PrefNewReads ==
  ASSUME RowsInv, ReadsInv, NEW t \in Tasks, C!PrefNew(t)
  PROVE  ReadsInv'
<1> DEFINE q == task[t]  r == [q EXCEPT !.k = created + 1, !.pc = "prefRow"]
<1>1. /\ q.pc = "prefNew" /\ DOMAIN q = Fields /\ q.who \in Users /\ clock \in Nat /\ kind = "direct"
      /\ UNCHANGED <<kind, group, row, msgs, clock, cleared, blurred, strayed>>
  BY Here DEF C!PrefNew, C!At, RecordOK, C!Ghosts, PlaceOK
<1>2. CASE conv.id # 0
  <2>1. C!Stop(t) /\ UNCHANGED <<conv, created>>
    BY <1>2 DEF C!PrefNew
  <2>2. Quiet
    BY <1>1, <2>1 DEF Quiet
  <2> QED
    BY <1>1, <2>1, <2>2, StopReads DEF Writing
<1>3. CASE conv.id = 0
  <2>1. C!Move(t, r) /\ conv'.id = created + 1 /\ created' = created + 1
    BY <1>3 DEF C!PrefNew
  <2>2. r.pc = "prefRow" /\ r.who = q.who /\ r.since = q.since
    BY <1>1 DEF Fields, C!Idle
  <2> HIDE DEF r
  <2>3. Steps(t, r)
    BY <1>1, <2>1, MoveSteps DEF Standing
  <2>4. OneConversation'
    BY <1>1, <1>3, <2>1, <2>2, <2>3, ConvReads
  <2>5. Carries(q, r) /\ WritesOn(t, r) /\ Fetches(r) /\ q.pc # "zero"
    BY <1>1, <2>2 DEF Carries, WritesOn, Writing, Fetches
  <2>6. \A u : (Counts(r, u) => r.msg = q.msg) /\ Settles(t, r, u)
    BY <1>1, <2>2 DEF Settles, Counts
  <2>7. kind # "group" /\ UNCHANGED <<row, msgs, cleared>>
    BY <1>1
  <2> QED
    BY <2>3, <2>4, <2>5, <2>6, <2>7, QuietReads
<1> QED
  BY <1>2, <1>3

(* The record after a message is written to the Conversation document.     *)
LEMMA UpsertReads ==
  ASSUME RowsInv, ReadsInv, NEW t \in Tasks, C!Upsert(t)
  PROVE  ReadsInv'
<1> DEFINE q == task[t]  k == IF conv.id = 0 THEN created + 1 ELSE conv.id
<1>1. /\ q.pc = "upsert" /\ DOMAIN q = Fields /\ q.who \in Users /\ clock \in Nat /\ q.shape \subseteq Users
      /\ UNCHANGED <<kind, group, row, msgs, clock, cleared, blurred, strayed>>
      /\ ~(kind = "group" /\ group.state = "none")
      /\ \/ conv'.id = conv.id /\ created' = created
         \/ conv.id = 0 /\ conv'.id = created + 1 /\ created' = created + 1
  BY Here DEF C!Upsert, C!At, RecordOK, C!Ghosts, ReadsInv, OneConversation
<1>2. PICK r : /\ C!Move(t, r) /\ Carries(q, r)
               /\ \/ q.shape = {} /\ r.pc \in Parting
                  \/ /\ r.pc = "find" /\ r.todo = q.shape /\ r.shape = q.shape /\ r.msg = q.msg
                     /\ r.op = q.op /\ r.who = q.who
  <2>1. CASE q.shape = {}
    <3>1. C!Enter(t, C!AfterMessage(q.op)) /\ C!AfterMessage(q.op) \in {"done", "say", "save", "drop"}
      BY <2>1 DEF C!Upsert, C!AfterMessage
    <3> QED
      BY <1>1, <2>1, <3>1, Entering
  <2>2. CASE q.shape # {}
    <3> DEFINE r == [q EXCEPT !.k = k, !.todo = q.shape, !.pc = "find"]
    <3>1. C!Move(t, r)
      BY <2>2 DEF C!Upsert
    <3>2. /\ r.pc = "find" /\ r.todo = q.shape /\ r.shape = q.shape /\ r.msg = q.msg /\ r.op = q.op /\ r.who = q.who
          /\ r.since = q.since
      BY <1>1 DEF Fields, C!Idle
    <3>3. Carries(q, r)
      BY <1>1, <3>2 DEF Carries
    <3> QED
      BY <3>1, <3>2, <3>3
  <2> QED
    BY <2>1, <2>2
<1>3. Steps(t, r)
  BY <1>1, <1>2, MoveSteps DEF Standing
<1>4. OneConversation'
  BY <1>1, <1>2, <1>3, ConvReads DEF Parting
<1>5. WritesOn(t, r) /\ Fetches(r) /\ q.pc # "zero"
  BY <1>1, <1>2 DEF WritesOn, Writing, Fetches, Parting, Counts
<1>6. ASSUME Standing, NEW u \in Users \ blurred
      PROVE  (Counts(r, u) => r.msg = q.msg) /\ Settles(t, r, u)
  <2>1. PICK m \in msgs : WrittenAs(q, m, blurred)
    BY <1>1, <1>6 DEF ReadsInv, MessagesOK, MessageOK, Writing
  <2>2. \A n \in msgs : n.at = q.msg => n = m
    BY <2>1 DEF ReadsInv, MessagesOK, MessageTimes, WrittenAs
  <2>3. u \notin q.shape => ~Unseen(u, q.msg)
    BY <1>1, <1>6, <2>1, <2>2 DEF WrittenAs, Unseen
  <2>4. Counts(q, u) /\ (Counts(r, u) => u \in q.shape /\ r.msg = q.msg) /\ (u \in q.shape => Counts(r, u))
    BY <1>1, <1>2 DEF Counts, Parting
  <2> QED
    BY <2>3, <2>4 DEF Settles
<1>7. \A u : (u \in C!Members => u \in C!Members') /\ Stays(t, u)
  BY <1>1 DEF C!Members, Stays
<1>8. ASSUME NEW u PROVE CopyGoes(q, r, u)
  <2>1. Copied(r, u, msgs) => Copied(q, u, msgs) /\ Base(r) = Base(q)
    BY <1>1, <1>2 DEF Copied, Parting, Base, Writing
  <2> QED
    BY <1>1, <1>2, <1>7, <2>1 DEF CopyGoes, Unbased, Parting
<1>9. (Standing' => Standing) /\ UNCHANGED <<strayed, blurred, row, msgs, cleared>>
  BY <1>1 DEF Standing
<1> QED
  BY <1>2, <1>3, <1>4, <1>5, <1>6, <1>7, <1>8, <1>9, QuietReads

(* The steps that change the group.                                        *)
LEMMA GroupReads ==
  ASSUME RowsInv, ReadsInv, NEW t \in Tasks, NEW r, Steps(t, r), OneConversation', UNCHANGED <<row, msgs, cleared>>,
         task[t].pc \notin Writing \cup {"zero"}, r.pc \notin Writing \cup Copying \cup {"fetch"}, Carries(task[t], r),
         Standing' /\ kind = "group" => \A u \in Users \ strayed' : Stays(t, u)
  PROVE  ReadsInv'
<1>1. WritesOn(t, r) /\ Fetches(r) /\ task[t].pc # "zero"
  BY DEF WritesOn, Fetches
<1>2. \A u : (Counts(r, u) => r.msg = task[t].msg) /\ Settles(t, r, u)
  BY DEF Counts, Writing, Settles
<1>3. \A u : CopyGoes(task[t], r, u)
  BY DEF Copied, Writing, Copying, CopyGoes
<1> QED
  BY <1>1, <1>2, <1>3, QuietReads

(* The record of a request that goes on to another step.                   *)
LEMMA GoingCarries ==
  ASSUME RowsInv, NEW t \in Tasks, NEW pc, C!Goto(t, pc), task[t].pc # "idle",
         pc \notin Writing \cup Copying \cup {"fetch", "member", "bounds"}
  PROVE  \E r : /\ C!Move(t, r) /\ r.pc = pc /\ Carries(task[t], r) /\ r.pc \notin Writing \cup Copying \cup {"fetch"}
<1>1. DOMAIN task[t] = Fields /\ RecordOK(task[t], clock, created)
  BY Here
<1>2. PICK r : C!Move(t, r) /\ r.pc = pc /\ Turned(r, task[t]) /\ r.since = task[t].since
  BY <1>1, Going
<1>3. Carries(task[t], r)
  BY <1>1, <1>2 DEF Carries, RecordOK, Turned, Based
<1> QED
  BY <1>2, <1>3

(* The group is created.                                                   *)
LEMMA InsertReads ==
  ASSUME RowsInv, ReadsInv, NEW t \in Tasks, C!Insert(t)
  PROVE  ReadsInv'
<1>1. /\ task[t].pc = "insert" /\ C!Goto(t, "syncRead") /\ UNCHANGED <<kind, conv, row, msgs, clock, created>>
      /\ UNCHANGED <<cleared, blurred, strayed>> /\ group'.state = "live"
  BY DEF C!Insert, C!At, C!Counters, C!Ghosts
<1>2. group.state = "none" /\ IsGroup(group) /\ clock \in Nat /\ kind = "group"
  BY <1>1, Here DEF Known, PlaceOK
<1>3. PICK r : /\ C!Move(t, r) /\ r.pc = "syncRead" /\ Carries(task[t], r)
               /\ r.pc \notin Writing \cup Copying \cup {"fetch"}
  BY <1>1, GoingCarries DEF Writing, Copying
<1>4. Steps(t, r)
  BY <1>1, <1>2, <1>3, MoveSteps DEF Standing
<1>5. OneConversation'
  BY <1>1, <1>3, <1>4, OneRests DEF ReadsInv
<1>6. \A u : Stays(t, u)
  BY <1>2 DEF Stays, C!Members, IsGroup
<1> QED
  BY <1>1, <1>3, <1>4, <1>5, <1>6, GroupReads DEF Writing

(* The group is saved; who leaves it while a request still has a copy with *)
(* the user has strayed.                                                   *)
LEMMA SaveGroupReads ==
  ASSUME RowsInv, ReadsInv, NEW t \in Tasks, C!SaveGroup(t)
  PROVE  ReadsInv'
<1> DEFINE q == task[t]
<1>1. /\ q.pc = "save" /\ UNCHANGED <<kind, conv, row, msgs, clock, created>> /\ UNCHANGED <<cleared, blurred>>
      /\ DOMAIN q = Fields
  BY Here DEF C!SaveGroup, C!At, C!Counters
<1>2. CASE ~C!SaveFits(q)
  <2>1. C!Stop(t) /\ UNCHANGED <<group, strayed>>
    BY <1>2 DEF C!SaveGroup
  <2>2. Quiet
    BY <1>1, <2>1 DEF Quiet
  <2> QED
    BY <1>1, <2>1, <2>2, StopReads DEF Writing
<1>3. CASE C!SaveFits(q)
  <2>1. /\ C!Goto(t, "syncRead")
        /\ strayed' = IF C!Replaces(q) /\ \E s \in Tasks : C!Holds(s, C!Gone(q))
                      THEN strayed \cup {C!Gone(q)} ELSE strayed
        /\ group' = CASE q.op = "transfer" -> [group EXCEPT !.admin = q.target]
                      [] q.op = "add" -> [group EXCEPT !.members[q.target] = @ + 1, !.ver = @ + 1]
                      [] OTHER -> [group EXCEPT !.members = [q.doc.members EXCEPT ![C!Gone(q)] = 0], !.ver = @ + 1]
    BY <1>3 DEF C!SaveGroup
  <2>2. /\ group.state = "live" /\ (C!Replaces(q) => group.ver = q.doc.ver) /\ IsGroup(group) /\ clock \in Nat
        /\ q.doc.state = "live" /\ q.op \in {"add", "remove", "transfer", "leave"} /\ Current(q.doc, group)
    BY <1>1, <1>3, Here DEF C!SaveFits, Known
  <2>3. group'.state = "live"
    BY <2>1, <2>2 DEF IsGroup
  <2>4. PICK r : /\ C!Move(t, r) /\ r.pc = "syncRead" /\ Carries(q, r)
                 /\ r.pc \notin Writing \cup Copying \cup {"fetch"}
    BY <1>1, <2>1, GoingCarries DEF Writing, Copying
  <2>5. Steps(t, r)
    BY <1>1, <2>1, <2>2, <2>4, MoveSteps DEF Standing
  <2>6. OneConversation'
    BY <1>1, <2>3, <2>4, <2>5, OneRests DEF ReadsInv
  <2>7. ASSUME kind = "group", NEW u \in Users \ strayed'
        PROVE  Stays(t, u)
    <3>1. CASE C!Replaces(q) /\ u = C!Gone(q)
      <4>1. \A s \in Tasks : ~C!Holds(s, u)
        BY <2>1, <2>7, <3>1
      <4>2. ASSUME NEW s \in Tasks, Copied(task[s], u, msgs) PROVE FALSE
        BY <4>1, <4>2 DEF Copied, C!Holds, C!Pending
      <4> QED
        BY <4>2 DEF Stays
    <3>2. CASE ~(C!Replaces(q) /\ u = C!Gone(q))
      <4>1. CASE q.op = "transfer"
        <5>1. group'.members = group.members
          BY <2>1, <2>2, <4>1 DEF IsGroup
        <5> QED
          BY <1>1, <5>1 DEF Stays, C!Members
      <4>2. CASE q.op = "add"
        <5>1. group'.members = [group.members EXCEPT ![q.target] = @ + 1]
          BY <2>1, <2>2, <4>2 DEF IsGroup
        <5>2. group.members[u] > 0 => group'.members[u] > 0
          BY <2>2, <5>1 DEF IsGroup
        <5> QED
          BY <1>1, <2>7, <5>2 DEF Stays, C!Members
      <4>3. CASE q.op \in {"remove", "leave"}
        <5>1. group'.members = [q.doc.members EXCEPT ![C!Gone(q)] = 0]
          BY <2>1, <2>2, <4>3 DEF IsGroup
        <5>2. C!Replaces(q) /\ q.doc.members = group.members
          BY <2>2, <4>3 DEF C!Replaces, Current
        <5>3. u # C!Gone(q)
          BY <3>2, <5>2
        <5>4. group'.members[u] = group.members[u]
          BY <2>2, <5>1, <5>2, <5>3 DEF IsGroup
        <5> QED
          BY <1>1, <2>7, <5>4 DEF Stays, C!Members
      <4> QED
        BY <2>2, <4>1, <4>2, <4>3
    <3> QED
      BY <3>1, <3>2
  <2> QED
    BY <1>1, <2>4, <2>5, <2>6, <2>7, GroupReads DEF Writing
<1> QED
  BY <1>2, <1>3

(* A deleted group does not stand.                                         *)
LEMMA DroppedReads ==
  ASSUME RowsInv, ReadsInv, NEW t \in Tasks, NEW r, C!Move(t, r), UNCHANGED <<kind, clock, cleared, blurred, strayed>>,
         ~Standing', r.pc \notin Writing, Carries(task[t], r),
         \A k \in C!Convs, u \in Users : row'[k][u] = row[k][u] \/ row'[k][u] = C!NoRow,
         Renewed({}) \/ msgs' = {}, group'.state # "none"
  PROVE  ReadsInv'
<1>1. clock \in Nat
  BY Here
<1>2. Steps(t, r)
  BY <1>1, MoveSteps
<1>3. \A k \in C!Convs, u \in Users : row'[k][u].live \/ row'[k][u] = C!NoRow
  BY DEF ReadsInv, OneConversation
<1>4. OneConversation'
  BY <1>2, <1>3, OneStays DEF ReadsInv
<1>5. ClearedOK'
  BY <1>2, ClearedRests DEF ReadsInv
<1>6. UnreadOK' /\ PagesOK'
  BY DEF UnreadOK, PagesOK, Standing
<1>7. \A v \in Tasks : task'[v].pc \in Writing => v # t /\ Kin(task'[v], task[v])
  BY <1>2 DEF Steps
<1>8. ASSUME NEW s \in Tasks, task'[s].pc \in Writing
      PROVE  /\ task'[s].msg \in 1 .. clock'
             /\ \A k \in C!Convs, u \in Users : Counts(task'[s], u) => row'[k][u].last # task'[s].msg
             /\ \A v \in Tasks \ {s} : task'[v].pc \in Writing => task'[v].msg # task'[s].msg
  <2>1. task[s].pc \in Writing /\ task'[s].msg = task[s].msg /\ MessageOK(s)
    BY <1>7, <1>8 DEF Kin, ReadsInv, MessagesOK
  <2>2. task[s].msg \in 1 .. clock
    BY <2>1 DEF MessageOK
  <2>3. \A v \in Tasks \ {s} : task'[v].pc \in Writing => task'[v].msg # task'[s].msg
    BY <1>7, <2>1 DEF MessageOK, Kin
  <2>4. ASSUME NEW k \in C!Convs, NEW u \in Users, Counts(task'[s], u)
        PROVE  row'[k][u].last # task'[s].msg
    <3>1. Counts(task[s], u)
      BY <1>7, <1>8, <2>4 DEF Kin, Counts
    <3>2. row[k][u].last # task[s].msg
      BY <2>1, <3>1 DEF MessageOK
    <3> QED
      BY <2>1, <2>2, <3>2 DEF C!NoRow
  <2> QED
    BY <2>1, <2>2, <2>3, <2>4
<1>9. \A s \in Tasks : MessageOK(s)'
  BY <1>8 DEF MessageOK, Standing, Counts
<1>10. MessageTimes'
  <2>1. CASE Renewed({})
    <3>1. ASSUME NEW n \in msgs' PROVE n.at \in 1 .. clock' /\ DOMAIN n = Parts
      <4>1. PICK m \in msgs : Newer(m, n, {})
        BY <2>1 DEF Renewed
      <4> QED
        BY <4>1 DEF Newer, ReadsInv, MessagesOK, MessageTimes
    <3> QED
      BY <2>1, <3>1 DEF Renewed, MessageTimes
  <2>2. CASE msgs' = {}
    BY <2>2 DEF MessageTimes
  <2> QED
    BY <2>1, <2>2
<1> QED
  BY <1>4, <1>5, <1>6, <1>9, <1>10 DEF ReadsInv, MessagesOK

(* The group, its rows, its Conversation and its messages are deleted.     *)
LEMMA DropReads ==
  ASSUME RowsInv, ReadsInv, NEW t \in Tasks, C!DropGroup(t) \/ C!DropRows(t) \/ C!DropDoc(t) \/ C!Purge(t)
  PROVE  ReadsInv'
<1>1. /\ task[t].pc \in {"drop", "dropRows", "dropDoc", "purge"} /\ task[t].pc # "idle"
      /\ UNCHANGED <<kind, clock, cleared, blurred, strayed>> /\ (UNCHANGED msgs \/ msgs' = {})
  BY DEF C!DropGroup, C!DropRows, C!DropDoc, C!Purge, C!At, C!Counters, C!Ghosts
<1>2. kind = "group" /\ group.state # "none" /\ IsGroup(group)
  <2>1. Known(task[t], group) /\ PlaceOK(task[t], kind, group, conv.id, row) /\ IsGroup(group)
        /\ StoreOK /\ kind \in {"direct", "group"}
    BY Here
  <2>2. group.state # "none"
    BY <1>1, <2>1 DEF Known, PlaceOK, Dropping
  <2> QED
    BY <2>1, <2>2 DEF StoreOK
<1>3. group'.state = "deleted"
  <2>1. CASE C!DropGroup(t)
    BY <1>2, <2>1 DEF C!DropGroup, IsGroup
  <2>2. CASE ~C!DropGroup(t)
    <3>1. group' = group /\ task[t].pc \in Dropping
      BY <2>2 DEF C!DropRows, C!DropDoc, C!Purge, C!Models, C!At, Dropping
    <3> QED
      BY <3>1, Here DEF PlaceOK
  <2> QED
    BY <2>1, <2>2
<1>4. \A k \in C!Convs, u \in Users : row'[k][u] = row[k][u] \/ row'[k][u] = C!NoRow
  <2>1. CASE C!DropRows(t)
    BY <2>1, Here DEF C!DropRows, StoreOK
  <2>2. CASE ~C!DropRows(t)
    BY <2>2 DEF C!DropGroup, C!DropDoc, C!Purge, C!Models
  <2> QED
    BY <2>1, <2>2
<1>5. PICK r : C!Move(t, r) /\ r.pc \notin Writing /\ Carries(task[t], r)
  <2>1. CASE C!Stop(t)
    <3>1. PICK r : C!Move(t, r) /\ r.pc = "idle"
      BY <2>1, Leaving
    <3> QED
      BY <3>1 DEF Writing, Carries
  <2>2. CASE ~C!Stop(t)
    <3>1. PICK pc \in {"dropConv", "dropDoc", "purge"} : C!Goto(t, pc)
      BY <2>2 DEF C!DropGroup, C!DropRows, C!DropDoc, C!Purge
    <3> QED
      BY <1>1, <3>1, GoingCarries DEF Writing, Copying
  <2> QED
    BY <2>1, <2>2
<1>6. UNCHANGED msgs => Renewed({})
  BY SameRenews DEF ReadsInv
<1>7. ~Standing'
  BY <1>1, <1>2, <1>3 DEF Standing
<1> QED
  BY <1>1, <1>3, <1>4, <1>5, <1>6, <1>7, DroppedReads

(* A read mark.                                                            *)
LEMMA MarkReadReads ==
  ASSUME RowsInv, ReadsInv, NEW t \in Tasks, C!MarkRead(t)
  PROVE  ReadsInv'
<1> DEFINE u == task[t].who
<1>1. /\ task[t].pc = "mark" /\ u \in Users /\ clock \in Nat
      /\ UNCHANGED <<kind, group, conv, row, clock, created, cleared, strayed>>
      /\ msgs' = {[m EXCEPT !.seen = @ \cup {u}] : m \in msgs} /\ C!Goto(t, "zero")
      /\ blurred' = IF \E s \in Tasks : C!Pending(s, u) THEN blurred \cup {u} ELSE blurred
  BY Here DEF C!MarkRead, C!At, C!Models, C!Counters, RecordOK
<1>2. PICK r : C!Move(t, r) /\ r.pc = "zero" /\ r.who = u /\ r.since = task[t].since
  <2>1. DOMAIN task[t] = Fields
    BY Here
  <2>2. PICK r : C!Move(t, r) /\ r.pc = "zero" /\ Turned(r, task[t]) /\ r.since = task[t].since
    BY <1>1, <2>1, Going
  <2> QED
    BY <2>2 DEF Turned, Based
<1>3. Steps(t, r)
  BY <1>1, <1>2, MoveSteps DEF Standing
<1>4. Renewed({u})
  <2>1. ASSUME NEW m \in msgs PROVE Newer(m, [m EXCEPT !.seen = @ \cup {u}], {u})
    <3>1. DOMAIN m = Parts
      BY DEF ReadsInv, MessagesOK, MessageTimes
    <3> QED
      BY <3>1 DEF Newer, Parts
  <2>2. \A m \in msgs : \E n \in msgs' : Newer(m, n, {u})
    BY <1>1, <2>1
  <2>3. ASSUME NEW n \in msgs'
        PROVE  \E m \in msgs : n = [m EXCEPT !.seen = @ \cup {u}] /\ Newer(m, n, {u})
    BY <1>1, <2>1
  <2>4. ASSUME NEW m \in msgs', NEW n \in msgs', m.at = n.at PROVE m = n
    <3>1. PICK k \in msgs : m = [k EXCEPT !.seen = @ \cup {u}] /\ Newer(k, m, {u})
      BY <2>3
    <3>2. PICK j \in msgs : n = [j EXCEPT !.seen = @ \cup {u}] /\ Newer(j, n, {u})
      BY <2>3
    <3>3. k = j
      BY <2>4, <3>1, <3>2 DEF Newer, ReadsInv, MessagesOK, MessageTimes
    <3> QED
      BY <3>1, <3>2, <3>3
  <2>5. \A n \in msgs' : \E m \in msgs : Newer(m, n, {u})
    BY <2>3
  <2> QED
    BY <2>2, <2>4, <2>5 DEF Renewed
<1>5. OneConversation'
  <2>1. ~(kind = "group" /\ group.state = "none")
    BY <1>1 DEF ReadsInv, OneConversation
  <2> QED
    BY <1>1, <1>2, <1>3, <2>1, OneRests DEF ReadsInv
<1>6. ClearedOK'
  <2>1. Carries(task[t], r)
    BY <1>1, <1>2 DEF Carries
  <2> QED
    BY <1>1, <1>2, <1>3, <2>1, ClearedRests DEF ReadsInv
<1>7. LastKept(t, r) /\ Crossing(t) /\ WritesOn(t, r) /\ r.pc \notin Writing
  BY <1>1, <1>2 DEF LastKept, Crossing, WritesOn, Writing
<1>8. Unmarked(t, {u})
  <2> SUFFICES ASSUME u \notin blurred', NEW s \in Tasks \ {t}, Counts(task[s], u) PROVE FALSE
    BY DEF Unmarked
  <2>1. C!Pending(s, u)
    BY DEF Counts, C!Pending
  <2> QED
    BY <1>1, <2>1
<1>9. ASSUME NEW v \in Users PROVE CountKept(t, r, {u}, v) \/ CountOK(v)'
  <2>1. CASE v = u
    <3>1. task'[t] = r
      BY <1>3 DEF Steps
    <3>2. \E s \in Tasks : task'[s].pc = "zero" /\ task'[s].who = v
      BY <1>2, <2>1, <3>1
    <3> QED
      BY <3>2 DEF CountOK, Reading
  <2>2. CASE v # u
    BY <1>1, <1>2, <2>2 DEF CountKept, Settles, Counts
  <2> QED
    BY <2>1, <2>2
<1>10. ASSUME Standing', kind = "group"
       PROVE  /\ Roled(row')
              /\ r.pc = "fetch" /\ r.found.role # "none" => r.found.joined \in Nat \ {0}
              /\ \A v \in Users \ strayed' : CopyGoes(task[t], r, v) /\ RowJoins(v) /\ Stays(t, v)
  <2>1. Standing
    BY <1>3, <1>10 DEF Steps
  <2>2. Roled(row')
    BY <1>1, <1>10, <2>1 DEF Roled, ReadsInv, PagesOK
  <2>3. \A v : CopyGoes(task[t], r, v) /\ RowJoins(v) /\ Stays(t, v)
    BY <1>1, <1>2 DEF CopyGoes, RowJoins, Stays, C!Members, Copied
  <2> QED
    BY <1>2, <2>2, <2>3
<1> QED
  BY <1>3, <1>4, <1>5, <1>6, <1>7, <1>8, <1>9, <1>10, ReadsGo

(* A step that writes rows, but keeps when they were cleared.              *)
LEMMA RowReads ==
  ASSUME RowsInv, ReadsInv, NEW t \in Tasks, NEW r, Steps(t, r), UNCHANGED <<group, msgs, cleared>>, OneConversation',
         Carries(task[t], r), task[t].pc \notin Writing, r.pc \notin Writing \cup {"fetch"},
         \A k \in C!Convs, u \in Users : row'[k][u].last = row[k][u].last \/ row'[k][u].last = 0,
         \A u \in Users : row'[1][u].deleted = row[1][u].deleted,
         Standing' => \A u \in Users \ blurred' :
           \/ CountOK(u)'
           \/ row'[1][u].unread = row[1][u].unread /\ (task[t].pc = "zero" => task[t].who # u),
         Standing' /\ kind = "group" =>
           Roled(row') /\ \A u \in Users \ strayed' : CopyGoes(task[t], r, u) /\ RowJoins(u)
  PROVE  ReadsInv'
<1>1. Renewed({}) /\ LastKept(t, r) /\ Crossing(t) /\ Unmarked(t, {}) /\ WritesOn(t, r)
  BY SameRenews DEF ReadsInv, LastKept, Crossing, Unmarked, WritesOn
<1>2. ClearedOK'
  <2>1. r.pc # "fetch"
    OBVIOUS
  <2> QED
    BY <2>1, ClearedRests DEF ReadsInv
<1>3. \A u : ~Counts(r, u) /\ ~Counts(task[t], u)
  BY DEF Counts, Writing
<1>4. Standing' => \A u \in Users \ blurred' : CountKept(t, r, {}, u) \/ CountOK(u)'
  BY <1>3 DEF CountKept, Settles
<1>5. \A u : Stays(t, u)
  <2>1. kind' = kind
    BY DEF Steps
  <2> QED
    BY <2>1 DEF Stays, C!Members
<1> QED
  BY <1>1, <1>2, <1>4, <1>5, ReadsGo

(* While the conversation stands its rows are those of the first document. *)
LEMMA FirstConv ==
  ASSUME RowsInv, ReadsInv, Standing
  PROVE  /\ 1 \in C!Convs /\ conv.id = created /\ created \in {0, 1}
         /\ \A k : k \in 1 .. created => k = 1
         /\ \A k \in C!Convs, u \in Users : row[k][u].live => k = 1
         /\ \A u \in Users : /\ row[1][u].deleted \in Nat /\ row[1][u].deleted = cleared[u]
                             /\ row[1][u].unread \in Nat /\ (C!Listed(u) = {} => ~row[1][u].live)
                             /\ \A k \in C!Listed(u) : k = 1
<1>1. 1 \in C!Convs /\ StoreOK
  BY Here, ConversationsAssumption DEF C!Convs
<1>2. /\ conv.id = created /\ created \in {0, 1} /\ \A k \in C!Convs \ {1}, u \in Users : ~row[k][u].live
  BY DEF ReadsInv, OneConversation
<1>3. \A u \in Users : row[1][u] \in RowKind
  BY <1>1 DEF StoreOK
<1>4. \A u \in Users : row[1][u].unread \in Nat /\ row[1][u].deleted \in Nat
  BY <1>3 DEF RowKind, C!Times
<1>5. \A u \in Users : row[1][u].deleted = cleared[u]
  BY DEF ReadsInv, ClearedOK
<1> QED
  BY <1>1, <1>2, <1>4, <1>5 DEF C!Listed

(* A count is set to zero.                                                 *)
LEMMA ZeroUnreadReads ==
  ASSUME RowsInv, ReadsInv, NEW t \in Tasks, C!ZeroUnread(t)
  PROVE  ReadsInv'
<1> DEFINE me == task[t].who
<1>1. /\ task[t].pc = "zero" /\ UNCHANGED <<kind, group, conv, msgs, clock, created, cleared, strayed>> /\ C!Stop(t)
      /\ blurred' = IF C!Owed(me, 0) # {} THEN blurred \cup {me} ELSE blurred
      /\ me \in Users /\ clock \in Nat /\ row \in [C!Convs -> [Users -> RowKind]]
  BY Here DEF C!ZeroUnread, C!At, C!Counters, RecordOK, StoreOK
<1>2. PICK r : C!Move(t, r) /\ r.pc = "idle"
  BY <1>1, Leaving
<1>3. Steps(t, r) /\ Carries(task[t], r)
  BY <1>1, <1>2, MoveSteps DEF Standing, Carries
<1>4. \A p \in RowKind : /\ C!Zeroed(p).live = p.live /\ C!Zeroed(p).left = p.left /\ C!Zeroed(p).role = p.role
                         /\ C!Zeroed(p).joined = p.joined /\ C!Zeroed(p).deleted = p.deleted
                         /\ C!Zeroed(p).last = p.last /\ C!Zeroed(p).unread = 0 /\ C!Zeroed(p) \in RowKind
  BY DEF RowKind, C!Zeroed
<1>5. PICK k \in C!Convs : /\ \A i \in C!Convs, u \in Users :
                                row'[i][u] = row[i][u] \/ (u = me /\ i = k /\ row'[i][u] = C!Zeroed(row[i][u]))
                           /\ Standing => row'[1][me].unread = 0
                           /\ row[k][me].live \/ row' = row
  <2>1. CASE C!Listed(me) = {} /\ UNCHANGED row
    <3>1. Standing => row[1][me].unread = 0 /\ 1 \in C!Convs
      BY <1>1, <2>1, FirstConv DEF ReadsInv, OneConversation, C!NoRow
    <3>2. 1 \in C!Convs
      BY ConversationsAssumption DEF C!Convs
    <3> QED
      BY <2>1, <3>1, <3>2
  <2>2. CASE \E i \in C!Listed(me) : row' = [row EXCEPT ![i][me] = C!Zeroed(@)]
    <3>1. PICK i \in C!Listed(me) : row' = [row EXCEPT ![i][me] = C!Zeroed(@)]
      BY <2>2
    <3>2. i \in C!Convs /\ row[i][me].live /\ (Standing => i = 1)
      BY <1>1, <3>1, FirstConv DEF C!Listed
    <3>3. C!Zeroed(row[i][me]) \in RowKind /\ C!Zeroed(row[i][me]).unread = 0
      BY <1>1, <1>4, <3>2
    <3> DEFINE new == C!Zeroed(row[i][me])
    <3>4. row' = [row EXCEPT ![i][me] = new]
      BY <1>1, <3>1, <3>2
    <3>5. new \in RowKind /\ new.unread = 0
      BY <3>3
    <3> HIDE DEF new
    <3>6. \A j \in C!Convs, u \in Users : row'[j][u] = IF j = i /\ u = me THEN new ELSE row[j][u]
      BY <1>1, <3>2, <3>4, <3>5, RowWritten
    <3>7. Standing => row'[1][me].unread = 0
      BY <1>1, <3>2, <3>5, <3>6
    <3> QED
      BY <3>2, <3>6, <3>7 DEF new
  <2> QED
    BY <2>1, <2>2 DEF C!ZeroUnread
<1>6. \A i \in C!Convs, u \in Users :
        /\ row'[i][u].live = row[i][u].live /\ row'[i][u].left = row[i][u].left /\ row'[i][u].role = row[i][u].role
        /\ row'[i][u].joined = row[i][u].joined /\ row'[i][u].deleted = row[i][u].deleted
        /\ row'[i][u].last = row[i][u].last /\ (u # me => row'[i][u].unread = row[i][u].unread)
        /\ row'[i][u] = row[i][u] \/ row[i][u].live
  <2> SUFFICES ASSUME NEW i \in C!Convs, NEW u \in Users, row'[i][u] # row[i][u]
               PROVE  /\ row'[i][u].live = row[i][u].live /\ row'[i][u].left = row[i][u].left
                      /\ row'[i][u].role = row[i][u].role /\ row'[i][u].joined = row[i][u].joined
                      /\ row'[i][u].deleted = row[i][u].deleted /\ row'[i][u].last = row[i][u].last
                      /\ u = me /\ row[i][u].live
    OBVIOUS
  <2>1. u = me /\ row'[i][u] = C!Zeroed(row[i][u]) /\ row[i][u].live /\ row[i][u] \in RowKind
    BY <1>1, <1>5
  <2> QED
    BY <1>4, <2>1, ZenonT(30)
<1>7. 1 \in C!Convs
  BY ConversationsAssumption DEF C!Convs
<1>8. OneConversation'
  <2>1. \A i \in C!Convs, u \in Users : row'[i][u].live \/ row'[i][u] = C!NoRow
    BY <1>6 DEF ReadsInv, OneConversation
  <2>2. ASSUME Standing'
        PROVE  /\ conv'.id = created' /\ created' \in {0, 1} /\ \A i \in C!Convs \ {1}, u \in Users : ~row'[i][u].live
               /\ \A u \in Users : row[1][u].live => row'[1][u].live
    BY <1>1, <1>3, <1>6, <1>7, <2>2 DEF ReadsInv, OneConversation, Steps
  <2>3. ~(kind = "group" /\ group.state = "none")
    BY <1>1 DEF ReadsInv, OneConversation
  <2> QED
    BY <1>1, <1>2, <1>3, <2>1, <2>2, <2>3, OneStays DEF ReadsInv
<1>9. ASSUME Standing', NEW u \in Users \ blurred'
      PROVE  \/ CountOK(u)'
             \/ row'[1][u].unread = row[1][u].unread /\ (task[t].pc = "zero" => task[t].who # u)
  <2>1. CASE u # me
    BY <1>6, <1>7, <2>1
  <2>2. CASE u = me
    <3>1. row'[1][u].unread = 0 /\ C!Owed(u, 0) = {}
      BY <1>1, <1>3, <1>5, <1>9, <2>2 DEF Steps
    <3>2. \A n : ~Unseen(u, n)
      <4> SUFFICES ASSUME NEW n, NEW m \in msgs, m.at = n, u \in m.aud, u \notin m.seen, m.by # u PROVE FALSE
        BY DEF Unseen
      <4>1. m.at > 0
        BY DEF ReadsInv, MessagesOK, MessageTimes
      <4> QED
        BY <3>1, <4>1 DEF C!Owed
    <3>3. Due(u)' = {}
      BY <1>1, <3>2 DEF Due, Unseen
    <3> QED
      BY <3>1, <3>3, FS_EmptySet DEF CountOK
  <2> QED
    BY <2>1, <2>2
<1>10. ASSUME Standing', kind = "group"
       PROVE  Roled(row') /\ \A u \in Users \ strayed' : CopyGoes(task[t], r, u) /\ RowJoins(u)
  <2>1. Standing
    BY <1>3, <1>10 DEF Steps
  <2>2. Roled(row')
    BY <1>6, <1>7, <1>10, <2>1 DEF Roled, ReadsInv, PagesOK
  <2>3. \A u : CopyGoes(task[t], r, u)
    BY <1>2 DEF CopyGoes, Copied
  <2> QED
    BY <1>6, <1>7, <2>2, <2>3 DEF RowJoins
<1>11. /\ \A i \in C!Convs, u \in Users : row'[i][u].last = row[i][u].last \/ row'[i][u].last = 0
       /\ \A u \in Users : row'[1][u].deleted = row[1][u].deleted
       /\ task[t].pc \notin Writing /\ r.pc \notin Writing \cup {"fetch"}
  BY <1>1, <1>2, <1>6, <1>7 DEF Writing
<1> QED
  BY <1>1, <1>3, <1>8, <1>9, <1>10, <1>11, RowReads

(* A write to a row leaves the Conversation and its rows one.              *)
LEMMA OneWrites ==
  ASSUME RowsInv, ReadsInv, NEW t \in Tasks, NEW r, Steps(t, r), conv'.id = conv.id, created' = created,
         \A k \in C!Convs, u \in Users : row'[k][u] = row[k][u] \/ row'[k][u].live,
         Standing => \A k \in C!Convs \ {1}, u \in Users : row'[k][u] = row[k][u],
         group' = group, ~(kind = "group" /\ group.state = "none"), r.pc \notin {"syncRow", "put"}
  PROVE  OneConversation'
<1>1. \A k \in C!Convs, u \in Users : row'[k][u].live \/ row'[k][u] = C!NoRow
  BY DEF ReadsInv, OneConversation
<1>2. ASSUME Standing'
      PROVE  /\ conv'.id = created' /\ created' \in {0, 1} /\ \A k \in C!Convs \ {1}, u \in Users : ~row'[k][u].live
             /\ \A u \in Users : row[1][u].live => row'[1][u].live
  <2>1. Standing /\ 1 \in C!Convs
    BY <1>2, FirstConv DEF Steps
  <2> QED
    BY <2>1 DEF ReadsInv, OneConversation
<1> QED
  BY <1>1, <1>2, OneStays DEF ReadsInv

(* A sync marks those outside its copy as left.                            *)
LEMMA SyncLeaveReads ==
  ASSUME RowsInv, ReadsInv, NEW t \in Tasks, C!SyncLeave(t)
  PROVE  ReadsInv'
<1> DEFINE q == task[t]
           Then(v) == IF C!Leaves(q, v) THEN [row[q.k][v] EXCEPT !.left = q.now, !.role = "none"] ELSE row[q.k][v]
<1>1. /\ q.pc = "syncLeave" /\ UNCHANGED <<kind, group, conv, msgs, clock, created, cleared, blurred, strayed>>
      /\ C!Enter(t, C!AfterSync(q.op)) /\ C!AfterSync(q.op) \in {"done", "say", "save", "drop"}
      /\ ~(kind = "group" /\ group.state = "none")
  BY DEF C!SyncLeave, C!At, C!Counters, C!AfterSync, ReadsInv, OneConversation
<1>a. row' = [row EXCEPT ![q.k] = [v \in Users |-> Then(v)]]
  BY DEF C!SyncLeave
<1> HIDE DEF Then
<1>2. /\ q.who \in Users /\ clock \in Nat /\ row \in [C!Convs -> [Users -> RowKind]] /\ q.k \in C!Convs
      /\ q.now # 0 /\ q.k \in 1 .. created
  BY <1>1, Here DEF RecordOK, Looping, StoreOK, C!Convs
<1>3. PICK r : C!Move(t, r) /\ r.pc \in Parting /\ Carries(q, r)
  BY <1>1, <1>2, Entering
<1>4. Steps(t, r)
  BY <1>1, <1>2, <1>3, MoveSteps DEF Standing
<1>5. \A v \in Users : row[q.k][v] \in RowKind
  BY <1>2
<1>6. \A v \in Users :
        /\ Then(v).live = row[q.k][v].live /\ Then(v).joined = row[q.k][v].joined
        /\ Then(v).deleted = row[q.k][v].deleted /\ Then(v).last = row[q.k][v].last
        /\ Then(v).unread = row[q.k][v].unread
        /\ Then(v) = row[q.k][v] \/ (row[q.k][v].live /\ Then(v).left # 0 /\ Then(v).role = "none")
  BY <1>2, <1>5 DEF RowKind, C!Leaves, C!Roles, Then
<1>7. \A k \in C!Convs, v \in Users : row'[k][v] = IF k = q.k THEN Then(v) ELSE row[k][v]
  BY <1>2, <1>a
<1>8. \A k \in C!Convs, v \in Users :
        /\ row'[k][v].live = row[k][v].live /\ row'[k][v].joined = row[k][v].joined
        /\ row'[k][v].deleted = row[k][v].deleted /\ row'[k][v].last = row[k][v].last
        /\ row'[k][v].unread = row[k][v].unread
        /\ row'[k][v] = row[k][v] \/ (row[k][v].live /\ row'[k][v].left # 0 /\ row'[k][v].role = "none")
  BY <1>6, <1>7
<1>9. 1 \in C!Convs
  BY ConversationsAssumption DEF C!Convs
<1>10. OneConversation'
  <2>1. Standing => \A k \in C!Convs \ {1}, u \in Users : row'[k][u] = row[k][u]
    BY <1>2, <1>7, FirstConv
  <2>2. \A k \in C!Convs, u \in Users : row'[k][u] = row[k][u] \/ row'[k][u].live
    BY <1>8
  <2>3. r.pc \notin {"syncRow", "put"}
    BY <1>3 DEF Parting
  <2> QED
    BY <1>1, <1>4, <2>1, <2>2, <2>3, OneWrites
<1>11. ASSUME Standing', kind = "group"
       PROVE  Roled(row') /\ \A u \in Users \ strayed' : CopyGoes(q, r, u) /\ RowJoins(u)
  <2>1. Standing
    BY <1>4, <1>11 DEF Steps
  <2>2. Roled(row')
    BY <1>8, <1>9, <1>11, <2>1 DEF Roled, ReadsInv, PagesOK
  <2>3. \A u : CopyGoes(q, r, u)
    BY <1>3 DEF CopyGoes, Copied, Parting
  <2>4. \A u \in Users : RowJoins(u)
    BY <1>8, <1>9 DEF RowJoins
  <2> QED
    BY <2>2, <2>3, <2>4
<1>12. /\ \A k \in C!Convs, u \in Users : row'[k][u].last = row[k][u].last \/ row'[k][u].last = 0
       /\ \A u \in Users : row'[1][u].deleted = row[1][u].deleted
       /\ q.pc \notin Writing /\ r.pc \notin Writing \cup {"fetch"}
       /\ \A u \in Users : row'[1][u].unread = row[1][u].unread /\ (q.pc = "zero" => q.who # u)
  BY <1>1, <1>3, <1>8, <1>9 DEF Writing, Parting
<1> QED
  BY <1>1, <1>3, <1>4, <1>10, <1>11, <1>12, RowReads

(* What a sync writes into a row.                                          *)
LEMMA SyncedReads ==
  ASSUME NEW old \in RowKind, old.live \/ old = C!NoRow, NEW found, found.live <=> old.live, NEW role, NEW now
  PROVE  LET new == C!Synced(old, found, role, now) IN
         /\ new.live /\ new.left = 0 /\ new.role = role
         /\ new.deleted = old.deleted /\ new.last = old.last /\ new.unread = old.unread
         /\ new.joined = IF found.live /\ found.left = 0 THEN old.joined ELSE now
<1> DEFINE new == C!Synced(old, found, role, now)
<1>1. CASE ~found.live
  <2>1. /\ new.live /\ new.left = 0 /\ new.role = role /\ new.joined = now
        /\ new.deleted = 0 /\ new.last = 0 /\ new.unread = 0
    BY <1>1 DEF C!Synced, C!NoRow
  <2>2. old = C!NoRow /\ old.deleted = 0 /\ old.last = 0 /\ old.unread = 0
    BY <1>1 DEF C!NoRow
  <2> QED
    BY <1>1, <2>1, <2>2
<1>2. CASE found.live
  <2>1. new = [old EXCEPT !.role = role, !.left = 0, !.joined = IF found.left # 0 THEN now ELSE old.joined]
    BY <1>2 DEF C!Synced, RowKind
  <2>2. old.live
    BY <1>2
  <2> QED
    BY <1>2, <2>1, <2>2 DEF RowKind
<1> QED
  BY <1>1, <1>2

(* A sync writes a row.                                                    *)
LEMMA SyncRowReads ==
  ASSUME RowsInv, ReadsInv, NEW t \in Tasks, C!SyncRow(t)
  PROVE  ReadsInv'
<1> DEFINE q == task[t]  me == q.cur  old == row[q.k][me]  rest == q.todo \ {me}
           new == C!Synced(old, q.found, C!RoleIn(q.boss, me), q.now)
           r == [q EXCEPT !.todo = rest, !.cur = Nobody, !.found = C!NoRow,
                          !.pc = IF rest = {} THEN "syncLeave" ELSE "syncFind"]
<1>1. /\ q.pc = "syncRow" /\ UNCHANGED <<kind, group, conv, msgs, clock, created, cleared, blurred, strayed>>
      /\ ~(kind = "group" /\ group.state = "none")
  BY DEF C!SyncRow, C!At, C!Counters, ReadsInv, OneConversation
<1>2. /\ q.who \in Users /\ clock \in Nat /\ row \in [C!Convs -> [Users -> RowKind]] /\ q.k \in C!Convs
      /\ q.now # 0 /\ q.k \in 1 .. created /\ me \in Users /\ me \in q.todo /\ DOMAIN q = Fields
  BY <1>1, Here DEF RecordOK, Looping, StoreOK, C!Convs
<1>3. CASE ~q.found.live /\ old.live
  <2>1. C!Enter(t, C!AfterSync(q.op)) /\ C!AfterSync(q.op) \in {"done", "say", "save", "drop"} /\ UNCHANGED row
    BY <1>3 DEF C!SyncRow, C!AfterSync
  <2>2. Quiet
    BY <1>1, <2>1 DEF Quiet
  <2> QED
    BY <1>1, <2>1, <2>2, EnterReads DEF Writing
<1>4. CASE ~(~q.found.live /\ old.live)
  <2>1. C!Move(t, r) /\ row' = IF q.found.live /\ ~old.live THEN row ELSE [row EXCEPT ![q.k][me] = new]
    BY <1>4 DEF C!SyncRow
  <2>2. /\ r.pc = (IF rest = {} THEN "syncLeave" ELSE "syncFind") /\ r.who = q.who /\ r.since = q.since
        /\ r.now = q.now /\ r.todo = rest
    BY <1>2 DEF Fields, C!Idle
  <2> HIDE DEF r
  <2>3. Steps(t, r)
    BY <1>1, <1>2, <2>1, MoveSteps DEF Standing
  <2>4. old \in RowKind /\ (old.live \/ old = C!NoRow) /\ C!RoleIn(q.boss, me) \in C!Roles \ {"none"}
    BY <1>2 DEF ReadsInv, OneConversation, C!RoleIn, C!Roles
  <2>5. Standing => q.k = 1 /\ 1 \in C!Convs
    BY <1>2, FirstConv
  <2>6. Standing => (q.found.live => old.live)
    BY <1>1, <2>5 DEF ReadsInv, OneConversation
  <2>7. (q.found.live <=> old.live) =>
          /\ new.live /\ new.left = 0 /\ new.role # "none"
          /\ new.deleted = old.deleted /\ new.last = old.last /\ new.unread = old.unread
          /\ new.joined = IF q.found.live /\ q.found.left = 0 THEN old.joined ELSE q.now
    BY <2>4, SyncedReads
  <2>8. C!Synced(old, q.found, C!RoleIn(q.boss, me), q.now) \in RowKind
    <3>1. 0 \in C!Times /\ q.now \in C!Times
      BY <1>1, <1>2, Here DEF C!Times, RecordOK
    <3> QED
      BY <2>4, <3>1, SyncedRow
  <2>9. new \in RowKind
    BY <2>8
  <2> HIDE DEF new
  <2>10. \A k \in C!Convs, u \in Users :
           \/ row'[k][u] = row[k][u] /\ (k = q.k /\ u = me => q.found.live /\ ~old.live)
           \/ k = q.k /\ u = me /\ row'[k][u] = new /\ (q.found.live <=> old.live)
    <3>1. CASE q.found.live /\ ~old.live
      BY <2>1, <3>1
    <3>2. CASE ~(q.found.live /\ ~old.live)
      <4>1. row' = [row EXCEPT ![q.k][me] = new]
        BY <2>1, <3>2
      <4>2. \A k \in C!Convs, u \in Users : row'[k][u] = IF k = q.k /\ u = me THEN new ELSE row[k][u]
        BY <1>2, <2>9, <4>1, RowWritten
      <4> QED
        BY <1>4, <3>2, <4>2
    <3> QED
      BY <3>1, <3>2
  <2>11. \A k \in C!Convs, u \in Users :
           /\ row'[k][u].deleted = row[k][u].deleted /\ row'[k][u].last = row[k][u].last
           /\ row'[k][u].unread = row[k][u].unread /\ (row'[k][u] = row[k][u] \/ row'[k][u].live)
    BY <2>7, <2>10
  <2>12. 1 \in C!Convs
    BY ConversationsAssumption DEF C!Convs
  <2>13. OneConversation'
    <3>1. Standing => \A k \in C!Convs \ {1}, u \in Users : row'[k][u] = row[k][u]
      BY <2>5, <2>10
    <3> QED
      BY <1>1, <2>2, <2>3, <2>11, <3>1, OneWrites
  <2>14. ASSUME Standing', kind = "group"
         PROVE  Roled(row') /\ \A u \in Users \ strayed' : CopyGoes(q, r, u) /\ RowJoins(u)
    <3>1. Standing /\ q.k = 1 /\ (q.found.live => old.live)
      BY <2>3, <2>5, <2>6, <2>14 DEF Steps
    <3>2. Roled(row)
      BY <2>14, <3>1 DEF Roled, ReadsInv, PagesOK
    <3>3. \A u \in Users : row'[1][u] = row[1][u] \/ (u = me /\ row'[1][u] = new /\ (q.found.live <=> old.live))
      BY <2>10, <2>12
    <3>4. (q.found.live <=> old.live) => new.joined # 0
      BY <1>2, <2>7, <3>1, <3>2 DEF Roled
    <3>5. Roled(row')
      BY <2>7, <3>2, <3>3, <3>4 DEF Roled
    <3>6. ASSUME NEW u \in Users \ strayed PROVE CopyGoes(q, r, u)
      <4>1. u \in C!Members => u \in C!Members'
        BY <1>1 DEF C!Members
      <4>2. Copied(r, u, msgs) => Copied(q, u, msgs) /\ Base(r) = Base(q)
        BY <1>1, <2>2 DEF Copied, Base, Writing
      <4> QED
        BY <1>1, <2>2, <4>1, <4>2 DEF CopyGoes, Unbased
    <3>7. ASSUME NEW u \in Users \ strayed PROVE RowJoins(u)
      <4>1. CASE row'[1][u] = row[1][u]
        BY <4>1 DEF RowJoins
      <4>2. CASE u = me /\ row'[1][u] = new /\ (q.found.live <=> old.live)
        <5>1. CopyOK(q, u, msgs, C!Members, row)
          BY <2>14, <3>1, <3>7 DEF ReadsInv, PagesOK, JoinedOK
        <5>2. Copied(q, u, msgs) /\ Base(q) = q.now /\ q.pc \notin Unbased
          BY <1>1, <1>2, <4>2 DEF Copied, Base, Writing, Unbased
        <5>3. AllSince(u, q.now, msgs) /\ (q.found.live /\ q.found.left = 0 => AllSince(u, old.joined, msgs))
          BY <1>1, <3>1, <4>2, <5>1, <5>2 DEF CopyOK
        <5>4. AllSince(u, new.joined, msgs)
          BY <2>7, <4>2, <5>3
        <5> QED
          BY <1>1, <4>2, <5>4 DEF RowJoins
      <4> QED
        BY <3>3, <4>1, <4>2
    <3> QED
      BY <1>1, <3>5, <3>6, <3>7
  <2>15. /\ \A u \in Users : row'[1][u].deleted = row[1][u].deleted
         /\ \A u \in Users : row'[1][u].unread = row[1][u].unread /\ (q.pc = "zero" => q.who # u)
         /\ q.pc \notin Writing /\ r.pc \notin Writing \cup {"fetch"} /\ Carries(q, r)
    BY <1>1, <1>2, <2>2, <2>11, <2>12 DEF Writing, Carries
  <2> QED
    BY <1>1, <2>3, <2>11, <2>13, <2>14, <2>15, RowReads
<1> QED
  BY <1>3, <1>4

(* Preferences create the row of a user who has none.                      *)
LEMMA PrefRowReads ==
  ASSUME RowsInv, ReadsInv, NEW t \in Tasks, C!PrefRow(t)
  PROVE  ReadsInv'
<1> DEFINE q == task[t]  me == q.who  role == IF kind = "direct" THEN "none" ELSE "member"
           new == [C!NoRow EXCEPT !.live = TRUE, !.role = role, !.joined = clock + 1]
<1>1. /\ q.pc = "prefRow" /\ UNCHANGED <<kind, group, conv, msgs, created, cleared, blurred, strayed>> /\ C!Stop(t)
      /\ ~(kind = "group" /\ group.state = "none")
  BY DEF C!PrefRow, C!At, ReadsInv, OneConversation
<1>2. /\ me \in Users /\ clock \in Nat /\ row \in [C!Convs -> [Users -> RowKind]] /\ q.k \in C!Convs
      /\ q.k \in 1 .. created /\ kind \in {"direct", "group"} /\ StoreOK
  BY <1>1, Here DEF RecordOK, Looping, StoreOK, C!Convs
<1>3. CASE C!Listed(me) # {}
  <2>1. Quiet
    BY <1>1, <1>3 DEF C!PrefRow, Quiet
  <2> QED
    BY <1>1, <2>1, StopReads DEF Writing
<1>4. CASE C!Listed(me) = {}
  <2>1. clock' = clock + 1 /\ row' = [row EXCEPT ![q.k][me] = new]
    BY <1>4 DEF C!PrefRow
  <2>2. PICK r : C!Move(t, r) /\ r.pc = "idle"
    BY <1>1, Leaving
  <2>3. Steps(t, r)
    BY <1>1, <1>2, <2>1, <2>2, MoveSteps DEF Standing
  <2>4. /\ new.live /\ new.left = 0 /\ new.role = role /\ new.joined = clock + 1 /\ new.deleted = 0 /\ new.last = 0
        /\ new.unread = 0
    BY DEF C!NoRow
  <2>5. new \in RowKind' /\ row \in [C!Convs -> [Users -> RowKind']]
    <3>1. clock' \in Nat /\ clock <= clock' /\ clock + 1 \in C!Times' /\ 0 \in C!Times'
      BY <1>2, <2>1 DEF C!Times
    <3>2. row \in [C!Convs -> [Users -> RowKind']]
      BY <1>2, <3>1, TimesGrow
    <3> QED
      BY <3>1, <3>2 DEF RowKind, C!NoRow, C!Roles
  <2> HIDE DEF new
  <2>6. \A k \in C!Convs, u \in Users : row'[k][u] = IF k = q.k /\ u = me THEN new ELSE row[k][u]
    BY <1>2, <2>1, <2>5, RowWritten
  <2>7. row[q.k][me] = C!NoRow
    BY <1>2, <1>4 DEF C!Listed, ReadsInv, OneConversation
  <2>8. \A k \in C!Convs, u \in Users :
           /\ row'[k][u].deleted = row[k][u].deleted /\ row'[k][u].last = row[k][u].last
           /\ row'[k][u].unread = row[k][u].unread /\ (row'[k][u] = row[k][u] \/ row'[k][u].live)
    BY <2>4, <2>6, <2>7 DEF C!NoRow
  <2>9. 1 \in C!Convs
    BY ConversationsAssumption DEF C!Convs
  <2>10. Standing => q.k = 1
    BY <1>2, FirstConv
  <2>11. OneConversation'
    <3>1. Standing => \A k \in C!Convs \ {1}, u \in Users : row'[k][u] = row[k][u]
      BY <2>6, <2>10
    <3> QED
      BY <1>1, <2>2, <2>3, <2>8, <3>1, OneWrites
  <2>12. ASSUME Standing', kind = "group"
         PROVE  Roled(row') /\ \A u \in Users \ strayed' : CopyGoes(q, r, u) /\ RowJoins(u)
    <3>1. Standing /\ q.k = 1
      BY <2>3, <2>10, <2>12 DEF Steps
    <3>2. Roled(row)
      BY <2>12, <3>1 DEF Roled, ReadsInv, PagesOK
    <3>3. Roled(row')
      BY <1>2, <2>4, <2>6, <2>9, <2>12, <3>1, <3>2 DEF Roled
    <3>4. \A u : CopyGoes(q, r, u)
      BY <2>2 DEF CopyGoes, Copied
    <3>5. \A u : AllSince(u, clock + 1, msgs')
      <4>1. \A m \in msgs : m.at \in 1 .. clock
        BY DEF ReadsInv, MessagesOK, MessageTimes
      <4> QED
        BY <1>1, <1>2, <4>1 DEF AllSince
    <3>6. \A u \in Users : RowJoins(u)
      BY <2>4, <2>6, <2>9, <3>1, <3>5 DEF RowJoins
    <3> QED
      BY <3>3, <3>4, <3>6
  <2>13. /\ \A u \in Users : row'[1][u].deleted = row[1][u].deleted
         /\ \A u \in Users : row'[1][u].unread = row[1][u].unread /\ (q.pc = "zero" => q.who # u)
         /\ q.pc \notin Writing /\ r.pc \notin Writing \cup {"fetch"} /\ Carries(q, r)
    BY <1>1, <1>2, <2>2, <2>8, <2>9 DEF Writing, Carries
  <2> QED
    BY <1>1, <2>3, <2>8, <2>11, <2>12, <2>13, RowReads
<1> QED
  BY <1>3, <1>4

(* The fields of a row that was cleared.                                   *)
LEMMA ClearedRow ==
  ASSUME NEW T, NEW p \in RowsOver(T), NEW at
  PROVE  /\ C!SoftDeleted(p, at).live = p.live /\ C!SoftDeleted(p, at).left = p.left
         /\ C!SoftDeleted(p, at).role = p.role /\ C!SoftDeleted(p, at).joined = p.joined
         /\ C!SoftDeleted(p, at).deleted = at /\ C!SoftDeleted(p, at).last = 0 /\ C!SoftDeleted(p, at).unread = 0
BY DEF RowsOver, C!SoftDeleted

(* A history is cleared, also for the counts that are under way.           *)
LEMMA WipeReads ==
  ASSUME RowsInv, ReadsInv, NEW t \in Tasks, C!Wipe(t)
  PROVE  ReadsInv'
<1> DEFINE q == task[t]  me == q.who  old == row[q.k][me]  new == C!SoftDeleted(old, clock + 1)
<1>1. /\ q.pc = "wipe" /\ UNCHANGED <<kind, group, conv, msgs, created, blurred, strayed>> /\ clock' = clock + 1
      /\ row' = IF old.live THEN [row EXCEPT ![q.k][me] = C!SoftDeleted(@, clock + 1)] ELSE row
      /\ cleared' = IF old.live THEN [cleared EXCEPT ![me] = clock + 1] ELSE cleared
      /\ task' = [s \in Tasks |->
           IF s = t THEN C!Idle
           ELSE IF C!At(s, "put") /\ task[s].cur = me THEN [task[s] EXCEPT !.crossed = TRUE] ELSE task[s]]
  BY DEF C!Wipe, C!At
<1>2. /\ me \in Users /\ clock \in Nat /\ row \in [C!Convs -> [Users -> RowKind]] /\ q.k \in C!Convs
      /\ StoreOK /\ cleared \in [Users -> 0 .. clock] /\ ~(kind = "group" /\ group.state = "none")
  <2>1. q.pc = "wipe" /\ RecordOK(q, clock, created) /\ StoreOK /\ MaxConvs \in Nat /\ clock \in Nat
    BY <1>1, Here
  <2>2. me \in Users /\ row \in [C!Convs -> [Users -> RowKind]] /\ q.k \in C!Convs
    BY <2>1 DEF RecordOK, StoreOK, C!Convs
  <2>3. cleared \in [Users -> 0 .. clock] /\ ~(kind = "group" /\ group.state = "none")
    BY <2>1 DEF ReadsInv, ClearedOK, OneConversation
  <2> QED
    BY <2>1, <2>2, <2>3
<1>3. /\ new.live = old.live /\ new.left = old.left /\ new.role = old.role /\ new.joined = old.joined
      /\ new.deleted = clock + 1 /\ new.last = 0 /\ new.unread = 0
  <2>1. old \in RowsOver(C!Times)
    BY <1>2 DEF RowKind, RowsOver
  <2> HIDE DEF old
  <2> QED
    BY <2>1, ClearedRow
<1>4. \A k \in C!Convs, u \in Users :
        \/ row'[k][u] = row[k][u] /\ (k = q.k /\ u = me => ~old.live)
        \/ k = q.k /\ u = me /\ old.live /\ row'[k][u] = new
  <2>1. CASE ~old.live
    BY <1>1, <2>1
  <2>2. CASE old.live
    <3>1. new \in RowsOver(Nat) /\ row \in [C!Convs -> [Users -> RowsOver(Nat)]]
      <4>1. RowKind \subseteq RowsOver(Nat)
        BY <1>2 DEF RowKind, RowsOver, C!Times
      <4>2. old \in RowsOver(Nat) /\ clock + 1 \in Nat
        BY <1>2, <4>1
      <4>3. row \in [C!Convs -> [Users -> RowsOver(Nat)]]
        BY <1>2, <4>1
      <4> HIDE DEF old
      <4> QED
        BY <4>2, <4>3, SoftDeletedRow
    <3>2. row' = [row EXCEPT ![q.k][me] = new]
      BY <1>1, <1>2, <2>2
    <3> HIDE DEF new
    <3>3. \A k \in C!Convs, u \in Users : row'[k][u] = IF k = q.k /\ u = me THEN new ELSE row[k][u]
      BY <1>2, <3>1, <3>2, RowWritten
    <3> QED
      BY <2>2, <3>3
  <2> QED
    BY <2>1, <2>2
<1>r. task'[t] = C!Idle
  BY <1>1
<1>s. ASSUME NEW s \in Tasks, s # t
      PROVE  Kin(task'[s], task[s]) /\ (task[s].pc = "put" /\ task[s].cur = me => task'[s].crossed)
  <2>1. DOMAIN task[s] = Fields
    BY Here
  <2>2. CASE C!At(s, "put") /\ task[s].cur = me
    <3>1. task'[s] = [task[s] EXCEPT !.crossed = TRUE]
      BY <1>1, <1>s, <2>2
    <3> QED
      BY <2>1, <3>1 DEF Kin, Fields, C!Idle
  <2>3. CASE ~(C!At(s, "put") /\ task[s].cur = me)
    <3>1. task'[s] = task[s]
      BY <1>1, <1>s, <2>3
    <3> QED
      BY <2>3, <3>1 DEF Kin, C!At
  <2> QED
    BY <2>2, <2>3
<1> DEFINE r == C!Idle
<1>5. r.pc = "idle"
  BY DEF C!Idle
<1> HIDE DEF r, new
<1>t. task'[t] = r
  BY <1>r DEF r
<1>6. Steps(t, r)
  BY <1>1, <1>2, <1>s, <1>t DEF Steps, Standing
<1>7. 1 \in C!Convs /\ (Standing /\ old.live => q.k = 1)
  <2>1. 1 \in C!Convs
    BY ConversationsAssumption DEF C!Convs
  <2> QED
    BY <1>2, <2>1, FirstConv
<1>8. OneConversation'
  <2>1. \A k \in C!Convs, u \in Users : row'[k][u] = row[k][u] \/ row'[k][u].live
    BY <1>3, <1>4
  <2>2. Standing => \A k \in C!Convs \ {1}, u \in Users : row'[k][u] = row[k][u]
    BY <1>4, <1>7
  <2> QED
    BY <1>1, <1>2, <1>5, <1>6, <2>1, <2>2, OneWrites
<1>9. ClearedOK'
  <2>1. /\ cleared' \in [Users -> 0 .. clock']
        /\ \A u \in Users : cleared'[u] = (IF old.live /\ u = me THEN clock + 1 ELSE cleared[u])
    BY <1>1, <1>2
  <2>2. \A u \in Users : cleared[u] <= cleared'[u]
    BY <1>2, <2>1
  <2>3. Standing' => \A u \in Users : row'[1][u].deleted = cleared'[u]
    <3> SUFFICES ASSUME Standing', NEW u \in Users PROVE row'[1][u].deleted = cleared'[u]
      OBVIOUS
    <3>1. Standing
      BY <1>6 DEF Steps
    <3>2. row[1][u].deleted = cleared[u]
      BY <3>1, FirstConv
    <3> QED
      BY <1>3, <1>4, <1>7, <2>1, <3>1, <3>2
  <2>4. Carries(q, r) /\ r.pc # "fetch"
    BY <1>5 DEF Carries
  <2> QED
    BY <1>6, <2>1, <2>2, <2>3, <2>4, ClearedStays DEF ReadsInv
<1>10. Renewed({}) /\ LastKept(t, r) /\ Unmarked(t, {}) /\ WritesOn(t, r)
  <2>1. WritesOn(t, r) /\ Unmarked(t, {})
    BY <1>5 DEF WritesOn, Writing, Unmarked
  <2>2. LastKept(t, r)
    BY <1>3, <1>4 DEF LastKept
  <2> QED
    BY <1>1, <2>1, <2>2, SameRenews DEF ReadsInv
<1>11. Crossing(t)
  <2> SUFFICES ASSUME NEW u \in Users, row'[1][u].deleted # row[1][u].deleted,
                      NEW s \in Tasks \ {t}, task[s].pc = "put", task[s].cur = u
               PROVE  task'[s].crossed
    BY DEF Crossing
  <2>1. u = me
    BY <1>4, <1>7
  <2> QED
    BY <1>s, <2>1
<1>12. ASSUME Standing', NEW u \in Users \ blurred'
       PROVE  CountKept(t, r, {}, u) \/ CountOK(u)'
  <2>1. CASE u = me /\ old.live
    <3>1. Standing /\ q.k = 1
      BY <1>6, <1>7, <1>12, <2>1 DEF Steps
    <3>2. row'[1][u].unread = 0 /\ row'[1][u].deleted = clock + 1
      BY <1>3, <1>4, <1>7, <2>1, <3>1
    <3>3. \A n \in Nat : n > clock + 1 => ~Unseen(u, n)
      BY <1>2 DEF Unseen, ReadsInv, MessagesOK, MessageTimes
    <3>4. Due(u)' = {}
      BY <1>1, <3>2, <3>3 DEF Due, Unseen
    <3> QED
      BY <3>2, <3>4, FS_EmptySet DEF CountOK
  <2>2. CASE ~(u = me /\ old.live)
    <3>1. row'[1][u] = row[1][u]
      BY <1>4, <1>7, <2>2
    <3>2. ~Counts(r, u) /\ ~Counts(q, u) /\ q.pc # "zero"
      BY <1>1, <1>5 DEF Counts
    <3> QED
      BY <3>1, <3>2 DEF CountKept, Settles
  <2> QED
    BY <2>1, <2>2
<1>13. ASSUME Standing', kind = "group"
       PROVE  /\ Roled(row')
              /\ r.pc = "fetch" /\ r.found.role # "none" => r.found.joined \in Nat \ {0}
              /\ \A u \in Users \ strayed' : CopyGoes(q, r, u) /\ RowJoins(u) /\ Stays(t, u)
  <2>1. Standing
    BY <1>6, <1>13 DEF Steps
  <2>2. \A u \in Users : /\ row'[1][u].live = row[1][u].live /\ row'[1][u].left = row[1][u].left
                         /\ row'[1][u].role = row[1][u].role /\ row'[1][u].joined = row[1][u].joined
    BY <1>3, <1>4, <1>7
  <2>3. Roled(row)
    BY <1>13, <2>1 DEF Roled, ReadsInv, PagesOK
  <2>4. Roled(row') /\ \A u \in Users : RowJoins(u)
    BY <2>2, <2>3 DEF Roled, RowJoins
  <2>5. \A u : CopyGoes(q, r, u) /\ Stays(t, u)
    BY <1>1, <1>5 DEF CopyGoes, Copied, Stays, C!Members
  <2> QED
    BY <1>5, <2>4, <2>5
<1>14. r.pc \notin Writing
  BY <1>5 DEF Writing
<1> QED
  BY <1>6, <1>8, <1>9, <1>10, <1>11, <1>12, <1>13, <1>14, ReadsGo

(* The requests that write a message out take one user after the other.    *)
Writes(r, q) == r.shape = q.shape /\ r.msg = q.msg /\ r.op = q.op /\ r.who = q.who

(* The record of a request that is done with one user.                     *)
LEMMA OnwardReads ==
  ASSUME RowsInv, NEW t \in Tasks, NEW rest, C!Onward(t, rest), task[t].pc \in {"find", "put"}
  PROVE  \E r : /\ C!Move(t, r) /\ Carries(task[t], r) /\ r.pc \in Parting \cup {"find"}
                /\ r.pc = "find" => r.todo = rest /\ Writes(r, task[t])
                /\ r.pc # "find" => rest = {}
<1>1. task[t].who \in Users /\ DOMAIN task[t] = Fields
  BY Here DEF RecordOK
<1>2. CASE rest = {}
  <2>1. C!Enter(t, C!AfterMessage(task[t].op)) /\ C!AfterMessage(task[t].op) \in {"done", "say", "save", "drop"}
    BY <1>2 DEF C!Onward, C!AfterMessage
  <2>2. PICK r : C!Move(t, r) /\ r.pc \in Parting /\ Carries(task[t], r)
    BY <1>1, <2>1, Entering
  <2> QED
    BY <1>2, <2>2 DEF Parting
<1>3. CASE rest # {}
  <2> DEFINE r == [task[t] EXCEPT !.todo = rest, !.cur = Nobody, !.found = C!NoRow, !.crossed = FALSE, !.pc = "find"]
  <2>1. C!Move(t, r)
    BY <1>3 DEF C!Onward
  <2>2. r.pc = "find" /\ r.todo = rest /\ Writes(r, task[t]) /\ r.who = task[t].who /\ r.since = task[t].since
    BY <1>1 DEF Fields, C!Idle, Writes
  <2>3. Carries(task[t], r)
    BY <1>1, <2>2 DEF Carries
  <2> QED
    BY <2>1, <2>2, <2>3
<1> QED
  BY <1>2, <1>3

(* Which of them go on with less is what a step tells of it.               *)
LEMMA OnwardRecord ==
  ASSUME NEW q, NEW r, q.pc \in {"find", "put"}, NEW me, me \in q.todo, r.pc \in Parting \cup {"find"},
         r.pc = "find" => r.todo = q.todo \ {me} /\ Writes(r, q), r.pc # "find" => q.todo \ {me} = {}
  PROVE  /\ \A u : (Counts(r, u) <=> Counts(q, u) /\ u # me) /\ (Counts(r, u) => r.msg = q.msg) /\ Counts(q, me)
         /\ \A u : Copied(r, u, msgs) => Copied(q, u, msgs) /\ Base(r) = Base(q)
         /\ r.pc \notin {"put", "syncRow", "fetch"}
<1>1. \A u : (Counts(r, u) <=> Counts(q, u) /\ u # me) /\ (Counts(r, u) => r.msg = q.msg) /\ Counts(q, me)
  BY DEF Counts, Parting, Writes
<1>2. \A u : Copied(r, u, msgs) => Copied(q, u, msgs) /\ Base(r) = Base(q)
  BY DEF Copied, Parting, Writes, Base, Writing
<1> QED
  BY <1>1, <1>2 DEF Parting

(* A message finds a row, and may skip it.                                 *)
LEMMA FindReads ==
  ASSUME RowsInv, ReadsInv, NEW t \in Tasks, C!Find(t)
  PROVE  ReadsInv'
<1> DEFINE q == task[t]  me == C!FirstOf(q.todo)  p == row[q.k][me]
<1>1. /\ q.pc = "find" /\ UNCHANGED <<kind, group, conv, row, msgs, clock, created, cleared, strayed>>
      /\ ~(kind = "group" /\ group.state = "none")
  BY DEF C!Find, C!At, C!Models, C!Counters, ReadsInv, OneConversation
<1>2. /\ q.who \in Users /\ clock \in Nat /\ DOMAIN q = Fields /\ q.todo \subseteq Users /\ q.todo # {}
      /\ q.k \in 1 .. created /\ q.k \in C!Convs
  BY <1>1, Here DEF RecordOK, Looping, StoreOK, C!Convs
<1>3. me \in q.todo /\ me \in Users
  BY <1>2, FirstOfTodo
<1> HIDE DEF me
<1>4. Standing => q.k = 1 /\ 1 \in C!Convs /\ row[1][me].deleted \in Nat
  BY <1>2, <1>3, FirstConv
<1>5. MessageOK(t) /\ q.msg \in 1 .. clock /\ p.last # q.msg
  <2>1. MessageOK(t)
    BY DEF ReadsInv, MessagesOK
  <2>2. Counts(q, me)
    BY <1>1, <1>3 DEF Counts
  <2> QED
    BY <1>1, <1>2, <1>3, <2>1, <2>2 DEF MessageOK, Writing
<1>6. \A u : (u \in C!Members => u \in C!Members') /\ Stays(t, u)
  BY <1>1 DEF C!Members, Stays
<1>7. CASE p.live /\ (~C!Visible(p, q.msg) \/ p.last = q.msg)
  <2>1. C!Onward(t, q.todo \ {me})
        /\ blurred' = IF p.left # 0 /\ p.left < q.msg THEN blurred \cup {me} ELSE blurred
    BY <1>7 DEF C!Find, me
  <2>2. PICK r : /\ C!Move(t, r) /\ Carries(q, r) /\ r.pc \in Parting \cup {"find"}
                 /\ r.pc = "find" => r.todo = q.todo \ {me} /\ Writes(r, q)
                 /\ r.pc # "find" => q.todo \ {me} = {}
    BY <1>1, <2>1, OnwardReads
  <2>3. /\ \A u : (Counts(r, u) <=> Counts(q, u) /\ u # me) /\ (Counts(r, u) => r.msg = q.msg) /\ Counts(q, me)
        /\ \A u : Copied(r, u, msgs) => Copied(q, u, msgs) /\ Base(r) = Base(q)
        /\ r.pc \notin {"put", "syncRow", "fetch"}
    BY <1>1, <1>3, <2>2, OnwardRecord
  <2>4. Steps(t, r)
    BY <1>1, <1>2, <2>1, <2>2, MoveSteps DEF Standing
  <2>5. OneConversation'
    BY <1>1, <2>3, <2>4, ConvReads
  <2>6. WritesOn(t, r) /\ Fetches(r) /\ q.pc # "zero"
    BY <1>1, <2>2, <2>3 DEF WritesOn, Fetches, Writing, Parting, Writes
  <2>7. ASSUME Standing, NEW u \in Users \ blurred'
        PROVE  (Counts(r, u) => r.msg = q.msg) /\ Settles(t, r, u)
    <3>1. CASE u = me
      <4>1. p.deleted # 0 /\ p.deleted >= q.msg
        BY <1>5, <1>7, <2>1, <2>7, <3>1 DEF C!Visible
      <4>2. q.msg <= row[1][u].deleted
        BY <1>4, <1>5, <2>7, <3>1, <4>1
      <4> QED
        BY <2>3, <3>1, <4>2 DEF Settles
    <3>2. CASE u # me
      BY <2>3, <3>2 DEF Settles
    <3> QED
      BY <3>1, <3>2
  <2>8. \A u : CopyGoes(q, r, u)
    BY <1>1, <1>6, <2>3 DEF CopyGoes, Unbased
  <2>9. (Standing' => Standing) /\ UNCHANGED <<row, msgs, cleared>>
    BY <1>1 DEF Standing
  <2> QED
    BY <1>6, <2>2, <2>4, <2>5, <2>6, <2>7, <2>8, <2>9, QuietReads
<1>8. CASE ~(p.live /\ (~C!Visible(p, q.msg) \/ p.last = q.msg))
  <2> DEFINE r == [q EXCEPT !.pc = "put", !.cur = me, !.found = p]
  <2>1. C!Move(t, r) /\ blurred' = blurred
    BY <1>8 DEF C!Find, me
  <2>2. /\ r.pc = "put" /\ r.cur = me /\ r.found = p /\ Writes(r, q) /\ r.todo = q.todo
        /\ r.since = q.since /\ r.who = q.who
    BY <1>2 DEF Fields, C!Idle, Writes
  <2> HIDE DEF r
  <2>3. Steps(t, r)
    BY <1>1, <1>2, <2>1, MoveSteps DEF Standing
  <2>4. OneConversation'
    <3>1. Standing /\ r.pc \in {"syncRow", "put"} /\ r.found.live => row[1][r.cur].live
      BY <1>4, <2>2
    <3> QED
      BY <1>1, <2>2, <2>3, <3>1, OneRests DEF ReadsInv
  <2>5. ASSUME Standing PROVE row[1][me].deleted < q.msg
    <3>1. p = row[1][me] /\ p.deleted \in Nat
      BY <1>4, <2>5
    <3>2. CASE p.live
      BY <1>2, <1>5, <1>8, <3>1, <3>2 DEF C!Visible
    <3>3. CASE ~p.live
      <4>1. p = C!NoRow
        BY <1>2, <1>3, <3>3 DEF ReadsInv, OneConversation
      <4> QED
        BY <1>5, <3>1, <4>1 DEF C!NoRow
    <3> QED
      BY <3>2, <3>3
  <2>6. WritesOn(t, r) /\ Fetches(r) /\ q.pc # "zero" /\ Carries(q, r)
    BY <1>1, <1>2, <2>2, <2>5 DEF WritesOn, Fetches, Writing, Writes, Counts, Carries
  <2>7. \A u : (Counts(r, u) => r.msg = q.msg) /\ Settles(t, r, u)
    BY <1>1, <2>2 DEF Counts, Settles, Writes
  <2>8. \A u : CopyGoes(q, r, u)
    <3>1. \A u : Copied(r, u, msgs) => Copied(q, u, msgs) /\ Base(r) = Base(q)
      BY <1>1, <2>2 DEF Copied, Writes, Base, Writing
    <3> QED
      BY <1>1, <1>6, <2>2, <3>1 DEF CopyGoes, Unbased
  <2>9. (Standing' => Standing) /\ UNCHANGED <<row, msgs, cleared>>
    BY <1>1 DEF Standing
  <2> QED
    BY <1>6, <2>3, <2>4, <2>6, <2>7, <2>8, <2>9, QuietReads
<1> QED
  BY <1>7, <1>8

(* A message that is counted for a user is one more that is due, unless    *)
(* the user wrote it or created the group with it.                         *)
LEMMA CountDone ==
  ASSUME RowsInv, MessagesOK, Standing, NEW t \in Tasks, NEW r, Steps(t, r), UNCHANGED msgs, NEW me \in Users \ blurred,
         task[t].pc = "put", me \in task[t].todo, task[t].cur = me, ~task[t].crossed, ~Counts(r, me), CountOK(me),
         row[1][me].deleted \in Nat, row[1][me].unread \in Nat, row'[1][me].deleted = row[1][me].deleted,
         row'[1][me].unread = row[1][me].unread + (IF C!HasRead(task[t], me) THEN 0 ELSE 1)
  PROVE  CountOK(me)'
<1> DEFINE q == task[t]
<1>1. Renewed({}) /\ UNCHANGED kind
  BY SameRenews DEF Steps
<1>2. /\ Counts(q, me) /\ q.pc \in Writing /\ me \in q.shape /\ q.pc # "shape" /\ q.msg \in 1 .. clock /\ clock \in Nat
  BY Here DEF Counts, Writing, RecordOK, MessagesOK, MessageOK
<1>3. PICK m \in msgs : WrittenAs(q, m, blurred)
  BY <1>2 DEF MessagesOK, MessageOK
<1>4. /\ m.at = q.msg /\ m.by = (IF q.op = "send" THEN q.who ELSE Nobody) /\ (q.op = "create" => q.who \in m.seen)
      /\ (me \in m.seen => q.op = "create" /\ me = q.who) /\ me \in m.aud
  BY <1>2, <1>3 DEF WrittenAs
<1>5. CASE C!HasRead(q, me)
  <2>1. ~Unseen(me, q.msg)
    BY <1>4, <1>5 DEF C!HasRead, Unseen, MessagesOK, MessageTimes
  <2>2. CountKept(t, r, {}, me)
    BY <1>2, <1>5, <2>1 DEF CountKept, Settles
  <2> QED
    BY <1>1, <2>2, CountStays
<1>6. CASE ~C!HasRead(q, me)
  <2>1. Unseen(me, q.msg)
    <3>1. me # Nobody
      BY ConversationsAssumption
    <3>2. m.by # me /\ me \notin m.seen
      BY <1>4, <1>6, <3>1 DEF C!HasRead
    <3> QED
      BY <1>4, <3>2 DEF Unseen
  <2>2. q.msg > row[1][me].deleted
    BY <1>2 DEF MessagesOK, MessageOK
  <2>3. q.msg \notin Due(me)
    BY <1>2 DEF Due
  <2>4. \A s \in Tasks \ {t} : /\ Counts(task'[s], me) <=> Counts(task[s], me)
                               /\ task'[s].msg = task[s].msg
                               /\ Counts(task[s], me) => task[s].msg # q.msg
    <3>1. \A s \in Tasks \ {t} : (Counts(task'[s], me) <=> Counts(task[s], me)) /\ task'[s].msg = task[s].msg
      BY DEF Steps, Kin, Counts
    <3>2. \A s \in Tasks \ {t} : Counts(task[s], me) => task[s].pc \in Writing
      BY DEF Counts, Writing
    <3>3. \A s \in Tasks \ {t} : task[s].pc \in Writing => task[s].msg # q.msg
      BY <1>2 DEF MessagesOK, MessageOK
    <3> QED
      BY <3>1, <3>2, <3>3
  <2>5. ~Counts(task'[t], me)
    BY DEF Steps
  <2>6. \A n : Unseen(me, n)' <=> Unseen(me, n)
    BY DEF Unseen
  <2>7. \A n \in Nat : n \in Due(me)' <=> /\ Unseen(me, n)' /\ n > row'[1][me].deleted
                                         /\ \A s \in Tasks : Counts(task'[s], me) => task'[s].msg # n
    BY DEF Due, Counts
  <2>8. \A n \in Nat : n \in Due(me) <=> /\ Unseen(me, n) /\ n > row[1][me].deleted
                                        /\ \A s \in Tasks : Counts(task[s], me) => task[s].msg # n
    BY DEF Due
  <2>9. ASSUME NEW n \in Nat PROVE n \in Due(me)' <=> n \in Due(me) \/ n = q.msg
    <3>1. CASE n = q.msg
      BY <2>1, <2>2, <2>4, <2>5, <2>6, <2>7, <3>1
    <3>2. CASE n # q.msg
      <4>1. (\A s \in Tasks : Counts(task'[s], me) => task'[s].msg # n)
              <=> (\A s \in Tasks : Counts(task[s], me) => task[s].msg # n)
        BY <2>4, <2>5, <3>2
      <4> QED
        BY <2>6, <2>7, <2>8, <3>2, <4>1
    <3> QED
      BY <3>1, <3>2
  <2>10. Due(me)' = Due(me) \cup {q.msg}
    <3>1. Due(me) \subseteq Nat /\ Due(me)' \subseteq Nat /\ q.msg \in Nat
      BY <1>2 DEF Due
    <3> QED
      BY <2>9, <3>1
  <2>11. IsFiniteSet(Due(me))
    BY DueFinite
  <2>12. Cardinality(Due(me) \cup {q.msg}) = Cardinality(Due(me)) + 1
    BY <2>3, <2>11, FS_AddElement
  <2>13. CASE Reading(me)
    <3>1. PICK s \in Tasks : task[s].pc = "zero" /\ task[s].who = me
      BY <2>13 DEF Reading
    <3>2. s # t /\ Kin(task'[s], task[s])
      BY <3>1 DEF Steps
    <3> QED
      BY <3>1, <3>2 DEF CountOK, Reading, Kin
  <2>14. CASE row[1][me].unread = Cardinality(Due(me))
    BY <1>6, <2>10, <2>12, <2>14 DEF CountOK
  <2> QED
    BY <2>13, <2>14 DEF CountOK
<1> QED
  BY <1>5, <1>6

(* The row as a message leaves it.                                         *)
LEMMA CountedRow ==
  ASSUME NEW T, NEW old \in RowsOver(T), old.live \/ old = C!NoRow, NEW role \in C!Roles, NEW at \in T, NEW one \in {0, 1},
         0 \in T, NEW new, new = IF old.live THEN Counted(old, at, one) ELSE Begun(role, at, one)
  PROVE  /\ new \in RowsOver(T) /\ new.live /\ new.last = at /\ new.deleted = old.deleted
         /\ new.unread = old.unread + one
         /\ old.live => new.joined = old.joined /\ new.role = old.role /\ new.left = old.left
         /\ ~old.live => new.joined = at /\ new.role = role /\ new.left = 0
<1> DEFINE up == Counted(old, at, one)  fresh == Begun(role, at, one)
<1>1. old.unread \in Nat /\ one \in Nat /\ old.unread + one \in Nat
  BY DEF RowsOver
<1>2. /\ up \in RowsOver(T) /\ up.live = old.live /\ up.last = at /\ up.deleted = old.deleted
      /\ up.unread = old.unread + one /\ up.joined = old.joined /\ up.role = old.role /\ up.left = old.left
  BY <1>1 DEF RowsOver, Counted
<1>3. /\ fresh \in RowsOver(T) /\ fresh.live /\ fresh.last = at /\ fresh.deleted = 0
      /\ fresh.unread = one /\ fresh.joined = at /\ fresh.role = role /\ fresh.left = 0
  BY <1>1 DEF C!NoRow, RowsOver, C!Roles, Begun
<1>4. ~old.live => old.deleted = 0 /\ old.unread + one = one
  <2>1. ~old.live => old.deleted = 0 /\ old.unread = 0
    BY DEF C!NoRow
  <2> QED
    BY <1>1, <2>1
<1> HIDE DEF up, fresh
<1>5. new = IF old.live THEN up ELSE fresh
  BY DEF up, fresh
<1> QED
  BY <1>2, <1>3, <1>4, <1>5

(* A message is counted in a row, or begins it.                            *)
LEMMA PutReads ==
  ASSUME RowsInv, ReadsInv, NEW t \in Tasks, C!Put(t)
  PROVE  ReadsInv'
<1> DEFINE q == task[t]  me == q.cur  old == row[q.k][me]  one == IF C!HasRead(q, me) THEN 0 ELSE 1
           role == C!RoleIn(q.boss, me)
           new == IF old.live THEN Counted(old, q.msg, one) ELSE Begun(role, q.msg, one)
<1>1. /\ q.pc = "put" /\ UNCHANGED <<kind, group, conv, msgs, clock, created, cleared, strayed>>
      /\ ~(kind = "group" /\ group.state = "none")
  BY DEF C!Put, C!At, C!Counters, ReadsInv, OneConversation
<1>2. /\ q.who \in Users /\ clock \in Nat /\ DOMAIN q = Fields /\ q.todo \subseteq Users /\ q.todo \subseteq q.shape
      /\ q.k \in 1 .. created /\ q.k \in C!Convs /\ me \in q.todo /\ me \in Users
      /\ row \in [C!Convs -> [Users -> RowKind]]
  BY <1>1, Here DEF RecordOK, Looping, StoreOK, C!Convs
<1>3. Standing => q.k = 1 /\ 1 \in C!Convs
  BY <1>2, FirstConv
<1>4. 1 \in C!Convs
  BY ConversationsAssumption DEF C!Convs
<1>5. q.msg \in 1 .. clock /\ q.pc \in Writing
  BY <1>1 DEF ReadsInv, MessagesOK, MessageOK, Writing
<1>6. old \in RowKind /\ (old.live \/ old = C!NoRow) /\ role \in C!Roles \ {"none"}
  BY <1>2 DEF ReadsInv, OneConversation, C!RoleIn, C!Roles
<1>7. \A u : (u \in C!Members => u \in C!Members') /\ Stays(t, u)
  BY <1>1 DEF C!Members, Stays
(* The row that another request made breaks the write off. *)
<1>8. CASE ~q.found.live /\ old.live
  <2>1. C!Enter(t, C!AfterMessage(q.op)) /\ UNCHANGED row /\ blurred' = blurred \cup q.todo
        /\ C!AfterMessage(q.op) \in {"done", "say", "save", "drop"}
    BY <1>8 DEF C!Put, C!AfterMessage
  <2>2. PICK r : C!Move(t, r) /\ r.pc \in Parting /\ Carries(q, r)
    BY <1>1, <1>2, <2>1, Entering
  <2>3. Steps(t, r)
    BY <1>1, <1>2, <2>1, <2>2, MoveSteps DEF Standing
  <2>4. OneConversation'
    BY <1>1, <2>1, <2>2, <2>3, ConvReads DEF Parting
  <2>5. WritesOn(t, r) /\ Fetches(r) /\ q.pc # "zero"
    BY <1>1, <2>2 DEF WritesOn, Fetches, Writing, Parting
  <2>6. \A u \in Users \ blurred' : (Counts(r, u) => r.msg = q.msg) /\ Settles(t, r, u)
    BY <1>1, <2>1, <2>2 DEF Counts, Settles, Parting
  <2>7. \A u : CopyGoes(q, r, u)
    BY <2>2 DEF CopyGoes, Copied, Parting
  <2> QED
    BY <1>1, <1>7, <2>1, <2>2, <2>3, <2>4, <2>5, <2>6, <2>7, QuietReads
<1>9. CASE ~(~q.found.live /\ old.live)
  <2>1. /\ C!Onward(t, q.todo \ {me}) /\ blurred' = IF q.crossed THEN blurred \cup {me} ELSE blurred
        /\ row' = IF q.found.live /\ ~old.live THEN row ELSE [row EXCEPT ![q.k][me] = new]
    <3>1. C!Onward(t, q.todo \ {me}) /\ blurred' = IF q.crossed THEN blurred \cup {me} ELSE blurred
      BY <1>9 DEF C!Put
    <3>2. CASE q.found.live /\ ~old.live
      BY <1>9, <3>2 DEF C!Put
    <3>3. CASE q.found.live /\ old.live
      <4>1. row' = [row EXCEPT ![q.k][me] = Counted(old, q.msg, one)]
        BY <1>9, <3>3 DEF C!Put, Counted
      <4> QED
        BY <3>1, <3>3, <4>1
    <3>4. CASE ~q.found.live /\ ~old.live
      <4>1. row' = [row EXCEPT ![q.k][me] = Begun(role, q.msg, one)]
        BY <1>9, <3>4 DEF C!Put, Begun
      <4> QED
        BY <3>1, <3>4, <4>1
    <3> QED
      BY <1>9, <3>1, <3>2, <3>3, <3>4
  <2>2. PICK r : /\ C!Move(t, r) /\ Carries(q, r) /\ r.pc \in Parting \cup {"find"}
                 /\ r.pc = "find" => r.todo = q.todo \ {me} /\ Writes(r, q)
                 /\ r.pc # "find" => q.todo \ {me} = {}
    BY <1>1, <2>1, OnwardReads
  <2>3. /\ \A u : (Counts(r, u) <=> Counts(q, u) /\ u # me) /\ (Counts(r, u) => r.msg = q.msg) /\ Counts(q, me)
        /\ \A u : Copied(r, u, msgs) => Copied(q, u, msgs) /\ Base(r) = Base(q)
        /\ r.pc \notin {"put", "syncRow", "fetch"}
    <3> HIDE DEF q, me
    <3> QED
      BY <1>1, <1>2, <2>2, OnwardRecord
  <2>4. Steps(t, r)
    BY <1>1, <1>2, <2>1, <2>2, MoveSteps DEF Standing
  <2>5. /\ new \in RowsOver(C!Times) /\ new.live /\ new.last = q.msg /\ new.deleted = old.deleted
        /\ new.unread = old.unread + one
        /\ old.live => new.joined = old.joined /\ new.role = old.role /\ new.left = old.left
        /\ ~old.live => new.joined = q.msg /\ new.role = role /\ new.left = 0
    <3>1. old \in RowsOver(C!Times) /\ 0 \in C!Times /\ q.msg \in C!Times /\ one \in {0, 1}
      BY <1>2, <1>5, <1>6 DEF RowKind, RowsOver, C!Times
    <3> HIDE DEF old, one, role
    <3> QED
      BY <1>6, <3>1, CountedRow
  <2>6. new \in RowKind
    BY <2>5 DEF RowKind, RowsOver
  <2> HIDE DEF new
  <2>7. \A k \in C!Convs, u \in Users :
           \/ row'[k][u] = row[k][u] /\ (k = q.k /\ u = me => q.found.live /\ ~old.live)
           \/ k = q.k /\ u = me /\ row'[k][u] = new /\ (q.found.live <=> old.live)
    <3>1. CASE q.found.live /\ ~old.live
      BY <2>1, <3>1
    <3>2. CASE ~(q.found.live /\ ~old.live)
      <4>1. row' = [row EXCEPT ![q.k][me] = new]
        BY <2>1, <3>2
      <4>2. \A k \in C!Convs, u \in Users : row'[k][u] = IF k = q.k /\ u = me THEN new ELSE row[k][u]
        BY <1>2, <2>6, <4>1, RowWritten
      <4> QED
        BY <1>9, <3>2, <4>2
    <3> QED
      BY <3>1, <3>2
  <2>8. \A k \in C!Convs, u \in Users :
          /\ row'[k][u].deleted = row[k][u].deleted /\ (row'[k][u] = row[k][u] \/ row'[k][u].live)
          /\ row'[k][u].last = row[k][u].last \/ (u = me /\ row'[k][u].last = q.msg)
          /\ (u # me \/ k # q.k => row'[k][u] = row[k][u])
    BY <2>5, <2>7
  <2>9. Standing => (q.found.live => old.live)
    BY <1>1, <1>3 DEF ReadsInv, OneConversation
  <2>10. OneConversation'
    <3>1. Standing => \A k \in C!Convs \ {1}, u \in Users : row'[k][u] = row[k][u]
      BY <1>3, <2>8
    <3> QED
      BY <1>1, <2>3, <2>4, <2>8, <3>1, OneWrites
  <2>11. ClearedOK'
    <3>1. \A u \in Users : row'[1][u].deleted = row[1][u].deleted
      BY <1>4, <2>8
    <3> QED
      BY <1>1, <2>2, <2>3, <2>4, <3>1, ClearedRests DEF ReadsInv
  <2>12. LastKept(t, r)
    BY <1>5, <2>3, <2>8 DEF LastKept
  <2>13. Renewed({}) /\ Crossing(t) /\ Unmarked(t, {}) /\ WritesOn(t, r)
    <3>1. Renewed({}) /\ Crossing(t) /\ Unmarked(t, {})
      BY <1>1, <1>4, <2>8, SameRenews DEF ReadsInv, Crossing, Unmarked
    <3>2. WritesOn(t, r)
      BY <1>1, <1>5, <2>2, <2>3 DEF WritesOn, Writing, Parting, Writes
    <3> QED
      BY <3>1, <3>2
  <2>14. ASSUME Standing', NEW u \in Users \ blurred'
         PROVE  CountKept(t, r, {}, u) \/ CountOK(u)'
    <3>1. Standing /\ u \notin blurred /\ q.k = 1 /\ (q.found.live <=> old.live)
      BY <1>3, <1>9, <2>4, <2>9, <2>14 DEF Steps
    <3>2. CASE u = me
      <4>1. ~q.crossed
        BY <2>1, <2>14, <3>2
      <4>2. row'[1][u] = new /\ row[1][u] = old
        BY <1>3, <2>7, <3>1, <3>2
      <4>3. /\ row[1][u].deleted \in Nat /\ row[1][u].unread \in Nat /\ row'[1][u].deleted = row[1][u].deleted
            /\ row'[1][u].unread = row[1][u].unread + (IF C!HasRead(q, me) THEN 0 ELSE 1)
        BY <2>5, <2>14, <3>1, <4>2, FirstConv
      <4>4. CountOK(u) /\ MessagesOK /\ ~Counts(r, u)
        BY <2>3, <2>14, <3>1, <3>2 DEF ReadsInv, UnreadOK, CountOK
      <4>5. u \in Users \ blurred
        BY <2>14, <3>1
      <4> QED
        BY <1>1, <1>2, <2>4, <3>1, <3>2, <4>1, <4>3, <4>4, <4>5, CountDone
    <3>3. CASE u # me
      <4>1. row'[1][u] = row[1][u]
        BY <1>4, <2>8, <2>14, <3>3
      <4>2. (Counts(r, u) => r.msg = q.msg) /\ (Counts(r, u) <=> Counts(q, u))
        BY <2>3, <3>3
      <4> QED
        BY <1>1, <4>1, <4>2 DEF CountKept, Settles
    <3> QED
      BY <3>2, <3>3
  <2>15. ASSUME Standing', kind = "group"
         PROVE  Roled(row') /\ \A u \in Users \ strayed' : CopyGoes(q, r, u) /\ RowJoins(u) /\ Stays(t, u)
    <3>1. Standing /\ q.k = 1 /\ (q.found.live <=> old.live)
      BY <1>3, <1>9, <2>4, <2>9, <2>15 DEF Steps
    <3>2. Roled(row)
      BY <2>15, <3>1 DEF Roled, ReadsInv, PagesOK
    <3>3. row'[1][me] = new /\ row[1][me] = old /\ \A u \in Users \ {me} : row'[1][u] = row[1][u]
      BY <1>2, <1>4, <2>7, <3>1
    <3>4. (new.left = 0 <=> new.role # "none") /\ new.joined # 0
      BY <1>2, <1>5, <1>6, <2>5, <3>2, <3>3 DEF Roled
    <3>5. Roled(row')
      BY <3>2, <3>3, <3>4 DEF Roled
    <3>6. ASSUME NEW u \in Users \ strayed PROVE CopyGoes(q, r, u)
      BY <1>1, <1>7, <2>3 DEF CopyGoes, Unbased
    <3>7. ASSUME NEW u \in Users \ strayed PROVE RowJoins(u)
      <4>1. CASE u # me \/ old.live
        BY <2>5, <3>3, <4>1 DEF RowJoins
      <4>2. CASE u = me /\ ~old.live
        <5>1. CopyOK(q, u, msgs, C!Members, row)
          BY <2>15, <3>1, <3>7 DEF ReadsInv, PagesOK, JoinedOK
        <5>2. Copied(q, u, msgs) /\ Base(q) = q.msg /\ q.pc \notin Unbased
          BY <1>1, <1>2, <4>2 DEF Copied, Base, Writing, Unbased
        <5>3. AllSince(u, q.msg, msgs)
          BY <5>1, <5>2 DEF CopyOK
        <5> QED
          BY <1>1, <2>5, <3>3, <4>2, <5>3 DEF RowJoins
      <4> QED
        BY <4>1, <4>2
    <3> QED
      BY <1>1, <1>7, <3>5, <3>6, <3>7
  <2> QED
    BY <2>3, <2>4, <2>10, <2>11, <2>12, <2>13, <2>14, <2>15, ReadsGo
<1> QED
  BY <1>8, <1>9

(* A new message, which its request has still to count for everybody.      *)
LEMMA SaveReads ==
  ASSUME RowsInv, ReadsInv, NEW t \in Tasks, C!Save(t)
  PROVE  ReadsInv'
<1> DEFINE q == task[t]  r == [q EXCEPT !.pc = "shape", !.msg = clock + 1]
           new == [at |-> clock + 1, by |-> IF q.op = "send" THEN q.who ELSE Nobody, aud |-> C!Members,
                   may |-> C!Members \cup C!Active, seen |-> IF q.op = "create" THEN {q.who} ELSE {}]
<1>1. /\ q.pc = "say" /\ UNCHANGED <<kind, group, conv, row, created, cleared, blurred, strayed>>
      /\ ~(kind = "group" /\ group.state = "none") /\ clock' = clock + 1
      /\ C!Move(t, r) /\ msgs' = msgs \cup {new}
  BY DEF C!Save, C!At, C!Models, C!Ghosts, ReadsInv, OneConversation
<1>2. /\ q.who \in Users /\ clock \in Nat /\ DOMAIN q = Fields
      /\ row \in [C!Convs -> [Users -> RowKind]]
  BY <1>1, Here DEF RecordOK, StoreOK
<1>3. /\ r.pc = "shape" /\ r.msg = clock + 1 /\ r.op = q.op /\ r.who = q.who /\ r.since = q.since
  BY <1>2 DEF Fields, C!Idle
<1>4. /\ new.at = clock + 1 /\ new.by = (IF q.op = "send" THEN q.who ELSE Nobody) /\ new.aud = C!Members
      /\ new.may = C!Members \cup C!Active /\ new.seen = (IF q.op = "create" THEN {q.who} ELSE {})
      /\ DOMAIN new = Parts
  BY DEF Parts
<1> HIDE DEF r, new
<1>5. Steps(t, r)
  BY <1>1, <1>2, MoveSteps DEF Standing
<1>6. task'[t] = r /\ \A s \in Tasks \ {t} : task'[s] = task[s]
  BY <1>1, Here DEF C!Move
<1>7. \A m \in msgs : m.at \in 1 .. clock /\ DOMAIN m = Parts
  BY DEF ReadsInv, MessagesOK, MessageTimes
<1>8. C!Members' = C!Members
  BY <1>1 DEF C!Members
<1>9. OneConversation'
  BY <1>1, <1>3, <1>5, OneRests DEF ReadsInv
<1>10. ClearedOK'
  <2>1. Carries(q, r)
    BY <1>1, <1>2, <1>3 DEF Carries
  <2> QED
    BY <1>1, <1>3, <1>5, <2>1, ClearedRests DEF ReadsInv
<1>11. MessageTimes'
  <2>1. \A m \in msgs' : m.at \in 1 .. clock' /\ DOMAIN m = Parts
    BY <1>1, <1>2, <1>4, <1>7
  <2>2. ASSUME NEW m \in msgs', NEW n \in msgs', m.at = n.at PROVE m = n
    <3>1. m \in msgs /\ n \in msgs => m = n
      BY <2>2 DEF ReadsInv, MessagesOK, MessageTimes
    <3>2. m \in msgs => m.at # clock + 1
      BY <1>2, <1>7
    <3>3. n \in msgs => n.at # clock + 1
      BY <1>2, <1>7
    <3> QED
      BY <1>1, <1>4, <2>2, <3>1, <3>2, <3>3
  <2> QED
    BY <2>1, <2>2 DEF MessageTimes
(* The messages that were being written out before are other ones. *)
<1>12. \A s \in Tasks : task[s].pc \in Writing => task[s].msg \in 1 .. clock /\ task[s].msg # clock + 1
  BY <1>2 DEF ReadsInv, MessagesOK, MessageOK
<1>13. MessageOK(t)'
  <2>1. r.msg \in 1 .. clock'
    BY <1>1, <1>2, <1>3
  <2>2. \A k \in C!Convs, u \in Users : row'[k][u].last # r.msg
    <3>1. \A k \in C!Convs, u \in Users : row[k][u].last \in 0 .. clock
      BY <1>2 DEF RowKind, C!Times
    <3> QED
      BY <1>1, <1>2, <1>3, <3>1
  <2>3. \A s \in Tasks \ {t} : task'[s].pc \in Writing => task'[s].msg # r.msg
    BY <1>3, <1>6, <1>12
  <2>4. WrittenAs(r, new, blurred') /\ new \in msgs'
    BY <1>1, <1>3, <1>4 DEF WrittenAs
  <2> QED
    BY <1>3, <1>6, <2>1, <2>2, <2>3, <2>4 DEF MessageOK
<1>14. ASSUME NEW s \in Tasks, s # t PROVE MessageOK(s)'
  <2> SUFFICES ASSUME task[s].pc \in Writing PROVE MessageOK(s)'
    BY <1>6, <1>14 DEF MessageOK
  <2>1. MessageOK(s) /\ task'[s] = task[s]
    BY <1>6, <1>14 DEF ReadsInv, MessagesOK
  <2>2. task[s].msg \in 1 .. clock'
    BY <1>1, <1>2, <1>12
  <2>3. \A v \in Tasks \ {s} : task'[v].pc \in Writing => task'[v].msg # task[s].msg
    BY <1>3, <1>6, <1>12, <2>1 DEF MessageOK
  <2>4. Standing' => \E m \in msgs' : WrittenAs(task[s], m, blurred')
    BY <1>1, <2>1 DEF MessageOK, Standing
  <2>5. /\ \A k \in C!Convs, u \in Users : Counts(task[s], u) => row'[k][u].last # task[s].msg
        /\ Standing' /\ task[s].pc = "put" /\ ~task[s].crossed => row'[1][task[s].cur].deleted < task[s].msg
    BY <1>1, <2>1 DEF MessageOK, Standing
  <2> QED
    BY <2>1, <2>2, <2>3, <2>4, <2>5 DEF MessageOK
<1>15. MessagesOK'
  BY <1>11, <1>13, <1>14 DEF MessagesOK
<1>16. UnreadOK'
  <2> SUFFICES ASSUME Standing', NEW u \in Users \ blurred' PROVE CountOK(u)'
    BY DEF UnreadOK, CountOK
  <2>1. CountOK(u)
    BY <1>1 DEF ReadsInv, UnreadOK, CountOK, Standing
  <2>2. Reading(u)' <=> Reading(u)
    BY <1>1, <1>3, <1>6 DEF Reading
  <2>3. ASSUME NEW n \in Nat PROVE n \in Due(u)' <=> n \in Due(u)
    <3>1. Unseen(u, n)' <=> Unseen(u, n) \/ (n = clock + 1 /\ u \in new.aud /\ u \notin new.seen /\ new.by # u)
      BY <1>1, <1>4 DEF Unseen
    <3>2. Unseen(u, n) => n # clock + 1
      BY <1>2, <1>7 DEF Unseen
    <3>3. (\A s \in Tasks : Counts(task'[s], u) => task'[s].msg # n)
            <=> (\A s \in Tasks : Counts(task[s], u) => task[s].msg # n) /\ n # clock + 1
      <4>1. Counts(r, u) /\ ~Counts(q, u)
        BY <1>1, <1>3 DEF Counts
      <4> QED
        BY <1>3, <1>6, <4>1
    <3>4. n \in Due(u)' <=> /\ Unseen(u, n)' /\ n > row'[1][u].deleted
                            /\ \A s \in Tasks : Counts(task'[s], u) => task'[s].msg # n
      BY DEF Due, Counts
    <3>5. n \in Due(u) <=> /\ Unseen(u, n) /\ n > row[1][u].deleted
                           /\ \A s \in Tasks : Counts(task[s], u) => task[s].msg # n
      BY DEF Due
    <3> QED
      BY <1>1, <3>1, <3>2, <3>3, <3>4, <3>5
  <2>4. Due(u)' = Due(u)
    BY <2>3 DEF Due
  <2> QED
    BY <1>1, <2>1, <2>2, <2>4 DEF CountOK
<1>17. PagesOK'
  <2> SUFFICES ASSUME Standing', kind = "group"
               PROVE  /\ Roled(row')
                      /\ \A s \in Tasks : task'[s].pc = "fetch" /\ task'[s].found.role # "none" => task'[s].found.joined \in Nat \ {0}
                      /\ \A u \in Users \ strayed' : JoinedOK(u)'
    BY <1>1 DEF PagesOK, Roled
  <2>1. Standing
    BY <1>5 DEF Steps
  <2>2. Roled(row') /\ \A s \in Tasks : task'[s].pc = "fetch" /\ task'[s].found.role # "none" => task'[s].found.joined \in Nat \ {0}
    BY <1>1, <1>3, <1>6, <2>1 DEF ReadsInv, PagesOK, Roled
  <2>3. ASSUME NEW u \in Users \ strayed' PROVE JoinedOK(u)'
    <3>1. JoinedOK(u) /\ u \in Users
      BY <1>1, <2>1, <2>3 DEF ReadsInv, PagesOK
    <3>2. \A n : AllSince(u, n, msgs) /\ u \in C!Members \cup C!Active => AllSince(u, n, msgs')
      BY <1>1, <1>4 DEF AllSince
    <3>3. row'[1][u].role # "none" => AllSince(u, row'[1][u].joined, msgs')
      <4> SUFFICES ASSUME row[1][u].role # "none" PROVE AllSince(u, row[1][u].joined, msgs')
        BY <1>1
      <4>1. row[1][u].live /\ 1 \in C!Convs
        <5>1. 1 \in C!Convs
          BY <2>1, FirstConv
        <5> QED
          BY <3>1, <5>1 DEF ReadsInv, OneConversation, C!NoRow
      <4>2. row[1][u].left = 0
        BY <2>1, <3>1, <4>1 DEF ReadsInv, PagesOK
      <4>3. u \in C!Active
        BY <3>1, <4>1, <4>2 DEF C!Active, C!Listed
      <4> QED
        BY <3>1, <3>2, <4>3 DEF JoinedOK
    <3>4. CopyOK(r, u, msgs', C!Members, row')
      <4>1. Copied(r, u, msgs') => u \in C!Members
        <5>1. \A m \in msgs' : m.at = clock + 1 => m = new
          BY <1>1, <1>2, <1>7
        <5> QED
          BY <1>3, <1>4, <5>1 DEF Copied
      <4>2. u \in C!Members => AllSince(u, Base(r), msgs')
        BY <1>1, <1>2, <1>3, <1>4, <1>7 DEF AllSince, Base, Writing
      <4> QED
        BY <1>3, <4>1, <4>2 DEF CopyOK
    <3>5. ASSUME NEW s \in Tasks, s # t PROVE CopyOK(task[s], u, msgs', C!Members, row')
      <4>1. CopyOK(task[s], u, msgs, C!Members, row) /\ RecordOK(task[s], clock, created)
        BY <3>1, Here DEF JoinedOK
      <4>2. Copied(task[s], u, msgs') => Copied(task[s], u, msgs)
        <5>1. task[s].pc = "shape" => task[s].msg # clock + 1
          BY <1>12 DEF Writing
        <5> QED
          BY <1>1, <1>4, <5>1 DEF Copied
      <4>3. Copied(task[s], u, msgs') => u \in C!Members /\ (task[s].pc \notin Unbased => AllSince(u, Base(task[s]), msgs'))
        BY <3>2, <4>1, <4>2 DEF CopyOK
      <4>4. task[s].pc = "syncRow" /\ task[s].cur = u /\ task[s].found.live /\ task[s].found.left = 0 =>
              AllSince(u, row'[1][u].joined, msgs')
        <5> SUFFICES ASSUME task[s].pc = "syncRow", task[s].cur = u, task[s].found.live, task[s].found.left = 0
                     PROVE  AllSince(u, row[1][u].joined, msgs')
          BY <1>1
        <5>1. Copied(task[s], u, msgs)
          BY <4>1 DEF Copied, RecordOK
        <5> QED
          BY <3>2, <4>1, <5>1 DEF CopyOK
      <4>5. task[s].pc = "fetch" /\ task[s].who = u /\ task[s].found.role # "none" => Paged(task[s], u, msgs')
        <5> SUFFICES ASSUME Paged(task[s], u, msgs) PROVE Paged(task[s], u, msgs')
          BY <4>1 DEF CopyOK
        <5>1. task[s].now \in 0 .. clock
          BY <4>1 DEF RecordOK
        <5>2. ~(new.at <= task[s].now)
          BY <1>2, <1>4, <5>1
        <5> QED
          BY <1>1, <5>2 DEF Paged
      <4> QED
        BY <4>3, <4>4, <4>5 DEF CopyOK
    <3>6. \A s \in Tasks : CopyOK(task'[s], u, msgs', C!Members', row')
      BY <1>6, <1>8, <3>4, <3>5
    <3> QED
      BY <3>3, <3>6 DEF JoinedOK
  <2> QED
    BY <2>2, <2>3
<1> QED
  BY <1>9, <1>10, <1>15, <1>16, <1>17 DEF ReadsInv

(* The participants of a message are read again before it is written out.  *)
LEMMA ShapeReads ==
  ASSUME RowsInv, ReadsInv, NEW t \in Tasks, C!Shape(t)
  PROVE  ReadsInv'
<1> DEFINE q == task[t]  aud == UNION {m.aud : m \in {n \in msgs : n.at = q.msg}}
           shape == IF kind = "group" THEN C!MemberSet(group) ELSE Pair
<1>1. /\ q.pc = "shape" /\ UNCHANGED <<kind, group, conv, row, clock, created, cleared>>
      /\ ~(kind = "group" /\ group.state = "none")
      /\ blurred' = blurred \cup (aud \ shape) \cup (shape \ aud) /\ strayed' = strayed \cup (shape \ aud)
      /\ msgs' = {IF m.at = q.msg THEN [m EXCEPT !.may = @ \cup shape] ELSE m : m \in msgs}
  BY DEF C!Shape, C!At, C!Models, C!Counters, ReadsInv, OneConversation
<1>2. q.who \in Users /\ clock \in Nat /\ DOMAIN q = Fields /\ kind \in {"direct", "group"}
      /\ group.state \in {"none", "live", "deleted"}
  BY <1>1, Here DEF RecordOK, IsGroup
<1>3. PICK r : /\ C!Move(t, r) /\ Carries(q, r)
               /\ \/ r.pc \in Parting /\ ~Standing
                  \/ r.pc = "upsert" /\ r.shape = shape /\ r.msg = q.msg /\ r.op = q.op /\ r.who = q.who
  <2>1. CASE kind = "group" /\ group.state # "live"
    <3>1. C!Enter(t, C!AfterMessage(q.op)) /\ C!AfterMessage(q.op) \in {"done", "say", "save", "drop"}
      BY <2>1 DEF C!Shape, C!AfterMessage
    <3>2. ~Standing
      BY <1>1, <1>2, <2>1 DEF Standing
    <3> QED
      BY <1>1, <1>2, <3>1, <3>2, Entering
  <2>2. CASE ~(kind = "group" /\ group.state # "live")
    <3> DEFINE r == [q EXCEPT !.pc = "upsert", !.shape = shape, !.boss = IF kind = "group" THEN group.admin ELSE Nobody]
    <3>1. C!Move(t, r)
      BY <2>2 DEF C!Shape
    <3> HIDE DEF shape
    <3>2. /\ r.pc = "upsert" /\ r.msg = q.msg /\ r.op = q.op /\ r.who = q.who /\ r.since = q.since /\ r.shape = shape
      BY <1>2 DEF Fields, C!Idle
    <3> HIDE DEF r
    <3>3. Carries(q, r)
      BY <1>1, <1>2, <3>2 DEF Carries
    <3> QED
      BY <3>1, <3>2, <3>3
  <2> QED
    BY <2>1, <2>2
<1>4. \A u : u \in aud <=> \E m \in msgs : m.at = q.msg /\ u \in m.aud
  OBVIOUS
<1> HIDE DEF shape, aud
<1>5. Steps(t, r)
  BY <1>1, <1>2, <1>3, MoveSteps DEF Standing
<1>6. MessageTimes
  BY DEF ReadsInv, MessagesOK
<1>7. Renewed({})
  <2> DEFINE After(m) == IF m.at = q.msg THEN [m EXCEPT !.may = @ \cup shape] ELSE m
  <2>1. \A m \in msgs : Newer(m, After(m), {})
    BY <1>6 DEF MessageTimes, Newer, Parts
  <2> HIDE DEF After
  <2>2. msgs' = {After(m) : m \in msgs}
    BY <1>1 DEF After
  <2>3. ASSUME NEW m \in msgs', NEW n \in msgs', m.at = n.at PROVE m = n
    <3>1. PICK k \in msgs : m = After(k)
      BY <2>2
    <3>2. PICK j \in msgs : n = After(j)
      BY <2>2
    <3>3. k.at = j.at
      BY <2>1, <2>3, <3>1, <3>2 DEF Newer
    <3> QED
      BY <1>6, <3>1, <3>2, <3>3 DEF MessageTimes
  <2> QED
    BY <2>1, <2>2, <2>3 DEF Renewed
<1>8. OneConversation'
  BY <1>1, <1>3, <1>5, OneRests DEF ReadsInv, Parting
<1>9. ClearedOK'
  BY <1>1, <1>3, <1>5, ClearedRests DEF ReadsInv, Parting
<1>10. LastKept(t, r) /\ Crossing(t) /\ Unmarked(t, {}) /\ r.pc # "fetch"
  BY <1>1, <1>3 DEF LastKept, Crossing, Unmarked, Parting
<1>11. WritesOn(t, r)
  <2> SUFFICES ASSUME r.pc = "upsert" PROVE WritesOn(t, r)
    BY <1>3 DEF WritesOn, Parting, Writing
  <2>1. /\ q.pc \in Writing /\ r.msg = q.msg /\ r.op = q.op /\ r.who = q.who /\ \A u : Counts(q, u)
    BY <1>1, <1>3 DEF Writing, Parting, Counts
  <2>2. ASSUME NEW u \in Users \ blurred', NEW n \in msgs, n.at = q.msg
        PROVE  u \in n.aud <=> u \in r.shape
    <3>1. u \in aud <=> u \in n.aud
      BY <1>4, <1>6, <2>2 DEF MessageTimes
    <3>2. u \in aud <=> u \in shape
      BY <1>1, <2>2
    <3> QED
      BY <1>3, <3>1, <3>2 DEF Parting
  <2> QED
    BY <1>1, <2>1, <2>2 DEF WritesOn
<1>12. Standing' => \A u \in Users \ blurred' : CountKept(t, r, {}, u)
  BY <1>1, <1>3 DEF CountKept, Settles, Counts, Standing
<1>13. ASSUME Standing', kind = "group"
       PROVE  Roled(row') /\ \A u \in Users \ strayed' : CopyGoes(q, r, u) /\ RowJoins(u) /\ Stays(t, u)
  <2>1. Standing /\ r.pc = "upsert"
    BY <1>3, <1>5, <1>13 DEF Steps
  <2>2. Roled(row')
    BY <1>1, <1>13, <2>1 DEF ReadsInv, PagesOK, Roled
  <2>3. \A u : RowJoins(u) /\ Stays(t, u) /\ (u \in C!Members => u \in C!Members')
    BY <1>1 DEF RowJoins, Stays, C!Members
  <2>4. ASSUME NEW u \in Users \ strayed' PROVE CopyGoes(q, r, u)
    <3>1. Copied(r, u, msgs) => Copied(q, u, msgs)
      BY <1>1, <1>3, <1>4, <2>1, <2>4 DEF Copied, Parting
    <3>2. Base(r) = Base(q) /\ q.pc \notin Unbased
      BY <1>1, <1>3, <2>1 DEF Base, Writing, Parting, Unbased
    <3> QED
      BY <2>1, <2>3, <3>1, <3>2 DEF CopyGoes
  <2> QED
    BY <2>2, <2>3, <2>4
<1> QED
  BY <1>5, <1>7, <1>8, <1>9, <1>10, <1>11, <1>12, <1>13, ReadsGo

(* Nothing changes.                                                        *)
LEMMA ReadsRest == ReadsInv /\ UNCHANGED convVars => ReadsInv'
<1> SUFFICES ASSUME ReadsInv, UNCHANGED convVars PROVE ReadsInv'
  OBVIOUS
<1>1. UNCHANGED <<kind, group, conv, row, msgs, task, clock, created, cleared, blurred, strayed>>
  BY DEF convVars
<1>2. OneConversation'
  BY <1>1 DEF ReadsInv, OneConversation, Standing
<1>3. MessagesOK'
  BY <1>1 DEF ReadsInv, MessagesOK, MessageTimes, MessageOK, Standing
<1>4. UnreadOK'
  <2>1. \A u : (Reading(u)' <=> Reading(u)) /\ Due(u)' = Due(u)
    BY <1>1 DEF Reading, Due, Unseen
  <2> QED
    BY <1>1, <2>1 DEF ReadsInv, UnreadOK, Standing
<1>5. ClearedOK'
  BY <1>1 DEF ReadsInv, ClearedOK, Standing
<1>6. PagesOK'
  <2>1. C!Members' = C!Members
    BY <1>1 DEF C!Members
  <2>2. \A u : JoinedOK(u)' <=> JoinedOK(u)
    BY <1>1, <2>1 DEF JoinedOK
  <2> QED
    BY <1>1, <2>2 DEF ReadsInv, PagesOK, Standing
<1> QED
  BY <1>2, <1>3, <1>4, <1>5, <1>6 DEF ReadsInv

(* A step keeps what readers get.                                          *)
LEMMA ReadsStep == RowsInv /\ ReadsInv /\ C!Next => ReadsInv'
<1>1. ASSUME RowsInv, ReadsInv, NEW t \in Tasks, NEW q \in Requests, C!Request(t, q[1], q[2], q[3])
      PROVE  ReadsInv'
  BY <1>1, RequestReads
<1>2. ASSUME RowsInv, ReadsInv, NEW t \in Tasks, C!Step(t)
      PROVE  ReadsInv'
  <2>1. CASE C!Allow(t) \/ C!Seek(t) \/ C!PrefConv(t) \/ C!PrefNew(t) \/ C!PrefRow(t)
    BY <1>2, <2>1, AllowReads, SeekReads, PrefConvReads, PrefNewReads, PrefRowReads
  <2>2. CASE C!Insert(t) \/ C!ReadGroup(t) \/ C!SaveGroup(t)
    BY <1>2, <2>2, InsertReads, ReadGroupReads, SaveGroupReads
  <2>3. CASE \/ C!SyncRead(t) \/ C!SyncConv(t) \/ C!SyncPut(t) \/ C!SyncFind(t) \/ C!SyncRow(t)
             \/ C!SyncLeave(t)
    BY <1>2, <2>3, SyncReadReads, SyncConvReads, SyncPutReads, SyncFindReads, SyncRowReads, SyncLeaveReads
  <2>4. CASE C!Save(t) \/ C!Shape(t) \/ C!Upsert(t) \/ C!Find(t) \/ C!Put(t)
    BY <1>2, <2>4, SaveReads, ShapeReads, UpsertReads, FindReads, PutReads
  <2>5. CASE C!DropGroup(t) \/ C!DropConv(t) \/ C!DropRows(t) \/ C!DropDoc(t) \/ C!Purge(t)
    BY <1>2, <2>5, DropReads, DropConvReads
  <2>6. CASE \/ C!MarkRead(t) \/ C!ZeroUnread(t) \/ C!Wipe(t)
             \/ C!PageMember(t) \/ C!PageRow(t) \/ C!PageFetch(t)
    BY <1>2, <2>6, MarkReadReads, ZeroUnreadReads, WipeReads, PageMemberReads, PageRowReads, PageFetchReads
  <2> QED
    BY <1>2, <2>1, <2>2, <2>3, <2>4, <2>5, <2>6 DEF C!Step
<1> QED
  BY <1>1, <1>2 DEF C!Next

(* A page is honest when its row is.                                       *)
LEMMA PagesShow ==
  ASSUME RowsInv, ReadsInv
  PROVE  C!PagesHonest
<1> SUFFICES ASSUME NEW t \in Tasks, task[t].pc = "fetch", group.state # "deleted", NEW m \in msgs,
                    C!Passes(task[t].found, m.at)
             PROVE  /\ m.at > task[t].since
                    /\ (/\ kind = "group" /\ task[t].found.role # "none" /\ task[t].who \notin strayed
                        /\ m.at <= task[t].now) => task[t].who \in m.may
  BY DEF C!PagesHonest, C!Served, C!At
<1>1. Standing /\ task[t].who \in Users /\ m.at \in 1 .. clock /\ clock \in Nat
  BY Here DEF Standing, RecordOK, ReadsInv, MessagesOK, MessageTimes
<1>2. /\ task[t].since \in Nat /\ task[t].found.deleted \in Nat /\ task[t].since <= task[t].found.deleted
      /\ m.at \in Nat /\ m.at >= 1
  BY <1>1 DEF ReadsInv, ClearedOK
<1>3. m.at > task[t].since
  <2>1. task[t].found.deleted # 0 => m.at > task[t].found.deleted
    BY DEF C!Passes
  <2> QED
    BY <1>2, <2>1
<1>4. ASSUME kind = "group", task[t].found.role # "none", task[t].who \notin strayed, m.at <= task[t].now
      PROVE  task[t].who \in m.may
  <2>1. Paged(task[t], task[t].who, msgs) /\ task[t].found.joined \in Nat \ {0}
    BY <1>1, <1>4 DEF ReadsInv, PagesOK, JoinedOK, CopyOK
  <2>2. task[t].found.joined <= m.at
    <3> DEFINE p == task[t].found  at == m.at
    <3>1. at \in Nat /\ p.joined \in Nat /\ p.role # "none" /\ p.joined # 0
      BY <1>2, <1>4, <2>1
    <3>2. IF p.deleted # 0 THEN at > p.joined ELSE at >= p.joined
      BY <3>1, Zenon DEF C!Passes
    <3> HIDE DEF p, at
    <3>3. p.joined <= at
      BY <3>1, <3>2
    <3> QED
      BY <3>3 DEF p, at
  <2> QED
    BY <1>4, <2>1, <2>2 DEF Paged
<1> QED
  BY <1>3, <1>4

(* The messages a user owes a look are as many as their times.             *)
LEMMA OwedCount ==
  ASSUME RowsInv, ReadsInv, NEW u \in Users, \A t \in Tasks : task[t].pc = "idle"
  PROVE  Cardinality(C!Owed(u, row[1][u].deleted)) = Cardinality(Due(u))
<1> DEFINE S == C!Owed(u, row[1][u].deleted)  T == Due(u)  f == [n \in T |-> CHOOSE m \in S : m.at = n]
<1>1. \A n : n \in T <=> n \in Nat /\ Unseen(u, n) /\ n > row[1][u].deleted
  BY DEF Due, Counts
<1>2. \A m : m \in S <=> m \in msgs /\ u \in m.aud /\ u \notin m.seen /\ m.by # u /\ m.at > row[1][u].deleted
  BY DEF C!Owed
<1>3. MessageTimes /\ \A m \in msgs : m.at \in Nat
  BY Here DEF ReadsInv, MessagesOK, MessageTimes
<1> HIDE DEF S, T
<1>4. \A m \in S : m.at \in T
  BY <1>1, <1>2, <1>3 DEF Unseen
<1>5. \A m, n \in S : m.at = n.at => m = n
  BY <1>2, <1>3 DEF MessageTimes
<1>6. ASSUME NEW n \in T PROVE \E m \in S : m.at = n
  BY <1>1, <1>2 DEF Unseen
<1>7. \A n \in T : f[n] \in S /\ f[n].at = n
  BY <1>6
<1>8. f \in [T -> S]
  BY <1>7
<1> HIDE DEF f
<1>9. f \in Injection(T, S)
  BY <1>7, <1>8 DEF Injection, IsInjective
<1>10. f \in Surjection(T, S)
  BY <1>4, <1>5, <1>7, <1>8 DEF Surjection
<1>11. ExistsBijection(T, S)
  BY <1>9, <1>10 DEF ExistsBijection, Bijection
<1>12. IsFiniteSet(T)
  BY DueFinite DEF T, ReadsInv
<1>13. Cardinality(T) = Cardinality(S)
  BY <1>11, <1>12, FS_Bijection
<1> QED
  BY <1>13 DEF S, T

(* The counts are those of the messages.                                   *)
LEMMA UnreadShow ==
  ASSUME RowsInv, ReadsInv
  PROVE  C!UnreadExact
<1> SUFFICES ASSUME kind = "direct" \/ (group.state = "live" /\ conv.id # 0), \A t \in Tasks : task[t].pc = "idle",
                    NEW u \in Users \ blurred, NEW k \in C!Listed(u)
             PROVE  row[k][u].unread = C!Cardinality(C!Owed(u, row[k][u].deleted))
  BY DEF C!UnreadExact, C!At
<1>1. Standing
  BY DEF Standing
<1>2. k = 1
  BY <1>1, FirstConv
<1>3. row[1][u].unread = Cardinality(Due(u))
  BY <1>1 DEF ReadsInv, UnreadOK, Reading
<1>4. \A S : C!Cardinality(S) = Cardinality(S)
  BY DEF C!Cardinality, Cardinality
<1> QED
  BY <1>2, <1>3, <1>4, OwedCount

(* What readers get when the conversation begins.                          *)
LEMMA ReadsInit == C!Init => ReadsInv
<1> SUFFICES ASSUME C!Init PROVE ReadsInv
  OBVIOUS
<1>1. /\ task = [t \in Tasks |-> C!Idle] /\ blurred = {} /\ strayed = {} /\ cleared = [u \in Users |-> 0]
      /\ C!Idle.pc = "idle"
  BY DEF C!Init, C!Idle
<1>2. 1 \in C!Convs /\ Nobody \notin Users
  BY ConversationsAssumption DEF C!Convs
(* Nobody has begun anything. *)
<1>3. \A t \in Tasks : task[t].pc = "idle"
  BY <1>1
<1>4. \A t \in Tasks : MessageOK(t)
  BY <1>3 DEF MessageOK, Writing
<1>5. \A t \in Tasks : \A u : CopyOK(task[t], u, msgs, C!Members, row)
  BY <1>3 DEF CopyOK, Copied
<1>6. \A u : Due(u) = {n \in Nat : Unseen(u, n) /\ n > row[1][u].deleted}
  BY <1>3 DEF Due, Counts
<1>7. CASE C!Fresh0
  <2>1. /\ group = C!NoGroup /\ conv = C!NoConv /\ created = 0 /\ clock = 0 /\ msgs = {}
        /\ \A k \in C!Convs, u \in Users : row[k][u] = C!NoRow
    BY <1>7 DEF C!Fresh0
  <2>2. ~C!NoRow.live /\ C!NoRow.deleted = 0 /\ C!NoRow.unread = 0 /\ C!NoRow.role = "none" /\ conv.id = 0
    BY <2>1 DEF C!NoRow, C!NoConv
  <2>3. OneConversation
    BY <1>3, <2>1, <2>2 DEF OneConversation
  <2>4. MessagesOK
    BY <1>4, <2>1 DEF MessagesOK, MessageTimes
  <2>5. UnreadOK
    <3>1. \A u : Due(u) = {}
      BY <1>6, <2>1 DEF Unseen
    <3> QED
      BY <1>2, <2>1, <2>2, <3>1, FS_EmptySet DEF UnreadOK
  <2>6. ClearedOK
    BY <1>1, <1>2, <1>3, <2>1, <2>2 DEF ClearedOK
  <2>7. PagesOK
    BY <1>2, <1>3, <1>5, <2>1, <2>2 DEF PagesOK, JoinedOK
  <2> QED
    BY <2>3, <2>4, <2>5, <2>6, <2>7 DEF ReadsInv
<1>8. ASSUME kind = "group", NEW gone \in Users \ Invited, C!Settled(Founder, gone)
      PROVE  ReadsInv
  <2> DEFINE all == Invited \cup {Founder, gone}  rest == all \ {gone}
             here == [C!NoRow EXCEPT !.live = TRUE, !.joined = 1, !.last = 4]
             Row(k, u) == CASE k = 1 /\ u \in rest -> [here EXCEPT !.role = C!RoleIn(Founder, u)]
                            [] k = 1 /\ u = gone -> [here EXCEPT !.left = 3, !.last = 2, !.unread = 1]
                            [] OTHER -> C!NoRow
  <2>1. /\ group.state = "live" /\ conv.id = 1 /\ created = 1 /\ clock = 4
        /\ msgs = {C!Past(2, all, rest)} \cup {C!Past(4, rest, rest)}
    BY <1>8 DEF C!Settled
  <2>2. row = [k \in C!Convs |-> [u \in Users |-> Row(k, u)]]
    BY <1>8 DEF C!Settled
  <2>3. rest \subseteq all /\ gone \notin rest /\ gone \in all /\ rest \cup {gone} = all
    OBVIOUS
  <2>4. /\ \A u : /\ Row(1, u).deleted = 0 /\ (Row(1, u).live => Row(1, u).joined = 1)
                  /\ Row(1, u).live \/ Row(1, u) = C!NoRow
                  /\ Row(1, u).unread = (IF u = gone THEN 1 ELSE 0)
                  /\ Row(1, u).role # "none" <=> u \in rest
                  /\ Row(1, u).live => (Row(1, u).left = 0 <=> u \in rest)
        /\ \A k, u : k # 1 => Row(k, u) = C!NoRow
    <3>1. \A k, u : k # 1 => Row(k, u) = C!NoRow
      OBVIOUS
    <3>2. ASSUME NEW u
          PROVE  /\ Row(1, u).deleted = 0 /\ (Row(1, u).live => Row(1, u).joined = 1)
                 /\ Row(1, u).live \/ Row(1, u) = C!NoRow
                 /\ Row(1, u).unread = (IF u = gone THEN 1 ELSE 0)
                 /\ Row(1, u).role # "none" <=> u \in rest
                 /\ Row(1, u).live => (Row(1, u).left = 0 <=> u \in rest)
      <4> DEFINE p == Row(1, u)
      <4>1. CASE u \in rest
        <5>1. p = [here EXCEPT !.role = C!RoleIn(Founder, u)]
          BY <4>1
        <5> HIDE DEF p
        <5>2. /\ p.deleted = 0 /\ p.live /\ p.joined = 1 /\ p.unread = 0 /\ p.left = 0 /\ p.role # "none"
          BY <5>1 DEF C!NoRow, C!RoleIn
        <5> HIDE DEF rest
        <5> QED
          BY <2>3, <4>1, <5>2 DEF p
      <4>2. CASE u \notin rest /\ u = gone
        <5>1. p = [here EXCEPT !.left = 3, !.last = 2, !.unread = 1]
          BY <4>2
        <5> HIDE DEF p
        <5>2. /\ p.deleted = 0 /\ p.live /\ p.joined = 1 /\ p.unread = 1 /\ p.left = 3 /\ p.role = "none"
          BY <5>1 DEF C!NoRow
        <5> QED
          BY <4>2, <5>2 DEF p
      <4>3. CASE u \notin rest /\ u # gone
        <5>1. p = C!NoRow
          BY <4>3
        <5> HIDE DEF p
        <5>2. p.deleted = 0 /\ ~p.live /\ p.unread = 0 /\ p.role = "none"
          BY <5>1 DEF C!NoRow
        <5> QED
          BY <4>3, <5>1, <5>2 DEF p
      <4> QED
        BY <4>1, <4>2, <4>3
    <3> HIDE DEF Row
    <3> QED
      BY <3>1, <3>2
  <2> HIDE DEF Row
  <2>5. \A k \in C!Convs, u \in Users : row[k][u] = Row(k, u)
    BY <2>2
  <2>6. \A m \in msgs : /\ DOMAIN m = Parts /\ m.seen = rest /\ m.by = Nobody
                        /\ (m.at = 2 /\ m.aud = all /\ m.may = all) \/ (m.at = 4 /\ m.aud = rest /\ m.may = rest)
    <3> DEFINE old == C!Past(2, all, rest)  last == C!Past(4, rest, rest)
    <3>1. /\ DOMAIN old = Parts /\ old.seen = rest /\ old.by = Nobody /\ old.at = 2 /\ old.aud = all /\ old.may = all
          /\ DOMAIN last = Parts /\ last.seen = rest /\ last.by = Nobody /\ last.at = 4 /\ last.aud = rest /\ last.may = rest
      BY DEF C!Past, Parts
    <3>2. \A m \in msgs : m = old \/ m = last
      BY <2>1
    <3> HIDE DEF old, last, all, rest
    <3> QED
      BY <3>1, <3>2
  <2>7. C!Past(2, all, rest) \in msgs /\ C!Past(2, all, rest).at = 2
    BY <2>1 DEF C!Past
  <2>8. \A m, n \in msgs : m.at = n.at => m = n
    <3> DEFINE old == C!Past(2, all, rest)  last == C!Past(4, rest, rest)
    <3>1. old.at = 2 /\ last.at = 4
      BY DEF C!Past
    <3>2. \A m \in msgs : m = old \/ m = last
      BY <2>1
    <3> HIDE DEF old, last
    <3> QED
      BY <3>1, <3>2
  <2> HIDE DEF rest, all
  <2>9. OneConversation
    <3>1. ~C!NoRow.live
      BY DEF C!NoRow
    <3>2. \A k \in C!Convs, u \in Users : row[k][u].live \/ row[k][u] = C!NoRow
      BY <2>4, <2>5
    <3>3. \A k \in C!Convs \ {1}, u \in Users : ~row[k][u].live
      BY <2>4, <2>5, <3>1
    <3> QED
      BY <1>3, <2>1, <3>2, <3>3 DEF OneConversation
  <2>10. MessagesOK
    <3>1. \A m \in msgs : m.at \in 1 .. clock
      BY <2>1, <2>6
    <3> QED
      BY <1>4, <2>6, <2>8, <3>1 DEF MessagesOK, MessageTimes
  <2>11. UnreadOK
    <3> SUFFICES ASSUME NEW u \in Users PROVE row[1][u].unread = Cardinality(Due(u))
      BY DEF UnreadOK
    <3>1. row[1][u].deleted = 0 /\ row[1][u].unread = (IF u = gone THEN 1 ELSE 0)
      BY <1>2, <2>4, <2>5
    <3>2. CASE u = gone
      <4>1. \A n : Unseen(u, n) <=> n = 2
        <5>1. Unseen(u, 2)
          BY <1>2, <2>3, <2>6, <2>7, <3>2 DEF Unseen
        <5>2. \A n : Unseen(u, n) => n = 2
          BY <2>3, <2>6, <3>2 DEF Unseen
        <5> QED
          BY <5>1, <5>2
      <4>2. Due(u) = {2}
        BY <1>6, <3>1, <4>1
      <4> QED
        BY <3>1, <3>2, <4>2, FS_Singleton
    <3>3. CASE u # gone
      <4>1. \A n : ~Unseen(u, n)
        BY <2>3, <2>6, <3>3 DEF Unseen
      <4>2. Due(u) = {}
        BY <1>6, <4>1
      <4> QED
        BY <3>1, <3>3, <4>2, FS_EmptySet
    <3> QED
      BY <3>2, <3>3
  <2>12. ClearedOK
    <3>1. \A u \in Users : row[1][u].deleted = 0
      BY <1>2, <2>4, <2>5
    <3> QED
      BY <1>1, <1>3, <2>1, <3>1 DEF ClearedOK
  <2>13. PagesOK
    <3>1. \A u \in Users : row[1][u] = Row(1, u)
      BY <1>2, <2>5
    <3>2. \A u \in Users : row[1][u].live => (row[1][u].left = 0 <=> row[1][u].role # "none") /\ row[1][u].joined # 0
      BY <2>4, <3>1
    <3>3. ASSUME NEW u \in Users, row[1][u].role # "none" PROVE AllSince(u, row[1][u].joined, msgs)
      <4>1. u \in rest
        BY <2>4, <3>1, <3>3
      <4> QED
        BY <2>3, <2>6, <4>1 DEF AllSince
    <3> QED
      BY <1>3, <1>5, <3>2, <3>3 DEF PagesOK, JoinedOK
  <2> QED
    BY <2>9, <2>10, <2>11, <2>12, <2>13 DEF ReadsInv
<1> QED
  BY <1>7, <1>8 DEF C!Init

(* A participant's unread count is the number of messages of others that   *)
(* the user has neither read nor cleared, once nothing is under way; and a *)
(* page shows nothing its reader had deleted, nor anything sent to the     *)
(* group while the reader was away: but for users whose message or sync    *)
(* was broken off or overtaken (messageController, conversationReadModel-  *)
(* Service, buildMessageVisibilityFilter).                                 *)
THEOREM ReadsAreHonest == ServerSpec => []ReadsHonest
<1> DEFINE Inv == part = "conversations" => RowsInv /\ ReadsInv
<1>1. ServerInit => Inv
  BY RowsInit, ReadsInit DEF ServerInit
<1>2. Inv /\ [ServerNext]_<<part, convVars, uploadVars>> => Inv'
  <2> SUFFICES ASSUME Inv, [ServerNext]_<<part, convVars, uploadVars>> PROVE Inv'
    OBVIOUS
  <2>1. CASE part = "conversations" /\ C!Next /\ UNCHANGED part
    <3>1. RowsInv /\ GroupInv /\ ReadsInv
      BY <2>1 DEF RowsInv
    <3> QED
      BY <2>1, <3>1, ConversationsStep, RowsStep, ReadsStep
  <2>2. CASE part # "conversations" /\ UNCHANGED part
    BY <2>2
  <2>3. CASE UNCHANGED <<part, convVars, uploadVars>>
    BY <2>3, RowsRest, ReadsRest
  <2> QED
    BY <2>1, <2>2, <2>3 DEF ServerNext
<1>3. Inv => ReadsHonest
  BY UnreadShow, PagesShow DEF ReadsHonest
<1> QED
  BY <1>1, <1>2, <1>3, PTL DEF ServerSpec
=============================================================================
