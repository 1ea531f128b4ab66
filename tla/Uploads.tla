------------------------------ MODULE Uploads ------------------------------
(***************************************************************************)
(* What one user uploads, from the upload queue of the browser to the      *)
(* document that names the stored object: images that go through the queue *)
(* image.process and its workers, avatars that do too, and other files in  *)
(* parts (useUploader.js, useUpload.js, fileController.js, userController, *)
(* s3.service.js, imageWorker.js), with the cached profile that shows the  *)
(* avatar (cacheService.js).  A delivery that its channel loses goes to    *)
(* another worker while the first goes on; what acknowledgements do is in  *)
(* JobQueue.  A retry waits in a queue of its own, which here only means   *)
(* that jobs are taken in any order.                                       *)
(***************************************************************************)
EXTENDS Integers, FiniteSets, Bags

CONSTANTS
  Items,        \* uploads
  Workers,      \* handlers at work at a time
  MaxAttempts,  \* RABBITMQ_MAX_ATTEMPTS
  MaxTroubles,  \* calls that fail, workers that die, channels and sockets that are lost
  MaxReads,     \* reads of the profile
  Nobody

VARIABLES
  use,      \* what an upload is, once it has begun
  chip,      \* how the browser's queue shows it
  req,       \* where its request is
  source,    \* its staged object is in the store
  objects,   \* the keys of its results in the store
  made,      \* how many there have been
  file,      \* the key in its File document, 0 for none
  avatar,    \* the upload and the key that the user document names
  cache,     \* the upload that the cached profile names, Nobody for no avatar
  hit,       \* a profile is cached
  reader,    \* a read of the profile under way
  ready,     \* jobs to be taken, with their attempts
  dead,      \* uploads with a job in the dead-letter queue
  worker,    \* the handlers
  online,    \* the user's socket is in its room
  events,    \* fileProcessed events on their way
  troubles,  \* for MaxTroubles
  reads,     \* for MaxReads
  applied,   \* history: avatars that the user document has named
  missed,    \* history: its event came before the answer, or found no socket
  stale      \* history: an invalidation was missed, or overtaken by a read

browser == <<use, chip, missed>>
store == <<source, objects, made>>
cached == <<cache, hit, reader, reads, stale>>
profile == <<avatar, applied, cached>>
jobs == <<ready, dead>>
socket == <<online, events>>
vars == <<browser, req, store, file, profile, jobs, worker, socket, troubles>>

Uses == {"none", "chat", "avatar", "parts"}
Chips == {"none", "uploading", "processing", "completed", "error"}
Steps == {"none", "stage", "publish", "unstage", "complete", "record",
          "accepted", "queued", "made", "saved", "refused", "over"}
Idle == [pc |-> "idle", up |-> Nobody, tries |-> 0, held |-> FALSE, key |-> 0]
NoRead == [pc |-> "idle", up |-> Nobody]

Init ==
  /\ use = [u \in Items |-> "none"] /\ chip = [u \in Items |-> "none"]
  /\ req = [u \in Items |-> "none"]
  /\ source = [u \in Items |-> FALSE] /\ objects = [u \in Items |-> {}]
  /\ made = [u \in Items |-> 0] /\ file = [u \in Items |-> 0]
  /\ avatar = [up |-> Nobody, key |-> 0] /\ cache = Nobody /\ hit = FALSE /\ reader = NoRead
  /\ ready = EmptyBag /\ dead = {} /\ worker = [w \in Workers |-> Idle]
  /\ online = TRUE /\ events = [u \in Items |-> 0]
  /\ troubles = 0 /\ reads = 0
  /\ applied = {} /\ missed = {} /\ stale = FALSE

Trouble == troubles < MaxTroubles /\ troubles' = troubles + 1
Fine == UNCHANGED troubles

-----------------------------------------------------------------------------
(* The browser.                                                             *)

\* addFiles and startUpload; a profile picture has no place in the queue.
Add(u) ==
  /\ use[u] = "none"
  /\ \E k \in Uses \ {"none"} :
       /\ use' = [use EXCEPT ![u] = k]
       /\ chip' = [chip EXCEPT ![u] = IF k = "avatar" THEN "none" ELSE "uploading"]
       /\ req' = [req EXCEPT ![u] = IF k = "parts" THEN "complete" ELSE "stage"]
  /\ Fine /\ UNCHANGED <<missed, store, file, profile, jobs, worker, socket>>

\* Updates of an entry that has been removed find nothing.
Shows(u, status) == chip' = IF chip[u] = "none" THEN chip ELSE [chip EXCEPT ![u] = status]

\* The answer: queued, made, or failed.  That of updateUserProfile comes after it has
\* dropped the cached profile, whether the avatar could be queued or not.
Answer(u) ==
  /\ \/ req[u] = "accepted" /\ Shows(u, "processing")
     \/ req[u] = "made" /\ Shows(u, "completed")
     \/ req[u] \in {"saved", "refused"} /\ Shows(u, "error")
  /\ req' = [req EXCEPT ![u] = IF @ = "accepted" THEN "queued" ELSE "over"]
  /\ hit' = (hit /\ (use[u] = "avatar" => req[u] = "refused"))
  /\ Fine
  /\ UNCHANGED <<use, missed, store, file, avatar, applied, cache, reader, reads, stale,
                 jobs, worker, socket>>

Waits(u) == chip[u] \in {"uploading", "processing"}
Expects(u) == chip[u] = "processing"

\* file-processed, which looks for the request that the answer named.
Event(u) ==
  /\ events[u] > 0
  /\ IF Expects(u)
     THEN /\ chip' = [chip EXCEPT ![u] = "completed"] /\ missed' = missed \ {u}
          /\ events' = [events EXCEPT ![u] = 0]
     ELSE /\ missed' = missed \cup {u} /\ events' = [events EXCEPT ![u] = @ - 1]
          /\ UNCHANGED chip
  /\ Fine /\ UNCHANGED <<use, req, store, file, profile, jobs, worker, online>>

\* An entry that is gone is of no interest to events.
Forget(set) ==
  /\ chip' = [u \in Items |-> IF u \in set THEN "none" ELSE chip[u]]
  /\ missed' = missed \ set
  /\ events' = [u \in Items |-> IF u \in set THEN 0 ELSE events[u]]

\* removeUploadItem, which neither stops the upload nor tells the server.
RemoveChip(u) ==
  /\ chip[u] # "none" /\ Forget({u})
  /\ Fine /\ UNCHANGED <<use, req, store, file, profile, jobs, worker, online>>

\* handleSendMessage, which waits for every upload and leaves out what has failed.
Send ==
  /\ \E u \in Items : chip[u] = "completed"
  /\ \A u \in Items : ~Waits(u)
  /\ Forget(Items)
  /\ Fine /\ UNCHANGED <<use, req, store, file, profile, jobs, worker, online>>

Drop ==
  /\ online /\ Trouble /\ online' = FALSE
  /\ missed' = missed \cup {u \in Items : events[u] > 0}
  /\ events' = [u \in Items |-> 0]
  /\ UNCHANGED <<use, chip, req, store, file, profile, jobs, worker>>

Reconnect ==
  /\ ~online /\ online' = TRUE
  /\ Fine /\ UNCHANGED <<browser, req, store, file, profile, jobs, worker, events>>

-----------------------------------------------------------------------------
(* The controllers.                                                         *)

Queued(job) == ready (+) SetToBag({job})
Taken(job) == ready (-) SetToBag({job})

GoesTo(u, step) == req' = [req EXCEPT ![u] = step]

\* uploadObject to queue-sources.
Stage(u) ==
  /\ req[u] = "stage"
  /\ \/ source' = [source EXCEPT ![u] = TRUE] /\ GoesTo(u, "publish") /\ Fine
     \/ Trouble /\ GoesTo(u, "refused") /\ UNCHANGED source
  /\ UNCHANGED <<browser, objects, made, file, profile, jobs, worker, socket>>

\* publishImageJob: a confirm may be lost on its way back.
Publish(u) ==
  /\ req[u] = "publish"
  /\ \/ /\ ready' = Queued(<<u, 0>>)
        /\ \/ GoesTo(u, "accepted") /\ Fine
           \/ Trouble /\ GoesTo(u, "unstage")
     \/ Trouble /\ GoesTo(u, "unstage") /\ UNCHANGED ready
  /\ UNCHANGED <<browser, store, file, profile, dead, worker, socket>>

\* The source of a job that could not be published goes, if it can.
Unstage(u) ==
  /\ req[u] = "unstage" /\ GoesTo(u, IF use[u] = "avatar" THEN "saved" ELSE "refused")
  /\ \/ source' = [source EXCEPT ![u] = FALSE] /\ Fine
     \/ Trouble /\ UNCHANGED source
  /\ UNCHANGED <<browser, objects, made, file, profile, jobs, worker, socket>>

Stores(u) == /\ objects' = [objects EXCEPT ![u] = @ \cup {made[u] + 1}]
             /\ made' = [made EXCEPT ![u] = @ + 1]

\* init, the parts and complete: one object out of its parts, or none.
Complete(u) ==
  /\ req[u] = "complete"
  /\ \/ Stores(u) /\ GoesTo(u, "record") /\ Fine
     \/ Trouble /\ GoesTo(u, "refused") /\ UNCHANGED <<objects, made>>
  /\ UNCHANGED <<browser, source, file, profile, jobs, worker, socket>>

\* The key of the object that has been completed.
MadeKey(u) == made[u]

\* The abort that follows a failure finds nothing to abort, and the object stays.
Record(u) ==
  /\ req[u] = "record"
  /\ \/ file' = [file EXCEPT ![u] = MadeKey(u)] /\ GoesTo(u, "made") /\ Fine
     \/ Trouble /\ GoesTo(u, "refused") /\ UNCHANGED file
  /\ UNCHANGED <<browser, store, profile, jobs, worker, socket>>

\* getCachedUserProfile, in its three commands.
ReadProfile ==
  /\ \/ /\ reader.pc = "idle" /\ reads < MaxReads /\ ~hit
        /\ reads' = reads + 1 /\ reader' = [NoRead EXCEPT !.pc = "find"]
        /\ UNCHANGED <<cache, hit, stale>>
     \/ /\ reader.pc = "find" /\ reader' = [pc |-> "fill", up |-> avatar.up]
        /\ UNCHANGED <<cache, hit, stale, reads>>
     \/ /\ reader.pc = "fill" /\ reader' = NoRead
        /\ cache' = reader.up /\ hit' = TRUE
        /\ stale' = (stale \/ reader.up # avatar.up)
        /\ UNCHANGED reads
  /\ Fine /\ UNCHANGED <<browser, req, store, file, avatar, applied, jobs, worker, socket>>

-----------------------------------------------------------------------------
(* The workers: processChatImage and processAvatarImage.                    *)

At(w, pc) == worker[w].pc = pc
Up(w) == worker[w].up
To(w, pc) == worker' = [worker EXCEPT ![w].pc = pc, ![w].key = 0]
Chat(w) == use[Up(w)] = "chat"

Take(w) ==
  /\ At(w, "idle")
  /\ \E job \in BagToSet(ready) :
       /\ ready' = Taken(job)
       /\ worker' = [worker EXCEPT ![w] = [pc |-> "find", up |-> job[1], tries |-> job[2],
                                           held |-> TRUE, key |-> 0]]
  /\ Fine /\ UNCHANGED <<browser, req, store, file, profile, dead, socket>>

\* Mutant: what another delivery has done is not announced again.
DoneQuietly(w) == "clean"

\* Work that another delivery has done is announced once more.
DoneBefore(w) == "emit"

\* The document that this request has left.
Left(w) == IF Chat(w) THEN file[Up(w)] # 0 ELSE avatar.up = Up(w)

Find(w) ==
  /\ At(w, "find")
  /\ \/ To(w, IF Left(w) THEN DoneBefore(w) ELSE "make") /\ Fine
     \/ Trouble /\ To(w, "fail")
  /\ UNCHANGED <<browser, req, store, file, profile, jobs, socket>>

\* The source stays until the job is done.
AfterMake(w) == source

\* The source, made smaller, under a key of its own.
Make(w) ==
  /\ At(w, "make")
  /\ \/ /\ source[Up(w)] /\ Stores(Up(w)) /\ source' = AfterMake(w) /\ Fine
        /\ worker' = [worker EXCEPT ![w].pc = "write", ![w].key = made[Up(w)] + 1]
     \/ ~source[Up(w)] /\ To(w, "fail") /\ Fine /\ UNCHANGED store
     \/ Trouble /\ To(w, "fail") /\ UNCHANGED store
  /\ UNCHANGED <<browser, req, file, profile, jobs, socket>>

\* Mutant: a duplicate cleans up after the request rather than after itself.
UndoneForFile(w) == file[Up(w)]

\* cleanupObjectKey, for the key that this delivery has made.
Undone(w) == worker[w].key

\* File.create, where the index of requestId lets one document in.
WriteFile(w) ==
  /\ At(w, "write") /\ Chat(w)
  /\ \/ /\ file[Up(w)] = 0
        /\ file' = [file EXCEPT ![Up(w)] = worker[w].key] /\ To(w, "emit")
        /\ Fine /\ UNCHANGED objects
     \/ /\ file[Up(w)] # 0 /\ To(w, "emit")
        /\ \/ objects' = [objects EXCEPT ![Up(w)] = @ \ {Undone(w)}] /\ Fine
           \/ Trouble /\ UNCHANGED objects
        /\ UNCHANGED file
     \/ Trouble /\ To(w, "fail") /\ UNCHANGED <<file, objects>>
  /\ UNCHANGED <<browser, req, source, made, profile, jobs, socket>>

\* The user document, which remembers the last request only.
WriteAvatar(w) ==
  /\ At(w, "write") /\ ~Chat(w)
  /\ \/ /\ avatar' = [up |-> Up(w), key |-> worker[w].key]
        /\ applied' = applied \cup {Up(w)} /\ To(w, "invalidate") /\ Fine
     \/ Trouble /\ To(w, "fail") /\ UNCHANGED <<avatar, applied>>
  /\ UNCHANGED <<browser, req, store, file, cached, jobs, socket>>

\* Mutant: the cached profile stays.
Kept == hit

\* invalidateUserProfile.
Dropped == FALSE

Invalidate(w) ==
  /\ At(w, "invalidate") /\ To(w, "emit")
  /\ \/ hit' = Dropped /\ Fine /\ UNCHANGED stale
     \/ Trouble /\ stale' = TRUE /\ UNCHANGED hit
  /\ UNCHANGED <<browser, req, store, file, avatar, applied, cache, reader, reads, jobs, socket>>

\* emitToUser, to a room that may be empty; no entry waits for avatarUpdated.
Emit(w) ==
  /\ At(w, "emit") /\ To(w, "clean")
  /\ IF ~Waits(Up(w)) THEN UNCHANGED <<events, missed>>
     ELSE IF online THEN events' = [events EXCEPT ![Up(w)] = @ + 1] /\ UNCHANGED missed
     ELSE missed' = missed \cup {Up(w)} /\ UNCHANGED events
  /\ Fine /\ UNCHANGED <<use, chip, req, store, file, profile, jobs, online>>

\* Acknowledged: a delivery that was lost before has come again all the same.
Done(w) == worker' = [worker EXCEPT ![w] = Idle]

\* cleanupSourceObject, whose failure is only logged.
Clean(w) ==
  /\ At(w, "clean") /\ Done(w)
  /\ \/ source' = [source EXCEPT ![Up(w)] = FALSE] /\ Fine
     \/ Trouble /\ UNCHANGED source
  /\ UNCHANGED <<browser, req, objects, made, file, profile, jobs, socket>>

\* The runtime's answer to an error: another attempt, or the dead letters.
Fail(w) ==
  /\ At(w, "fail") /\ Done(w)
  /\ IF worker[w].tries < MaxAttempts
     THEN ready' = Queued(<<Up(w), worker[w].tries + 1>>) /\ UNCHANGED dead
     ELSE dead' = dead \cup {Up(w)} /\ UNCHANGED ready
  /\ Fine /\ UNCHANGED <<browser, req, store, file, profile, socket>>

Returns(w) == IF worker[w].held THEN Queued(<<Up(w), worker[w].tries>>) ELSE ready

\* A worker dies; a delivery that it has not acknowledged comes again.
Crash(w) ==
  /\ ~At(w, "idle") /\ Trouble
  /\ ready' = Returns(w) /\ worker' = [worker EXCEPT ![w] = Idle]
  /\ stale' = (stale \/ At(w, "invalidate"))
  /\ UNCHANGED <<browser, req, store, file, avatar, applied, cache, hit, reader, reads,
                 dead, socket>>

\* The channel closes: the delivery comes again, and the handler goes on.
LoseChannel(w) ==
  /\ worker[w].held /\ Trouble
  /\ ready' = Returns(w) /\ worker' = [worker EXCEPT ![w].held = FALSE]
  /\ UNCHANGED <<browser, req, store, file, profile, dead, socket>>

-----------------------------------------------------------------------------

Next ==
  \/ \E u \in Items :
       \/ Add(u) \/ Answer(u) \/ Event(u) \/ RemoveChip(u)
       \/ Stage(u) \/ Publish(u) \/ Unstage(u) \/ Complete(u) \/ Record(u)
  \/ Send \/ Drop \/ Reconnect \/ ReadProfile
  \/ \E w \in Workers :
       \/ Take(w) \/ Find(w) \/ Make(w) \/ WriteFile(w) \/ WriteAvatar(w) \/ Invalidate(w)
       \/ Emit(w) \/ Clean(w) \/ Fail(w) \/ Crash(w) \/ LoseChannel(w)

Spec == Init /\ [][Next]_vars

-----------------------------------------------------------------------------
(* Properties.                                                              *)

\* Every variable keeps its shape, and every key in use is one that was made.
TypeOK ==
  /\ use \in [Items -> Uses] /\ chip \in [Items -> Chips] /\ req \in [Items -> Steps]
  /\ source \in [Items -> BOOLEAN] /\ made \in [Items -> Nat]
  /\ \A u \in Items : objects[u] \subseteq 1 .. made[u] /\ file[u] \in 0 .. made[u]
  /\ avatar.up \in Items \cup {Nobody} /\ cache \in Items \cup {Nobody}
  /\ {hit, online, stale} \subseteq BOOLEAN /\ events \in [Items -> Nat]
  /\ \A job \in BagToSet(ready) : job[1] \in Items /\ job[2] \in 0 .. MaxAttempts
  /\ {dead, applied, missed} \subseteq SUBSET Items

\* Whatever a File document, an entry that can be sent or the user document names
\* is in the store, however often a job is delivered and whoever cleans up.
NamesAreBacked ==
  /\ \A u \in Items : file[u] # 0 => file[u] \in objects[u]
  /\ \A u \in Items : chip[u] = "completed" => file[u] # 0
  /\ avatar.up # Nobody => avatar.key \in objects[avatar.up]

\* What the user was told is queued is never lost: its source is there until a
\* document names its result.
NothingAcceptedIsLost ==
  \A u \in Items : req[u] \in {"accepted", "queued"} =>
    \/ source[u]
    \/ use[u] = "chat" /\ file[u] # 0
    \/ use[u] = "avatar" /\ u \in applied

Settled(u) ==
  /\ req[u] \in {"queued", "over"} /\ events[u] = 0
  /\ \A w \in Workers : worker[w].up # u
  /\ \A job \in BagToSet(ready) : job[1] # u

\* The browser waits for no image for ever, unless its job is dead, its event came
\* before the answer, or the socket was away.
ImagesArrive ==
  \A u \in Items : chip[u] = "processing" /\ Settled(u) => u \in dead \cup missed

\* The cached profile shows the avatar of the user document once no job is at it,
\* unless an invalidation was missed or overtaken.
ProfileFresh ==
  hit /\ ~stale /\ (\A w \in Workers : ~At(w, "invalidate")) => cache = avatar.up
=============================================================================
