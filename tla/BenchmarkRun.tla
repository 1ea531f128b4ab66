---------------------------- MODULE BenchmarkRun ----------------------------
(***************************************************************************)
(* The performance runs of scripts/k4: one run identity, its resources in  *)
(* Docker and its result directory, and the commands that operators give   *)
(* for it from several shells - execute, start, cleanup, provenance,       *)
(* derive-report and finalize - with crashes between any two of their      *)
(* effects.  A file is known by who wrote it: each command writes a file   *)
(* at most once, so that a digest stands for a name and a writer.          *)
(* Containers are one unit of Docker, networks another, volumes a third.   *)
(* What the measurement counts, and the topology it attests, only matter   *)
(* as far as they succeed.                                                 *)
(***************************************************************************)
EXTENDS Integers, FiniteSets

CONSTANTS
  Shells,       \* where operators give commands
  MaxCommands,  \* commands given
  MaxCrashes,   \* commands that die half-way
  MaxFaults     \* steps that fail

VARIABLES
  docker,   \* which command made the run's containers, networks and volumes, 0 for none
  seeds,    \* runs that have seeded the volumes
  there,    \* the result directory exists
  owner,    \* the command of its owner file, 0 for none
  files,    \* its files
  shell,    \* the command of each shell
  given, crashes, faults,   \* what the bounds count
  measured, \* history: runs whose measurement took place
  swept,    \* history: runs whose evidence calls their clean-up complete
  pulled,   \* history: a clean-up took something from a run under way, or the
            \* directory of a run whose volumes it left
  byHand    \* history: an operator has written evidence

bounds == <<given, crashes, faults>>
history == <<measured, swept, pulled, byHand>>
disk == <<there, owner, files>>
vars == <<docker, seeds, there, owner, files, shell, given, crashes, faults,
          measured, swept, pulled, byHand>>

Commands == 1 .. MaxCommands
Classes == {"containers", "networks", "volumes"}
\* The files of a run, and the order of the ones that end it.
Raw == {"window", "workload", "observed"}
Names == Raw \cup {"status", "manifest", "sources", "report", "bundle", "COMPLETED"}

Measured == [artifact |-> "COMPLETED", outcome |-> "MEASURED"]
NotRun == [artifact |-> "INCOMPLETE", outcome |-> "NOT_RUN"]
FailedSetup == [artifact |-> "INCOMPLETE", outcome |-> "FAILED_SETUP"]
Axes == {Measured, NotRun, FailedSetup}

\* of: the files, with their writers, that the file lists by their digests.
NoFile == [by |-> 0, axes |-> NotRun, of |-> {}]
EmptyDisk == [n \in Names |-> NoFile]
NoView == [containers |-> 0, networks |-> 0, volumes |-> FALSE, directory |-> FALSE]
Idle == [op |-> "none", pc |-> "idle", id |-> 0, axes |-> FailedSetup, seen |-> NoView,
         owns |-> FALSE, clean |-> FALSE, sampling |-> FALSE, kept |-> {}]

Init ==
  /\ docker = [c \in Classes |-> 0] /\ seeds = {}
  /\ there = FALSE /\ owner = 0 /\ files = EmptyDisk
  /\ shell = [s \in Shells |-> Idle]
  /\ given = 0 /\ crashes = 0 /\ faults = 0
  /\ measured = {} /\ swept = {} /\ pulled = FALSE /\ byHand = FALSE

Start == [execute |-> "fresh", start |-> "up", cleanup |-> "preview",
          provenance |-> "write", derive |-> "write", finalize |-> "bundle"]

Command(s, op) ==
  /\ shell[s].pc = "idle" /\ given < MaxCommands /\ given' = given + 1
  /\ shell' = [shell EXCEPT ![s] = [Idle EXCEPT !.op = op, !.pc = Start[op], !.id = given']]
  /\ UNCHANGED <<docker, seeds, disk, crashes, faults, history>>

Goes(s, pc) == shell' = [shell EXCEPT ![s].pc = pc]
Ends(s) == shell' = [shell EXCEPT ![s] = Idle]
\* A step that may fail for reasons of its own.
Fault == faults < MaxFaults /\ faults' = faults + 1

Running(s) == shell[s].op = "execute" /\ shell[s].pc \notin {"fresh", "make", "mkdir", "own"}
Id(s) == shell[s].id

-----------------------------------------------------------------------------
(* Admission: freshProductionAdmission.                                     *)

Fresh(s) ==
  /\ shell[s].pc = "fresh"
  /\ IF there \/ \E c \in Classes : docker[c] # 0 THEN Ends(s) ELSE Goes(s, "make")
  /\ UNCHANGED <<docker, seeds, disk, bounds, history>>

\* createResultDirectory looks again, makes the directory and claims it.
Make(s) ==
  /\ shell[s].pc = "make"
  /\ IF there THEN Ends(s) ELSE Goes(s, "mkdir")
  /\ UNCHANGED <<docker, seeds, disk, bounds, history>>

Mkdir(s) ==
  /\ shell[s].pc = "mkdir"
  /\ there' = TRUE /\ Goes(s, "own")
  /\ UNCHANGED <<docker, seeds, owner, files, bounds, history>>

\* Mutant: the owner file is written over.
ClaimableAnyhow == there

\* The flag wx of the owner file.
Claimable == there /\ owner = 0

\* Mutant: a run owns its resources once its set-up has succeeded.
OwnsAtClaim(s) == FALSE

\* registerRunOwnership comes before the set-up.
OwnsEarly(s) == TRUE

Own(s) ==
  /\ shell[s].pc = "own"
  /\ IF Claimable
     THEN /\ owner' = Id(s)
          /\ shell' = [shell EXCEPT ![s].pc = "up", ![s].owns = OwnsEarly(s)]
     ELSE Ends(s) /\ UNCHANGED owner
  /\ UNCHANGED <<docker, seeds, there, files, bounds, history>>

-----------------------------------------------------------------------------
(* The phases of a run.                                                     *)

\* runPhase with an error: the phases that are left are skipped, bar the teardown.
Breaks(s, axes) == shell' = [shell EXCEPT ![s].pc = "teardown", ![s].axes = axes]
AfterUp(s) == IF shell[s].op = "start" THEN "stop" ELSE "seed"

\* docker compose up keeps what is there and makes the rest; the runner's container
\* mounts the result directory, so making it makes a missing directory, with no owner.
Up(s) ==
  /\ shell[s].pc = "up"
  /\ \E made \in {{}, {"networks"}, {"networks", "volumes"}, Classes} :
       /\ docker' = [c \in Classes |-> IF docker[c] = 0 /\ c \in made THEN Id(s) ELSE docker[c]]
       /\ there' = (there \/ (docker["containers"] = 0 /\ "containers" \in made))
       /\ IF made = Classes
          THEN Goes(s, AfterUp(s)) /\ UNCHANGED faults
          ELSE /\ Fault
               /\ IF shell[s].op = "start" THEN Ends(s) ELSE Breaks(s, FailedSetup)
  /\ UNCHANGED <<seeds, owner, files, given, crashes, history>>

StartEnds(s) ==
  /\ shell[s].pc = "stop" /\ Ends(s)
  /\ UNCHANGED <<docker, seeds, disk, bounds, history>>

\* The rest of the set-up needs the containers; the dataset must be the declared one.
Seed(s) ==
  /\ shell[s].pc = "seed"
  /\ \/ /\ docker["containers"] # 0 /\ docker["volumes"] # 0
        /\ seeds' = seeds \cup {Id(s)}
        /\ shell' = [shell EXCEPT ![s].pc = "warm-up", ![s].owns = TRUE]
        /\ UNCHANGED faults
     \/ /\ docker["containers"] = 0 \/ docker["volumes"] = 0
        /\ Breaks(s, FailedSetup) /\ UNCHANGED <<seeds, faults>>
     \/ Fault /\ Breaks(s, FailedSetup) /\ UNCHANGED seeds
  /\ UNCHANGED <<docker, disk, given, crashes, history>>

WarmUp(s) ==
  /\ shell[s].pc = "warm-up"
  /\ \/ docker["containers"] # 0 /\ Goes(s, "window") /\ UNCHANGED faults
     \/ docker["containers"] = 0 /\ Breaks(s, FailedSetup) /\ UNCHANGED faults
     \/ Fault /\ Breaks(s, FailedSetup)
  /\ UNCHANGED <<docker, seeds, disk, given, crashes, history>>

Ids(names) == {<<n, files[n].by>> : n \in names}
Present == {n \in Names : files[n].by # 0}
File(s, axes, of) == [by |-> Id(s), axes |-> axes, of |-> of]

\* writeFileSync with wx, and the directory made anew if it must be.
Writes(name, file, mkdir) ==
  /\ there \/ mkdir
  /\ files[name].by = 0
  /\ files' = [files EXCEPT ![name] = file] /\ there' = TRUE
Refused(name, mkdir) == (~there /\ ~mkdir) \/ files[name].by # 0

\* Mutant: a measurement that fails keeps the outcome that the run began with.
LosesKept(s, sampling) ==
  shell' = [shell EXCEPT ![s].pc = "teardown", ![s].axes = Measured, ![s].sampling = sampling]

Loses(s, sampling) ==
  shell' = [shell EXCEPT ![s].pc = "teardown", ![s].axes = NotRun, ![s].sampling = sampling]
NextRaw == [window |-> "workload", workload |-> "observed", observed |-> "teardown"]

\* observation.start, the workload and observation.finalize, each of which leaves
\* a file; the workload's does not make the directory.  The sampler that the first
\* has started is stopped by the last alone.
Measure(s) ==
  LET name == shell[s].pc
      mkdir == name # "workload"
  IN
  /\ name \in Raw
  /\ \/ /\ docker["containers"] # 0
        /\ Writes(name, File(s, NotRun, {}), mkdir)
        /\ shell' = [shell EXCEPT ![s].pc = NextRaw[name],
                       ![s].axes = IF name = "observed" THEN Measured ELSE @]
        /\ measured' = IF name = "observed" THEN measured \cup {Id(s)} ELSE measured
        /\ UNCHANGED faults
     \/ /\ docker["containers"] = 0 \/ Refused(name, mkdir)
        /\ Loses(s, name = "workload" \/ (name = "window" /\ docker["containers"] # 0))
        /\ UNCHANGED <<files, there, faults, measured>>
     \/ Fault /\ Loses(s, name = "workload") /\ UNCHANGED <<files, there, measured>>
  /\ UNCHANGED <<docker, seeds, owner, given, crashes, swept, pulled, byHand>>

-----------------------------------------------------------------------------
(* cleanupPreview and cleanup, of an operator and of teardownOwnedRun.      *)

View == [containers |-> docker["containers"], networks |-> docker["networks"],
         volumes |-> docker["volumes"] # 0, directory |-> there /\ owner # 0]
NoTargets(view) == view.containers = 0 /\ view.networks = 0 /\ ~view.volumes
Tearing(s) == shell[s].op = "execute"

\* The teardown of a run that owns nothing, or finds nothing, is complete.
Teardown(s) ==
  /\ shell[s].pc = "teardown"
  /\ shell' = [shell EXCEPT ![s] =
       IF ~shell[s].owns \/ NoTargets(View) THEN [@ EXCEPT !.pc = "mkfinal", !.clean = TRUE]
       ELSE [@ EXCEPT !.pc = "confirm", !.seen = View]]
  /\ UNCHANGED <<docker, seeds, disk, bounds, history>>

Preview(s) ==
  /\ shell[s].pc = "preview"
  /\ shell' = [shell EXCEPT ![s].pc = "confirm", ![s].seen = View]
  /\ UNCHANGED <<docker, seeds, disk, bounds, history>>

\* An error in the clean-up ends a command, and the teardown of a run without success.
GivesUp(s) == IF Tearing(s) THEN Goes(s, "mkfinal") ELSE Ends(s)

\* The digest of the target set of now against the one of the preview.
Confirm(s) ==
  /\ shell[s].pc = "confirm"
  /\ IF View = shell[s].seen THEN Goes(s, "containers") ELSE GivesUp(s)
  /\ UNCHANGED <<docker, seeds, disk, bounds, history>>

AfterClass == [containers |-> "networks", networks |-> "volumes", volumes |-> "directory"]
Target(s, class) == IF class = "volumes" THEN shell[s].seen.volumes ELSE shell[s].seen[class] # 0
Finds(s, class) ==
  /\ docker[class] # 0
  /\ class # "volumes" => docker[class] = shell[s].seen[class]
  /\ class # "containers" => docker["containers"] = 0
Pulls(s) == ~Tearing(s) /\ \E t \in Shells : Running(t)

Remove(s) ==
  LET class == shell[s].pc IN
  /\ class \in Classes
  /\ \/ /\ ~Target(s, class)
        /\ Goes(s, AfterClass[class]) /\ UNCHANGED <<docker, seeds, faults, pulled>>
     \/ /\ Target(s, class) /\ Finds(s, class)
        /\ docker' = [docker EXCEPT ![class] = 0]
        /\ seeds' = IF class = "volumes" THEN {} ELSE seeds
        /\ pulled' = (pulled \/ Pulls(s))
        /\ Goes(s, AfterClass[class]) /\ UNCHANGED faults
     \/ /\ Target(s, class) /\ ~Finds(s, class)
        /\ GivesUp(s) /\ UNCHANGED <<docker, seeds, faults, pulled>>
     \/ /\ Target(s, class) /\ Fault
        /\ GivesUp(s) /\ UNCHANGED <<docker, seeds, pulled>>
  /\ UNCHANGED <<disk, given, crashes, measured, swept, byHand>>

\* The directory goes last, if it is owned; a run keeps its own.
RemoveDirectory(s) ==
  /\ shell[s].pc = "directory"
  /\ IF Tearing(s)
     THEN /\ shell' = [shell EXCEPT ![s].pc = "mkfinal", ![s].clean = TRUE]
          /\ UNCHANGED <<disk, pulled>>
     ELSE /\ Ends(s)
          /\ IF shell[s].seen.directory /\ there /\ owner # 0
             THEN /\ there' = FALSE /\ owner' = 0 /\ files' = EmptyDisk
                  /\ pulled' = (pulled \/ Pulls(s) \/ docker["volumes"] # 0)
             ELSE UNCHANGED <<disk, pulled>>
  /\ UNCHANGED <<docker, seeds, bounds, measured, swept, byHand>>

-----------------------------------------------------------------------------
(* finalizeRunArtifacts: one file after another, none of them written over. *)

MakeFinal(s) ==
  /\ shell[s].pc = "mkfinal"
  /\ there' = TRUE /\ Goes(s, "status")
  /\ UNCHANGED <<docker, seeds, owner, files, bounds, history>>

AfterName(axes) == [status |-> "manifest", manifest |-> "sources",
  sources |-> IF axes = Measured THEN "report" ELSE "bundle",
  report |-> "bundle", bundle |-> "COMPLETED", COMPLETED |-> "over"]

\* A list is as good as what it lists.
Intact(name) == \A m \in files[name].of : files[m[1]].by = m[2]
\* verifySourceInventory, and bundleEntries, which wants the report as well.
SourcesHold == files["sources"].by # 0 /\ files["sources"].of # {} /\ Intact("sources")
Bundled == {"sources", "report"} \cup {m[1] : m \in files["sources"].of}

\* The lists that are written, and what the command remembers of them.
Lists(s, name) ==
  CASE name = "sources" -> Ids(Present \ {"bundle", "COMPLETED"})
    [] name = "report"  -> {<<"sources", Id(s)>>}
    [] name = "bundle"  -> IF shell[s].axes = Measured THEN Ids(Bundled)
                           ELSE shell[s].kept \cup {<<"sources", Id(s)>>}
    [] name = "COMPLETED" -> {<<"sources", Id(s)>>, <<"bundle", Id(s)>>}
    [] OTHER            -> {}
Ready(s, name) ==
  CASE name = "report" -> files["sources"].by = Id(s) /\ SourcesHold
    [] name = "bundle" -> shell[s].axes = Measured => Bundled \subseteq Present
    [] OTHER           -> TRUE

\* The process outlives its command for as long as the sampler runs.
Over(s) == IF shell[s].sampling THEN Goes(s, "hangs") ELSE Ends(s)

WriteFinal(s) ==
  LET name == shell[s].pc
      next == AfterName(shell[s].axes)[name]
  IN
  /\ shell[s].op = "execute"
  /\ name \in Names \ Raw
  /\ IF there /\ files[name].by = 0 /\ Ready(s, name)
     THEN /\ Writes(name, File(s, shell[s].axes, Lists(s, name)), FALSE)
          /\ swept' = IF name = "status" /\ shell[s].clean THEN swept \cup {Id(s)} ELSE swept
          /\ IF next = "over" THEN Over(s)
             ELSE shell' = [shell EXCEPT ![s].pc = next,
                              ![s].kept = IF name = "sources" THEN Lists(s, name) ELSE @]
     ELSE Over(s) /\ UNCHANGED <<files, there, swept>>
  /\ UNCHANGED <<docker, seeds, owner, bounds, measured, pulled, byHand>>

(* The same by hand, with the status that the command line takes for granted. *)

ByHand(s, name, of) ==
  /\ Writes(name, File(s, Measured, of), FALSE)
  /\ byHand' = TRUE
HandOnly == UNCHANGED <<docker, seeds, owner, bounds, measured, swept, pulled>>

\* buildSourceInventory, given the files that are there.
Provenance(s) ==
  LET sources == Present \ {"sources", "report", "bundle", "COMPLETED"} IN
  /\ shell[s].op = "provenance" /\ shell[s].pc = "write" /\ Ends(s)
  /\ IF there /\ files["sources"].by = 0 /\ sources # {}
     THEN ByHand(s, "sources", Ids(sources)) ELSE UNCHANGED <<files, there, byHand>>
  /\ HandOnly

Derive(s) ==
  /\ shell[s].op = "derive" /\ shell[s].pc = "write" /\ Ends(s)
  /\ IF there /\ files["report"].by = 0 /\ SourcesHold
     THEN ByHand(s, "report", Ids({"sources"})) ELSE UNCHANGED <<files, there, byHand>>
  /\ HandOnly

\* finalizeRun writes the bundle, then the marker.
Finalize(s) ==
  /\ shell[s].op = "finalize"
  /\ \/ /\ shell[s].pc = "bundle"
        /\ IF there /\ files["bundle"].by = 0 /\ SourcesHold /\ Bundled \subseteq Present
           THEN /\ ByHand(s, "bundle", Ids(Bundled))
                /\ shell' = [shell EXCEPT ![s].pc = "COMPLETED", ![s].kept = Ids({"sources"})]
           ELSE Ends(s) /\ UNCHANGED <<files, there, byHand>>
     \/ /\ shell[s].pc = "COMPLETED" /\ Ends(s)
        /\ IF there /\ files["COMPLETED"].by = 0
           THEN ByHand(s, "COMPLETED", shell[s].kept \cup {<<"bundle", Id(s)>>})
           ELSE UNCHANGED <<files, there, byHand>>
  /\ HandOnly

\* A command dies; what it has made stays.
Crash(s) ==
  /\ shell[s].pc # "idle" /\ crashes < MaxCrashes /\ crashes' = crashes + 1
  /\ Ends(s)
  /\ UNCHANGED <<docker, seeds, disk, given, faults, history>>

-----------------------------------------------------------------------------

Next ==
  \E s \in Shells :
    \/ \E op \in DOMAIN Start : Command(s, op)
    \/ Fresh(s) \/ Make(s) \/ Mkdir(s) \/ Own(s)
    \/ Up(s) \/ StartEnds(s) \/ Seed(s) \/ WarmUp(s) \/ Measure(s)
    \/ Teardown(s) \/ Preview(s) \/ Confirm(s) \/ Remove(s) \/ RemoveDirectory(s)
    \/ MakeFinal(s) \/ WriteFinal(s)
    \/ Provenance(s) \/ Derive(s) \/ Finalize(s)
    \/ Crash(s)

Spec == Init /\ [][Next]_vars

-----------------------------------------------------------------------------
(* validateRunArtifacts, as far as PUBLISHABLE.                             *)

Links(name, other) == <<other, files[other].by>> \in files[name].of

Publishable ==
  /\ there /\ files["COMPLETED"].by # 0 /\ files["COMPLETED"].axes.artifact = "COMPLETED"
  /\ \A n \in {"sources", "report", "bundle"} : files[n].by # 0 /\ Intact(n)
  /\ Links("COMPLETED", "sources") /\ Links("COMPLETED", "bundle")
  /\ Links("bundle", "sources") /\ Links("bundle", "report") /\ Links("report", "sources")
  /\ files["sources"].of \subseteq files["bundle"].of
  /\ files["report"].axes = files["COMPLETED"].axes

-----------------------------------------------------------------------------
(* Properties.                                                              *)

\* Every variable keeps its shape.
TypeOK ==
  /\ docker \in [Classes -> 0 .. MaxCommands] /\ seeds \subseteq Commands
  /\ there \in BOOLEAN /\ owner \in 0 .. MaxCommands
  /\ \A n \in Names :
       /\ files[n].by \in 0 .. MaxCommands /\ files[n].axes \in Axes
       /\ files[n].of \subseteq Names \X Commands
  /\ given \in 0 .. MaxCommands /\ crashes \in 0 .. MaxCrashes /\ faults \in 0 .. MaxFaults
  /\ measured \subseteq Commands /\ swept \subseteq Commands
  /\ pulled \in BOOLEAN /\ byHand \in BOOLEAN

\* Evidence that validates as publishable is the work of one run, which was
\* measured, on data that no other run had seeded, and lists what it measured - as
\* long as no operator wrote evidence by hand, and none cleaned up under it.
PublishedIsMeasured ==
  Publishable /\ ~byHand /\ ~pulled =>
    /\ owner \in measured
    /\ \A n \in Names : files[n].by = owner
    /\ \A n \in Raw : <<n, owner>> \in files["sources"].of

\* Two runs never work at one identity, and the volumes hold the seeds of the one
\* that does, unless one was cleaned up while it worked, or the clean-up took its
\* directory and left its volumes, which it had not seen.
OneRun ==
  ~pulled =>
    /\ \A s, t \in Shells : Running(s) /\ Running(t) => s = t
    /\ \A s \in Shells : Running(s) => seeds \subseteq {Id(s)} /\ owner = Id(s)

\* A run whose evidence calls its clean-up complete has left nothing in Docker.
NothingLeft ==
  \A r \in swept : \A c \in Classes : docker[c] # r
=============================================================================
