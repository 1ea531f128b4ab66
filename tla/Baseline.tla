------------------------------ MODULE Baseline ------------------------------
(***************************************************************************)
(* The baseline campaigns of scripts/k4: execute-baseline runs one cell    *)
(* after another, each domain on one replica and then on several, judges   *)
(* the matrix of what they retained, reports which claims each cell has    *)
(* earned, and opens the dossier of a bottleneck to a human only when all  *)
(* of it stands.  Campaigns under one prefix give a cell's run the same    *)
(* identity, hence the same result directory, and an operator may clean a  *)
(* run up between any two of their steps.  What happens within the run of  *)
(* a cell is BenchmarkRun's matter; here it is opened, and then retained   *)
(* or lost.  The claims are the ones of the sidebar's cells.               *)
(***************************************************************************)
EXTENDS Integers, FiniteSets

CONSTANTS
  Campaigns,   \* executions of execute-baseline under one prefix
  Domains,     \* the number of domains measured
  MaxTroubles  \* runs that are not what they should be, and cleanups

ASSUME BaselineAssumption == Domains \in Nat \ {0} /\ MaxTroubles \in Nat

VARIABLES
  disk,     \* the result directory of each cell's run
  chain,    \* each campaign
  troubles  \* what the bound counts

vars == <<disk, chain, troubles>>

\* createBaselineMatrix: the cells in their order.
Cells == 1 .. 2 * Domains
Several(i) == i % 2 = 0
Pairs == {<<i, i + 1>> : i \in {j \in Cells : ~Several(j)}}
Claims == {"latency", "multiReplica", "resource", "bottleneck"}
Flags == {"OBSERVATION_INCOMPLETE", "TOPOLOGY_NOT_EXERCISED", "LOAD_GENERATOR_LIMITED"}

\* What a run retains: whose it is, its outcome, the profile, dataset and
\* configuration it ran on, what its provenance lacks, and its clean-up.
Run(outcome, setting, complete, flags, safe) ==
  [by |-> "none", outcome |-> outcome, setting |-> setting, complete |-> complete,
   flags |-> flags, safe |-> safe]
Absent == Run("none", 1, FALSE, {}, FALSE)
Sound == Run("MEASURED", 1, TRUE, {}, TRUE)
Unsound ==
  {Run("MEASURED", 2, TRUE, {}, TRUE), Run("MEASURED", 1, FALSE, {}, TRUE),
   Run("MEASURED", 1, FALSE, {"OBSERVATION_INCOMPLETE"}, TRUE),
   Run("NOT_RUN", 1, TRUE, {}, TRUE)}
    \cup {Run("MEASURED", 1, TRUE, {f}, TRUE) : f \in Flags}
    \cup {Run("FAILED_SETUP", 1, TRUE, {}, safe) : safe \in BOOLEAN}

\* A cell's record: kept in its directory, thrown, or unavailable.
Thrown == [kind |-> "thrown", run |-> Absent]
Unavailable == [kind |-> "unavailable", run |-> Absent]
Kept(run) == [kind |-> "kept", run |-> run]

NoReport == [claims |-> {}, of |-> [i \in Cells |-> "none"]]
Idle == [pc |-> "idle", at |-> 1, cells |-> [i \in Cells |-> Thrown], several |-> TRUE,
         scoped |-> TRUE, valid |-> FALSE, report |-> NoReport,
         status |-> "BLOCKED", cell |-> 1, claim |-> "latency"]

Init ==
  /\ disk = [i \in Cells |-> Absent]
  /\ chain = [c \in Campaigns |-> Idle]
  /\ troubles = 0

Trouble == troubles < MaxTroubles /\ troubles' = troubles + 1

\* What an operator says of the topology and of the history in the command.
Begin(c) ==
  /\ chain[c].pc = "idle"
  /\ \E several, scoped \in BOOLEAN :
       /\ chain' = [chain EXCEPT ![c].pc = "admit", ![c].several = several, ![c].scoped = scoped]
       /\ IF several /\ scoped THEN UNCHANGED troubles ELSE Trouble
  /\ UNCHANGED disk

-----------------------------------------------------------------------------
(* runBaselineMatrix.                                                       *)

Records(c, record) ==
  LET i == chain[c].at IN
  chain' = [chain EXCEPT ![c].cells[i] = record, ![c].at = i + 1,
              ![c].pc = IF i + 1 \in Cells THEN "admit" ELSE "judge"]

Admits(i) == disk[i].by = "none"

Admit(c) ==
  LET i == chain[c].at IN
  /\ chain[c].pc = "admit"
  /\ \/ /\ Several(i) /\ ~chain[c].several
        /\ Records(c, Unavailable) /\ UNCHANGED disk
     \/ /\ Several(i) => chain[c].several
        /\ ~Admits(i)
        /\ Records(c, Thrown) /\ UNCHANGED disk
     \/ /\ Several(i) => chain[c].several
        /\ Admits(i)
        /\ disk' = [disk EXCEPT ![i] = [Absent EXCEPT !.by = c]]
        /\ chain' = [chain EXCEPT ![c].pc = "run"]
  /\ UNCHANGED troubles

\* The run ends with its evidence retained, or with an error.
Retain(c) ==
  LET i == chain[c].at IN
  /\ chain[c].pc = "run"
  /\ \/ \E run \in {Sound} \cup Unsound :
          /\ disk' = [disk EXCEPT ![i] = [run EXCEPT !.by = c]]
          /\ Records(c, Kept([run EXCEPT !.by = c]))
          /\ IF run = Sound THEN UNCHANGED troubles ELSE Trouble
     \/ Trouble /\ Records(c, Thrown) /\ UNCHANGED disk

\* An operator cleans up a run that no campaign is at.
Clean(i) ==
  /\ disk[i].by # "none" /\ Trouble
  /\ \A c \in Campaigns : chain[c].pc = "run" => chain[c].at # i
  /\ disk' = [disk EXCEPT ![i] = Absent] /\ UNCHANGED chain

-----------------------------------------------------------------------------
(* Judgement: every step reads the retained runs from the disk again.       *)

\* Mutant: the identity of the run is enough.
CanonicalById(i, record) == disk[i].outcome # "none"

\* canonicalRetainedRecord: what the campaign holds is what the directory holds.
Canonical(i, record) == disk[i] = record.run

WellKept(run) ==
  \/ run.outcome = "MEASURED"
  \/ run.outcome = "FAILED_SETUP" /\ run.safe

\* validateBaselineCell, apart from the provenance of what was measured.
Lawful(i, record) ==
  \/ record.kind = "unavailable"
  \/ record.kind = "kept" /\ Canonical(i, record) /\ WellKept(record.run)
ValidCell(i, record) ==
  Lawful(i, record) /\ (record.run.outcome = "MEASURED" => record.run.complete)
IsMeasured(record) == record.kind = "kept" /\ record.run.outcome = "MEASURED"

\* profilePairDiagnostics
Comparable(cells, pair) ==
  (\A i \in {pair[1], pair[2]} : IsMeasured(cells[i]))
    => cells[pair[1]].run.setting = cells[pair[2]].run.setting

ValidMatrix(cells) ==
  /\ \A i \in Cells : ValidCell(i, cells[i])
  /\ \A pair \in Pairs : Comparable(cells, pair)

Judge(c) ==
  /\ chain[c].pc = "judge"
  /\ chain' = [chain EXCEPT ![c].pc = "report", ![c].valid = ValidMatrix(chain[c].cells)]
  /\ UNCHANGED <<disk, troubles>>

\* claimEligibilityForCell: what an observer missed does not touch what is seen
\* from outside.
Eligible(i, record, claim) ==
  LET flags == record.run.flags IN
  /\ IsMeasured(record)
  /\ \/ ValidCell(i, record)
     \/ claim = "latency" /\ "OBSERVATION_INCOMPLETE" \in flags /\ Lawful(i, record)
  /\ claim = "multiReplica" => Several(i) /\ "TOPOLOGY_NOT_EXERCISED" \notin flags
  /\ claim \in {"resource", "bottleneck"} => "OBSERVATION_INCOMPLETE" \notin flags
  /\ claim = "bottleneck" => "LOAD_GENERATOR_LIMITED" \notin flags

\* buildBaselineReport: the claims, and whose digests the cells carry.
Report(c) ==
  LET cells == chain[c].cells
      earned == {p \in Cells \X Claims : Eligible(p[1], cells[p[1]], p[2])}
      digests == [i \in Cells |-> IF cells[i].kind = "kept" THEN disk[i].by ELSE "none"]
  IN
  /\ chain[c].pc = "report"
  /\ chain' = [chain EXCEPT ![c].pc = "dossier",
                 ![c].report = [claims |-> earned, of |-> digests]]
  /\ UNCHANGED <<disk, troubles>>

\* gateInputDiagnostics, over the matrix as it is now.
Gate(c) ==
  /\ chain[c].valid /\ ValidMatrix(chain[c].cells) /\ chain[c].scoped
  /\ \E i \in Cells : chain[c].report.of[i] # "none"

\* buildBottleneckDossier, for a candidate that quotes the digests of one campaign's
\* run; without an eligible candidate and its one treatment it stays blocked.
Dossier(c) ==
  /\ chain[c].pc = "dossier"
  /\ \E i \in Cells, claim \in Claims, quoted \in Campaigns :
       LET ready == /\ Gate(c) /\ <<i, claim>> \in chain[c].report.claims
                    /\ quoted = chain[c].report.of[i]
       IN chain' = [chain EXCEPT ![c] = [Idle EXCEPT !.pc = "done", !.cells = chain[c].cells,
                      !.cell = IF ready THEN i ELSE 1,
                      !.claim = IF ready THEN claim ELSE "latency",
                      !.status = IF ready THEN "READY_FOR_HUMAN_GATE" ELSE "BLOCKED"]]
  /\ UNCHANGED <<disk, troubles>>

Next ==
  \/ \E c \in Campaigns :
       Begin(c) \/ Admit(c) \/ Retain(c) \/ Judge(c) \/ Report(c) \/ Dossier(c)
  \/ \E i \in Cells : Clean(i)

Spec == Init /\ [][Next]_vars

-----------------------------------------------------------------------------
(* Properties.                                                              *)

Runs == [by : Campaigns \cup {"none"}, outcome : {"none", "MEASURED", "NOT_RUN", "FAILED_SETUP"},
         setting : 1 .. 2, complete : BOOLEAN, flags : SUBSET Flags, safe : BOOLEAN]

\* Every variable keeps its shape.
TypeOK ==
  /\ disk \in [Cells -> Runs] /\ troubles \in 0 .. MaxTroubles
  /\ \A c \in Campaigns :
       /\ chain[c].pc \in {"idle", "admit", "run", "judge", "report", "dossier", "done"}
       /\ \A i \in Cells : chain[c].cells[i].run \in Runs
       /\ chain[c].report.claims \subseteq Cells \X Claims

\* A dossier that opens to a human rests on a whole matrix of the campaign's own
\* runs, all of them still on the disk at that moment and comparable in pairs, and
\* its candidate's cell was measured, free of the flags that bar its claim.
Earned(c) ==
  LET cells == chain'[c].cells
      run == disk[chain'[c].cell].flags
  IN
  /\ \A i \in Cells : cells[i].kind = "kept" =>
       disk[i].by = c /\ disk[i].outcome \in {"MEASURED", "FAILED_SETUP"}
  /\ \A i \in Cells : cells[i].kind # "thrown" /\ (cells[i].kind = "unavailable" => Several(i))
  /\ \A p \in Pairs :
       (\A i \in {p[1], p[2]} : cells[i].kind = "kept" /\ disk[i].outcome = "MEASURED")
         => disk[p[1]].setting = disk[p[2]].setting
  /\ disk[chain'[c].cell].outcome = "MEASURED" /\ disk[chain'[c].cell].complete
  /\ chain'[c].claim = "bottleneck" => run \cap (Flags \ {"TOPOLOGY_NOT_EXERCISED"}) = {}
  /\ chain'[c].claim = "multiReplica" => "TOPOLOGY_NOT_EXERCISED" \notin run
ReadyIsEarned ==
  [][\A c \in Campaigns :
       chain'[c].status = "READY_FOR_HUMAN_GATE" /\ chain[c].status # chain'[c].status
         => Earned(c)]_vars
=============================================================================
