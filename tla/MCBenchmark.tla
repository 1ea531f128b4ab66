----------------------------- MODULE MCBenchmark -----------------------------
(* One run of the benchmark with its evidence, the campaign that judges the *)
(* evidence of many, and two of the workloads of a run.  A behaviour is one *)
(* of one of them; the variables of the others do not change, and those of  *)
(* the workloads are Off.                                                   *)
EXTENDS Baseline, TLC

CONSTANTS c1, c2, Shells, MaxCommands, MaxCrashes, MaxFaults, s1, s2,
          Attempts, Slots, MaxLost, Off

VARIABLES part, docker, seeds, there, owner, files, shell, given, crashes, faults,
          measured, swept, pulled, byHand,
          socket, record, phase, report, steady,
          fixture, stage, link, next, op, sent, air, lost, result, received, answered

runVars == <<docker, seeds, there, owner, files, shell, given, crashes, faults,
             measured, swept, pulled, byHand>>
socketVars == <<socket, record, phase, report, steady>>
messageVars == <<fixture, stage, link, next, op, sent, air, lost, result, received, answered>>
R == INSTANCE BenchmarkRun
S == INSTANCE SocketConcurrency
W == INSTANCE MessageWorkload

ASSUME BenchmarkAssumption == {MaxCommands, MaxCrashes, MaxFaults} \subseteq Nat
ASSUME WorkloadAssumption == {Slots, MaxLost} \subseteq Nat

NoSockets ==
  socket = Off /\ record = Off /\ phase = Off /\ report = Off /\ steady = Off
NoMessages ==
  /\ fixture = Off /\ stage = Off /\ link = Off /\ next = Off /\ op = Off /\ sent = Off
  /\ air = Off /\ lost = Off /\ result = Off /\ received = Off /\ answered = Off

MCInit ==
  /\ Init /\ R!Init
  /\ \/ part \in {"campaign", "run"} /\ NoSockets /\ NoMessages
     \/ part = "sockets" /\ S!Init /\ NoMessages
     \/ part = "messages" /\ W!Init /\ NoSockets
MCNext ==
  \/ part = "campaign" /\ Next /\ UNCHANGED <<part, runVars, socketVars, messageVars>>
  \/ part = "run" /\ R!Next /\ UNCHANGED <<part, vars, socketVars, messageVars>>
  \/ part = "sockets" /\ S!Next /\ UNCHANGED <<part, vars, runVars, messageVars>>
  \/ part = "messages" /\ W!Next /\ UNCHANGED <<part, vars, runVars, socketVars>>
MCSpec == MCInit /\ [][MCNext]_<<part, vars, runVars, socketVars, messageVars>>

MCCampaigns == {c1, c2}
MCShells == {s1, s2}
Symmetry == Permutations(MCCampaigns) \cup Permutations(MCShells)

\* A bundle that can be published is one run's measurement on its own data,
\* but for evidence written by hand or a clean-up under the run.
PublishedIsMeasured == R!TypeOK /\ R!PublishedIsMeasured

\* Two runs never share the containers and volumes of the run id.
OneRun == R!OneRun

\* What a finished clean-up says is gone is gone.
NothingLeft == R!NothingLeft

\* What the two workloads return: a concurrency that held from the first moment
\* on, and deliveries that belong to the messages they are counted for.
WorkloadsHonest ==
  /\ part = "sockets" => S!TypeOK /\ S!ConcurrencyEarned
  /\ part = "messages" => W!TypeOK /\ W!DeliveriesCorrelated
=============================================================================
