-------------------------- MODULE SocketConcurrency --------------------------
(***************************************************************************)
(* The socket-concurrency workload of scripts/k4/runner: all sockets of    *)
(* the profile are opened at once and each has one time for its handshake. *)
(* When every attempt has an outcome and every socket is connected, the    *)
(* target is reached; it must then hold through a settling period and      *)
(* through the plateau that is measured.  Only then does the result claim  *)
(* the concurrency.  Nothing reconnects.                                   *)
(***************************************************************************)
EXTENDS FiniteSets

CONSTANT Attempts   \* the sockets the profile's actors are allocated

VARIABLES
  socket,   \* what each socket of the client is: "missing" if it could not be made
  record,   \* what the runner notes of each attempt
  phase,    \* where executeSocketConcurrency is
  report,   \* what it returns
  steady    \* history: sockets that connected in time and have not been lost since

vars == <<socket, record, phase, report, steady>>

NewRecord == [outcome |-> "none", lost |-> FALSE]
NoReport == [reached |-> FALSE, admitted |-> FALSE, held |-> FALSE, shortfall |-> FALSE]

\* createSocket throws for some of them: these attempts have failed already.
Init ==
  /\ socket \in [Attempts -> {"connecting", "missing"}]
  /\ record = [i \in Attempts |->
       IF socket[i] = "missing" THEN [NewRecord EXCEPT !.outcome = "handshake_failure"]
       ELSE NewRecord]
  /\ phase = "ramp" /\ report = NoReport /\ steady = {}

-----------------------------------------------------------------------------
(* The attempts.  What follows the last outcome runs before any other event *)
(* of a socket, in the callbacks of promises.                               *)

Unsettled(i) == record[i].outcome = "none"
Awaits == \/ phase = "ramp" /\ \E i \in Attempts : Unsettled(i)
          \/ phase \in {"settling", "plateau"}

\* Mutant: a socket that connects after its time counts all the same.
OpenForLate(i) == TRUE
\* finishHandshake: the first outcome stands.
OpenFor(i) == Unsettled(i)

Settle(i, outcome) ==
  record' = IF OpenFor(i) THEN [record EXCEPT ![i].outcome = outcome] ELSE record

\* A connection that comes after the time is closed again.
Connect(i) ==
  /\ Awaits /\ socket[i] = "connecting"
  /\ socket' = [socket EXCEPT ![i] = IF OpenFor(i) THEN "connected" ELSE "closed"]
  /\ steady' = IF Unsettled(i) THEN steady \cup {i} ELSE steady
  /\ Settle(i, "authenticated")
  /\ UNCHANGED <<phase, report>>

ConnectError(i) ==
  /\ Awaits /\ socket[i] = "connecting"
  /\ socket' = [socket EXCEPT ![i] = "closed"]
  /\ Settle(i, "handshake_failure")
  /\ UNCHANGED <<phase, report, steady>>

HandshakeTimeout(i) ==
  /\ Awaits /\ socket[i] = "connecting" /\ Unsettled(i)
  /\ Settle(i, "handshake_timeout")
  /\ UNCHANGED <<socket, phase, report, steady>>

\* A disconnection nobody asked for is noted against an authenticated attempt.
Disconnect(i) ==
  /\ Awaits /\ socket[i] = "connected"
  /\ socket' = [socket EXCEPT ![i] = "closed"]
  /\ record' = [record EXCEPT ![i].lost = record[i].outcome = "authenticated"]
  /\ steady' = steady \ {i}
  /\ UNCHANGED <<phase, report>>

-----------------------------------------------------------------------------
(* executeSocketConcurrency.                                                *)

Active == {i \in Attempts : socket[i] = "connected"}
Authenticated == {i \in Attempts : record[i].outcome = "authenticated"}
\* lifecycleEvidence: stability.
Stable == \A i \in Attempts : ~record[i].lost

\* Mutant: the sockets that count are the only ones that are closed.
TornDownAuthenticated(i) ==
  IF i \in Authenticated THEN "closed" ELSE socket[i]
\* disconnectAll: of every attempt, whatever its outcome.
TornDown(i) == IF socket[i] = "missing" THEN "missing" ELSE "closed"

Return(r) ==
  /\ phase' = "done" /\ report' = r
  /\ socket' = [i \in Attempts |-> TornDown(i)]

RampEnds ==
  /\ phase = "ramp" /\ \A i \in Attempts : ~Unsettled(i)
  /\ IF Active = Attempts /\ Authenticated = Attempts
     THEN phase' = "settling" /\ UNCHANGED <<socket, report>>
     ELSE Return([NoReport EXCEPT !.shortfall = TRUE])
  /\ UNCHANGED <<record, steady>>

SettlingEnds ==
  /\ phase = "settling"
  /\ IF Active = Attempts /\ Stable
     THEN phase' = "plateau" /\ UNCHANGED <<socket, report>>
     ELSE Return([NoReport EXCEPT !.reached = TRUE, !.shortfall = TRUE])
  /\ UNCHANGED <<record, steady>>

PlateauEnds ==
  /\ phase = "plateau"
  /\ Return([NoReport EXCEPT !.reached = TRUE, !.admitted = TRUE,
                             !.held = Active = Attempts /\ Stable])
  /\ UNCHANGED <<record, steady>>

\* claimEvidenceFromMeasurement: what the observer makes of the result.
Claims == report.reached /\ report.admitted /\ report.held /\ ~report.shortfall

Next ==
  \/ \E i \in Attempts : Connect(i) \/ ConnectError(i) \/ HandshakeTimeout(i) \/ Disconnect(i)
  \/ RampEnds \/ SettlingEnds \/ PlateauEnds

Spec == Init /\ [][Next]_vars

-----------------------------------------------------------------------------
(* Properties.                                                              *)

Outcomes == {"none", "authenticated", "handshake_failure", "handshake_timeout"}
\* Every variable keeps its shape.
TypeOK ==
  /\ socket \in [Attempts -> {"missing", "connecting", "connected", "closed"}]
  /\ record \in [Attempts -> [outcome : Outcomes, lost : BOOLEAN]]
  /\ phase \in {"ramp", "settling", "plateau", "done"}
  /\ report \in [reached : BOOLEAN, admitted : BOOLEAN, held : BOOLEAN, shortfall : BOOLEAN]
  /\ steady \subseteq Attempts

\* The concurrency is claimed exactly when every socket connected within its time
\* and stayed connected until the plateau ended, with no gap before the target was
\* reached or between the periods; and a finished run leaves no socket open, none of
\* those that timed out either (openSocketAttempt, disconnectAll).
ConcurrencyEarned ==
  phase = "done" =>
    /\ Claims => steady = Attempts
    /\ steady = Attempts => Claims
    /\ \A i \in Attempts : socket[i] \notin {"connecting", "connected"}
=============================================================================
