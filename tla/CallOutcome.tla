---------------------------- MODULE CallOutcome ----------------------------
(***************************************************************************)
(* What the backend promises about the calls of a pair of users, seen from *)
(* the call history and the chat alone: a call rings, may be accepted,     *)
(* ends once for a reason that decides which outcomes it may have, and     *)
(* then shows that outcome in the chat.  Nothing is said here of sockets,  *)
(* replicas, timers or handlers; CallLifecycle implements it.              *)
(***************************************************************************)
CONSTANTS Calls, None

VARIABLES
  phase,  \* "none", "ringing", "accepted", or the outcome of an ended call
  by,     \* what ended it: a user, a disconnect, a timeout, the cleanup, glare
  shown   \* the outcome its call log message shows, or None

vars == <<phase, by, shown>>

Outcomes == {"completed", "missed", "rejected", "unreachable", "busy"}

Init ==
  /\ phase = [c \in Calls |-> "none"]
  /\ by = [c \in Calls |-> "none"]
  /\ shown = [c \in Calls |-> None]

Ring(c) ==
  /\ phase[c] = "none"
  /\ phase' = [phase EXCEPT ![c] = "ringing"]
  /\ UNCHANGED <<by, shown>>

Accept(c) ==
  /\ phase[c] = "ringing"
  /\ phase' = [phase EXCEPT ![c] = "accepted"]
  /\ UNCHANGED <<by, shown>>

(* The outcomes path p may give a call that is still in phase ph.          *)
Fits(ph, p, outcome) ==
  \/ p = "user" /\ outcome # "unreachable" /\ (outcome = "completed" => ph = "accepted")
  \/ p = "disconnect" /\ outcome = (IF ph = "accepted" THEN "completed" ELSE "rejected")
  \/ p = "timeout" /\ ph = "ringing" /\ outcome = "missed"
  \/ p = "cleanup" /\ outcome = "unreachable"

(* A call ends once: nothing but glare resolution touches it afterwards.   *)
End(c) ==
  /\ phase[c] \in {"ringing", "accepted"}
  /\ \E p \in {"user", "disconnect", "timeout", "cleanup"}, outcome \in Outcomes :
       /\ Fits(phase[c], p, outcome)
       /\ phase' = [phase EXCEPT ![c] = outcome]
       /\ by' = [by EXCEPT ![c] = p]
  /\ UNCHANGED shown

(* Of two calls that cross, the loser is a missed call, even when it ended *)
(* meanwhile.                                                              *)
Cross(c) ==
  /\ phase[c] # "none"
  /\ phase' = [phase EXCEPT ![c] = "missed"]
  /\ by' = [by EXCEPT ![c] = "glare"]
  /\ UNCHANGED shown

(* The call log message shows the outcome of a call that a user, a         *)
(* disconnect or a timeout ended; it may come after glare resolution has   *)
(* overridden the outcome it shows.                                        *)
Log(c) ==
  /\ by[c] \in {"user", "disconnect", "timeout", "glare"}
  /\ \E outcome \in Outcomes :
       /\ by[c] # "glare" => outcome = phase[c]
       /\ shown' = [shown EXCEPT ![c] = outcome]
  /\ UNCHANGED <<phase, by>>

Next == \E c \in Calls : Ring(c) \/ Accept(c) \/ End(c) \/ Cross(c) \/ Log(c)

Spec == Init /\ [][Next]_vars
=============================================================================
