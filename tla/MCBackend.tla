------------------------------ MODULE MCBackend ------------------------------
(* The admission script and the two parts of the server of MCServer, in one  *)
(* run.  A behaviour is one of one of the three: the variables of the        *)
(* limiter keep their initial values meanwhile, those of the others are Off. *)
EXTENDS MCRateLimiter, MCServer

BackendInit ==
  /\ Init
  /\ \/ ServerInit
     \/ part = "limiter" /\ NoConversations /\ NoUploads
BackendNext ==
  \/ part = "limiter" /\ Next /\ UNCHANGED <<part, convVars, uploadVars>>
  \/ ServerNext /\ UNCHANGED vars
BackendSpec == BackendInit /\ [][BackendNext]_<<part, vars, convVars, uploadVars>>

\* The logical calls bear the names of the handlers of the read model: no
\* behaviour has both, so Symmetry permutes the one or the other.
MCAttempts == MCTasks
=============================================================================
