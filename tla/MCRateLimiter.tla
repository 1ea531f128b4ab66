--------------------------- MODULE MCRateLimiter ---------------------------
(* The policies RateLimiter is checked with. *)
EXTENDS RateLimiter, TLC

CONSTANTS aggregate, panel, call

(* A route limited by a token bucket alone, one limited by the bucket and  *)
(* then by a window, and the window of the calls.                          *)
MCStages == {<<aggregate>>, <<aggregate, panel>>}
MCLimit == aggregate :> 3 @@ panel :> 2 @@ call :> 1
MCWindow == aggregate :> 5 @@ panel :> 3 @@ call :> 2
MCCapacity == aggregate :> 2
=============================================================================
