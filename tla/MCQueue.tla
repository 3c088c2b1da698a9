------------------------------- MODULE MCQueue --------------------------------
(* One candidate and two processes, for checking CprQueue: p1 starts sessions   *)
(* and takes hops, p2 runs cycles, takes hops and lands verdicts.               *)
EXTENDS CprQueue

CONSTANTS i1, p1, p2
=============================================================================
