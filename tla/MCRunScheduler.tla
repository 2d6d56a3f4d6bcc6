--------------------------- MODULE MCRunScheduler ---------------------------
(* Small instances of RunScheduler: which worker may take which run, and   *)
(* how many at once.                                                       *)
EXTENDS RunScheduler, TLC

MCMatches   == Workers \X Runs
MCCapacity  == [w \in Workers |-> 1]
Symmetry    == Permutations(Drainers)
=============================================================================
