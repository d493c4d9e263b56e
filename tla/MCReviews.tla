------------------------------ MODULE MCReviews -----------------------------
(* Three completed jobs of two customers.                                     *)
EXTENDS Reviews

MCEmailOf == [j \in Jobs |-> IF j < 3 THEN "ann" ELSE "bob"]

(* Bound: trouble, or a change of mode, comes only while bob has no job and   *)
(* there are two requests at most.                                            *)
MCNext == Next /\ (troubles' = 0 \/ (3 \notin complete' /\ Len(reqs') < 3))
MCSpec == Init /\ [][MCNext]_vars
=============================================================================
