-------------------------- MODULE MCTripRepository --------------------------
(* A small instance of TripRepository: one trip that Mongo already holds   *)
(* at revision 1 and one that a client may create.                         *)
EXTENDS TripRepository, TLC

CONSTANTS t1, t2, a, b, z

MCPlanType == (a :> "MULTI_DAY") @@ (b :> "MULTI_DAY") @@ (z :> "SINGLE_DAY")

MCLegacy == t1 :> [revision |-> 1, snapshot |-> a]

ClientSymmetry == Permutations(Clients)
=============================================================================
