--------------------------- MODULE MCMatrixCache ---------------------------
(* Two places; requests of the kinds that meet: patches, enrichment and    *)
(* imports, and solvers whose places move.                                 *)
EXTENDS MatrixCache, TLC

CONSTANTS walk, transit, x, y, z, u1

MCItems ==
  {[url |-> u1, name |-> "a", address |-> None, gid |-> "other", coords |-> x],
   [url |-> u1, name |-> "a", address |-> None, gid |-> "other", coords |-> y],
   [url |-> None, name |-> "b", address |-> None, gid |-> "ChI", coords |-> y]}

MCCreates ==
  {[name |-> "b", address |-> None, coords |-> x, from |-> 9, to |-> None]}

MCPatches ==
  {[from |-> 14], [to |-> 12], [from |-> None], [from |-> 9, to |-> 16], [from |-> 14, to |-> None]}

\* Formatted address and location, or neither.
MCFound == {[address |-> "address", coords |-> z], [address |-> None, coords |-> None]}

MCTtl == walk :> 2 @@ transit :> 1

Kinds == {"import", "insert", "delete", "patch", "enrich", "batch", "solve", "invalidate", "tick"}
Budget(b) == [k \in Kinds |-> IF k \in DOMAIN b THEN b[k] ELSE 0]

\* Documents and requests of a kind are alike.
Alike == Permutations(Ids) \cup Permutations(Solvers) \cup Permutations(Patchers)

MCBudgets ==
  {Budget([insert |-> 1, import |-> 1, patch |-> 2, enrich |-> 1]),
   Budget([insert |-> 1, patch |-> 3, delete |-> 1]),
   Budget([import |-> 2, batch |-> 3, enrich |-> 1, tick |-> 2]),
   Budget([import |-> 3, solve |-> 2, tick |-> 1]),
   Budget([import |-> 2, solve |-> 2, tick |-> 3]),
   Budget([import |-> 2, solve |-> 2, invalidate |-> 1])}
=============================================================================
