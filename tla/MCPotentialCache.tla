-------------------------- MODULE MCPotentialCache --------------------------
(* Instances of PotentialCache for TLC.                                    *)
EXTENDS PotentialCache, TLC

Config(pos, atm, box, n, cuh) ==
  [pos |-> pos, atm |-> atm, box |-> box, n |-> n, cuh |-> cuh]

\* Configurations that differ in one part each, none of whose positions are
\* the bytes of a box.
Separate == {Config("P", "CuH", "B", 2, TRUE),
             Config("R", "CuHH", "B", 3, TRUE),
             Config("Q", "CuH", "B", 2, TRUE),
             Config("P", "CuHe", "B", 2, FALSE)}

\* Three atoms: nine coordinates, as many as a box has.  The two share their
\* byte strings, with positions and box exchanged.
Exchanged == {Config("X", "CuHH", "Y", 3, TRUE),
              Config("Y", "CuHH", "X", 3, TRUE),
              Config("P", "CuH", "Y", 2, TRUE)}

\* CacheCorrect of PotentialCacheProofs applies to the first set.
ASSUME PartsApart \/ Configs = Exchanged

\* A potential of each class, named for it.
Mixed == [p \in Pots |-> p]
AllLJ == [p \in Pots |-> "LJ"]

\* The caches can be told apart by nothing but what happened to them.
CacheSymmetry == Permutations(Caches)
=============================================================================
