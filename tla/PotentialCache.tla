--------------------------- MODULE PotentialCache ---------------------------
(***************************************************************************)
(* Potential<Derived>::operator() with its optional RocksDB cache:         *)
(* hashing the configuration, looking it up, computing on a miss and       *)
(* storing the result, over caches that fail to open, share a database,    *)
(* are handed a database of the client's, and outlive the process on disk. *)
(*                                                                         *)
(* XXH3 is taken as ideal: different byte strings have unrelated hashes.   *)
(* The XOR of such hashes is then the symmetric difference of the sets of  *)
(* byte strings, which is what a key is here.  The four byte strings of a  *)
(* key are the positions, the species, the box and the type.               *)
(***************************************************************************)
EXTENDS Naturals, FiniteSets

CONSTANTS Pots,       \* potential objects
          Kind,       \* the class of each: "LJ" or "CuH2"
          Caches,     \* PotentialCache objects
          Paths,      \* database directories
          Configs,    \* configurations
          CutoffUs,   \* values the member cuttOffU may be found to have
          MaxCalls,   \* bound on forceCalls, which starts again with the process
          Client,     \* the client, when it opens a database itself
          None

\* pos, atm and box are the byte strings that are hashed; cuh says whether
\* the species are the copper and hydrogen CuH2Pot::forceImpl insists on.
ASSUME CacheAssumption ==
  /\ Kind \in [Pots -> {"LJ", "CuH2"}]
  /\ \A c \in Configs : c.n \in Nat /\ c.cuh \in BOOLEAN
  /\ None \notin Caches \cup Paths \cup CutoffUs \cup {Client}
  /\ Client \notin Caches
  /\ CutoffUs # {}
  /\ MaxCalls \in Nat

\* No two parts of configurations are the same bytes, unless they are the same
\* part.  (The nine coordinates of three atoms may well be those of a box.)
PartsApart ==
  \A c, e \in Configs :
    /\ c.pos # e.atm /\ c.pos # e.box /\ c.atm # e.box
    /\ {c.pos, c.atm, c.box} \cap {"LJ", "CuH2"} = {}
    /\ c.pos = e.pos /\ c.atm = e.atm /\ c.box = e.box => c = e

VARIABLES disk,       \* what each database holds: key -> stored result
          holder,     \* who has each database open (RocksDB locks it)
          made,       \* the PotentialCache objects that exist
          db, own,    \* their db_ and own_db_
          cache,      \* _cache of each potential
          cuttOffU,   \* the member of each LJPot that no constructor sets
          forceCalls, \* registry<Derived>::forceCalls of the two classes
          last        \* the last configuration and result of each potential

vars == <<disk, holder, made, db, own, cache, cuttOffU, forceCalls, last>>

SymDiff(A, B) == (A \ B) \cup (B \ A)

KeyOverwritten(c, k) == SymDiff({c.box}, {k})
KeyIgnoringClass(c, k) == SymDiff(SymDiff({c.pos}, {c.atm}), {c.box})
KeyOf(c, k) == SymDiff(SymDiff(SymDiff({c.pos}, {c.atm}), {c.box}), {k})

Keys == {KeyOf(c, k) : c \in Configs, k \in {"LJ", "CuH2"}}

\* What forceImpl computes, for atoms within the cutoff.  Only LJPot's energy
\* depends on cuttOffU.
Value(p, c) == [cfg |-> c, n |-> c.n,
                u |-> IF Kind[p] = "LJ" THEN cuttOffU[p] ELSE None]
Values == [cfg : Configs, n : {c.n : c \in Configs}, u : CutoffUs \cup {None}]

Accepts(p, c) == Kind[p] = "CuH2" => c.cuh

Init ==
  /\ disk = [d \in Paths |-> [k \in Keys |-> None]]
  /\ holder = [d \in Paths |-> None]
  /\ made = {}
  /\ db = [x \in Caches |-> None]
  /\ own = [x \in Caches |-> FALSE]
  /\ cache = [p \in Pots |-> None]
  /\ cuttOffU \in [Pots -> CutoffUs]
  /\ forceCalls = [k \in {"LJ", "CuH2"} |-> 0]
  /\ last = [p \in Pots |-> None]
-----------------------------------------------------------------------------
(* PotentialCache objects.                                                 *)

cacheless == <<disk, cache, cuttOffU, forceCalls, last>>

\* The constructor with a path opens and owns the database...
OpenCache(x, d) ==
  /\ x \notin made
  /\ holder[d] = None
  /\ made' = made \cup {x}
  /\ db' = [db EXCEPT ![x] = d]
  /\ own' = [own EXCEPT ![x] = TRUE]
  /\ holder' = [holder EXCEPT ![d] = x]
  /\ UNCHANGED cacheless

\* ... or fails to (locked, unreadable) and leaves db_ null, as does the
\* default constructor.
UnopenedCache(x) ==
  /\ x \notin made
  /\ made' = made \cup {x}
  /\ db' = [db EXCEPT ![x] = None]
  /\ own' = [own EXCEPT ![x] = FALSE]
  /\ UNCHANGED <<holder, cacheless>>

\* delete db_ if it is owned; the database is closed and its lock released.
CloseNothing(x) == holder
Close(x) == [d \in Paths |-> IF own[x] /\ db[x] = d THEN None ELSE holder[d]]

ClientOpens(d) ==
  /\ holder[d] = None
  /\ holder' = [holder EXCEPT ![d] = Client]
  /\ UNCHANGED <<made, db, own, cacheless>>

\* set_db, with a database of the client's or with a null pointer.
SetDb(x, d) ==
  /\ x \in made
  /\ d # None => holder[d] = Client
  /\ holder' = Close(x)
  /\ db' = [db EXCEPT ![x] = d]
  /\ own' = [own EXCEPT ![x] = FALSE]
  /\ UNCHANGED <<made, cacheless>>

\* The client closes its database once no cache refers to it.
ClientCloses(d) ==
  /\ holder[d] = Client
  /\ \A x \in made : db[x] # d
  /\ holder' = [holder EXCEPT ![d] = None]
  /\ UNCHANGED <<made, db, own, cacheless>>

\* The destructor; the client has detached the cache from its potentials.
DestroyCache(x) ==
  /\ x \in made
  /\ \A p \in Pots : cache[p] # x
  /\ made' = made \ {x}
  /\ holder' = Close(x)
  /\ db' = [db EXCEPT ![x] = None]
  /\ own' = [own EXCEPT ![x] = FALSE]
  /\ UNCHANGED cacheless

set_cache(p, x) ==
  /\ x \in made \cup {None}
  /\ cache' = [cache EXCEPT ![p] = x]
  /\ UNCHANGED <<disk, holder, made, db, own, cuttOffU, forceCalls, last>>
-----------------------------------------------------------------------------
(* operator().                                                             *)

\* find: nothing without a cache, without a database, or without the key.
Found(p, c) ==
  LET x == cache[p]
  IN IF x = None \/ db[x] = None THEN None ELSE disk[db[x]][KeyOf(c, Kind[p])]

HitUnchecked(p, c) ==
  /\ cache[p] # None
  /\ last' = [last EXCEPT ![p] = [cfg |-> c, val |-> Found(p, c)]]
  /\ UNCHANGED <<disk, holder, made, db, own, cache, cuttOffU, forceCalls>>
Hit(p, c) ==
  /\ Found(p, c) # None
  /\ last' = [last EXCEPT ![p] = [cfg |-> c, val |-> Found(p, c)]]
  /\ UNCHANGED <<disk, holder, made, db, own, cache, cuttOffU, forceCalls>>

\* add_serialized: skipped without a database; the status of Put is ignored,
\* so the entry may be missing afterwards (or be the one that was there).
Stored(p, c, put) ==
  LET x == cache[p]
  IN IF put /\ x # None /\ db[x] # None
     THEN [disk EXCEPT ![db[x]][KeyOf(c, Kind[p])] = Value(p, c)]
     ELSE disk

\* Also of a key that is there: any status of Get but ok is a miss.
Miss(p, c, put) ==
  /\ Accepts(p, c)
  /\ forceCalls[Kind[p]] < MaxCalls
  /\ forceCalls' = [forceCalls EXCEPT ![Kind[p]] = @ + 1]
  /\ last' = [last EXCEPT ![p] = [cfg |-> c, val |-> Value(p, c)]]
  /\ disk' = Stored(p, c, put)
  /\ UNCHANGED <<holder, made, db, own, cache, cuttOffU>>

\* forceImpl throws: neither the counter nor the database is touched.
Rejected(p, c) ==
  /\ ~Accepts(p, c)
  /\ last' = [last EXCEPT ![p] = None]
  /\ UNCHANGED <<disk, holder, made, db, own, cache, cuttOffU, forceCalls>>

\* The process ends and another starts; the databases stay.
Restart ==
  /\ holder' = [d \in Paths |-> None]
  /\ made' = {}
  /\ db' = [x \in Caches |-> None]
  /\ own' = [x \in Caches |-> FALSE]
  /\ cache' = [p \in Pots |-> None]
  /\ cuttOffU' \in [Pots -> CutoffUs]
  /\ forceCalls' = [k \in {"LJ", "CuH2"} |-> 0]
  /\ last' = [p \in Pots |-> None]
  /\ UNCHANGED disk

Next ==
  \/ \E x \in Caches, d \in Paths : OpenCache(x, d)
  \/ \E x \in Caches, d \in Paths \cup {None} : SetDb(x, d)
  \/ \E x \in Caches : UnopenedCache(x) \/ DestroyCache(x)
  \/ \E d \in Paths : ClientOpens(d) \/ ClientCloses(d)
  \/ \E p \in Pots, x \in Caches \cup {None} : set_cache(p, x)
  \/ \E p \in Pots, c \in Configs :
        Hit(p, c) \/ Rejected(p, c) \/ \E put \in BOOLEAN : Miss(p, c, put)
  \/ Restart

Spec == Init /\ [][Next]_vars
-----------------------------------------------------------------------------
TypeOK ==
  /\ disk \in [Paths -> [Keys -> Values \cup {None}]]
  /\ holder \in [Paths -> Caches \cup {Client, None}]
  /\ made \subseteq Caches
  /\ db \in [Caches -> Paths \cup {None}]
  /\ own \in [Caches -> BOOLEAN]
  /\ cache \in [Pots -> Caches \cup {None}]
  /\ cuttOffU \in [Pots -> CutoffUs]
  /\ forceCalls \in [{"LJ", "CuH2"} -> 0 .. MaxCalls]
  /\ last \in [Pots -> [cfg : Configs, val : Values] \cup {None}]

(* A database pointer is never used after the database was closed and a    *)
(* closed cache never keeps its database locked: an owned database is held *)
(* by its one owner, a borrowed one by the client (PotentialCache.cc:46-68)*)
(* That attached caches and borrowed databases outlive their users is the  *)
(* client's discipline, in the guards of DestroyCache and ClientCloses.    *)
HandlesValid ==
  /\ \A x \in Caches : db[x] # None =>
       x \in made /\ holder[db[x]] = IF own[x] THEN x ELSE Client
  /\ \A d \in Paths : holder[d] \in Caches => own[holder[d]] /\ db[holder[d]] = d
  /\ \A p \in Pots : cache[p] # None => cache[p] \in made

(* deserialize_hit copies as many forces as the CALLER's configuration has *)
(* atoms and never checks the length of the entry (PotentialCache.cc:78);  *)
(* the entry it copies from always has that many.                          *)
HitFits ==
  \A d \in Paths, c \in Configs, k \in {"LJ", "CuH2"} :
    disk[d][KeyOf(c, k)] # None => disk[d][KeyOf(c, k)].n = c.n

(* A cached answer is one the potential would compute, from the same       *)
(* configuration and with the same formula: across restarts, databases     *)
(* that fail to open or to store, rejected inputs, and databases that a    *)
(* potential of another class writes to.                                   *)
CacheTransparent ==
  \A p \in Pots : last[p] # None =>
    /\ last[p].val.cfg = last[p].cfg
    /\ Kind[p] = "CuH2" <=> last[p].val.u = None

(* As PotentialCache.hpp has it, the key is unique to the configuration.   *)
KeyUnique ==
  \A p \in Pots : last[p] # None => last[p].val.cfg = last[p].cfg

(* As LJPot.hpp has it, the energy is shifted by its value at the cutoff   *)
(* distance, which is the same number for all LJPot objects: two of them   *)
(* give the same answer for the same configuration.                        *)
InstancesAgree ==
  \A p, q \in Pots :
    /\ Kind[p] = Kind[q] /\ last[p] # None /\ last[q] # None
    /\ last[p].cfg = last[q].cfg
    => last[p].val = last[q].val
=============================================================================
