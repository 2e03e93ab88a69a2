------------------------ MODULE PotentialCacheProofs ------------------------
(***************************************************************************)
(* Proofs about PotentialCache, for any potentials, caches and databases.  *)
(*                                                                         *)
(* Who holds a database needs no strengthening but its types.  What a      *)
(* cached answer is worth rests on DiskRight: every entry is the result of *)
(* the configuration and the class whose key it is stored under.           *)
(***************************************************************************)
EXTENDS PotentialCache, TLAPS

Classes == {"LJ", "CuH2"}

\* The type invariant without the contents of the databases.
HoldersOK ==
  /\ holder \in [Paths -> Caches \cup {Client, None}]
  /\ made \subseteq Caches
  /\ db \in [Caches -> Paths \cup {None}]
  /\ own \in [Caches -> BOOLEAN]
  /\ cache \in [Pots -> Caches \cup {None}]

HInv == HoldersOK /\ HandlesValid

USE CacheAssumption

LEMMA CloseReleases ==
  ASSUME HInv, NEW x \in Caches
  PROVE  /\ Close(x) \in [Paths -> Caches \cup {Client, None}]
         /\ \A d \in Paths :
              /\ holder[d] = x => Close(x)[d] = None
              /\ holder[d] # x => Close(x)[d] = holder[d]
<1>1. \A d \in Paths : Close(x)[d] = IF own[x] /\ db[x] = d THEN None ELSE holder[d]
  BY DEF Close
<1>2. Close(x) \in [Paths -> Caches \cup {Client, None}]
  BY DEF Close, HInv, HoldersOK
<1>3. ASSUME NEW d \in Paths  PROVE holder[d] = x <=> own[x] /\ db[x] = d
  BY DEF HInv, HoldersOK, HandlesValid
<1>. QED  BY <1>1, <1>2, <1>3

LEMMA HInit == Init => HInv
BY DEF Init, HInv, HoldersOK, HandlesValid

LEMMA HNext == HInv /\ [Next]_vars => HInv'
<1>. SUFFICES ASSUME HInv, [Next]_vars PROVE HInv'
  OBVIOUS
<1>. USE DEF HInv, HoldersOK, cacheless
<1>1. ASSUME NEW x \in Caches, NEW d \in Paths, OpenCache(x, d)  PROVE HInv'
  <2>1. HoldersOK'  BY <1>1 DEF OpenCache
  <2>2. HandlesValid'  BY <1>1 DEF OpenCache, HandlesValid
  <2>. QED  BY <2>1, <2>2
<1>2. ASSUME NEW x \in Caches, NEW d \in Paths \cup {None}, SetDb(x, d)  PROVE HInv'
  <2>1. holder' = Close(x)  BY <1>2 DEF SetDb
  <2>2. HoldersOK'  BY <1>2, <2>1, CloseReleases DEF SetDb
  <2>3. HandlesValid'  BY <1>2, <2>1, CloseReleases DEF SetDb, HandlesValid
  <2>. QED  BY <2>2, <2>3
<1>3. ASSUME NEW x \in Caches, UnopenedCache(x)  PROVE HInv'
  <2>1. HoldersOK'  BY <1>3 DEF UnopenedCache
  <2>2. HandlesValid'  BY <1>3 DEF UnopenedCache, HandlesValid
  <2>. QED  BY <2>1, <2>2
<1>4. ASSUME NEW x \in Caches, DestroyCache(x)  PROVE HInv'
  <2>1. holder' = Close(x)  BY <1>4 DEF DestroyCache
  <2>2. HoldersOK'  BY <1>4, <2>1, CloseReleases DEF DestroyCache
  <2>3. HandlesValid'  BY <1>4, <2>1, CloseReleases DEF DestroyCache, HandlesValid
  <2>. QED  BY <2>2, <2>3
<1>5. ASSUME NEW d \in Paths, ClientOpens(d) \/ ClientCloses(d)  PROVE HInv'
  <2>1. HoldersOK'  BY <1>5 DEF ClientOpens, ClientCloses
  <2>2. HandlesValid'  BY <1>5 DEF ClientOpens, ClientCloses, HandlesValid
  <2>. QED  BY <2>1, <2>2
<1>6. ASSUME NEW p \in Pots, NEW x \in Caches \cup {None}, set_cache(p, x)  PROVE HInv'
  <2>1. HoldersOK'  BY <1>6 DEF set_cache
  <2>2. HandlesValid'  BY <1>6 DEF set_cache, HandlesValid
  <2>. QED  BY <2>1, <2>2
<1>7. ASSUME NEW p \in Pots, NEW c \in Configs,
             Hit(p, c) \/ Rejected(p, c) \/ \E put \in BOOLEAN : Miss(p, c, put)
      PROVE HInv'
  <2>1. UNCHANGED <<holder, made, db, own, cache>>
    BY <1>7 DEF Hit, Rejected, Miss
  <2>. QED  BY <2>1 DEF HandlesValid
<1>8. CASE Restart
  <2>1. HoldersOK'  BY <1>8 DEF Restart
  <2>2. HandlesValid'  BY <1>8 DEF Restart, HandlesValid
  <2>. QED  BY <2>1, <2>2
<1>9. CASE UNCHANGED vars
  BY <1>9 DEF vars, HandlesValid
<1>. QED
  BY <1>1, <1>2, <1>3, <1>4, <1>5, <1>6, <1>7, <1>8, <1>9 DEF Next

(* No cache or potential ever uses a database, or a cache, that was closed *)
(* or destroyed, and no database stays locked by a cache that is gone, for *)
(* any number of caches, potentials and databases.                         *)
THEOREM DatabasesHeld == Spec => []HandlesValid
<1>1. HInv => HandlesValid
  BY DEF HInv
<1>. QED
  BY <1>1, HInit, HNext, PTL DEF Spec
-----------------------------------------------------------------------------
\* The keys of the configurations in question do not collide.
KeysSeparate ==
  \A c, e \in Configs, k, l \in {"LJ", "CuH2"} :
    KeyOf(c, k) = KeyOf(e, l) => c = e /\ k = l

(* The XOR of the four hashes can be taken apart again, when each of them  *)
(* can only be the hash of one of the four parts.                          *)
LEMMA PartsApartSeparateKeys == PartsApart => KeysSeparate
<1>. SUFFICES ASSUME PartsApart, NEW c \in Configs, NEW e \in Configs,
                     NEW k \in Classes, NEW l \in Classes, KeyOf(c, k) = KeyOf(e, l)
              PROVE  c = e /\ k = l
  BY DEF KeysSeparate, Classes
<1>1. ASSUME NEW f \in Configs, NEW m \in Classes
      PROVE  KeyOf(f, m) = {f.pos, f.atm, f.box, m}
  <2>1. /\ f.pos # f.atm /\ f.pos # f.box /\ f.pos # m
        /\ f.atm # f.box /\ f.atm # m /\ f.box # m
    BY DEF PartsApart, Classes
  <2>2. SymDiff({f.pos}, {f.atm}) = {f.pos, f.atm}
    BY <2>1 DEF SymDiff
  <2>3. SymDiff({f.pos, f.atm}, {f.box}) = {f.pos, f.atm, f.box}
    BY <2>1 DEF SymDiff
  <2>4. SymDiff({f.pos, f.atm, f.box}, {m}) = {f.pos, f.atm, f.box, m}
    BY <2>1 DEF SymDiff
  <2>. QED  BY <2>2, <2>3, <2>4 DEF KeyOf
<1>2. {c.pos, c.atm, c.box, k} = {e.pos, e.atm, e.box, l}
  BY <1>1
<1>3. c.pos = e.pos /\ c.atm = e.atm /\ c.box = e.box /\ k = l
  BY <1>2 DEF PartsApart, Classes
<1>. QED  BY <1>3 DEF PartsApart

\* What a potential of class k may have computed from c.
Fits(v, c, k) == v.cfg = c /\ v.n = c.n /\ (k = "CuH2" <=> v.u = None)

DiskRight ==
  \A d \in Paths, c \in Configs, k \in Classes :
    disk[d][KeyOf(c, k)] # None => Fits(disk[d][KeyOf(c, k)], c, k)

AnswerRight ==
  \A p \in Pots : last[p] # None => Fits(last[p].val, last[p].cfg, Kind[p])

\* Results are records, so none of them is None.
DiskOK ==
  /\ disk \in [Paths -> [Keys -> Values \cup {None}]]
  /\ cuttOffU \in [Pots -> CutoffUs]
  /\ last \in [Pots -> [cfg : Configs, val : Values] \cup {None}]

DInv == HInv /\ DiskOK /\ DiskRight /\ AnswerRight

LEMMA DInit == Init => DInv
<1>. SUFFICES ASSUME Init PROVE DInv
  OBVIOUS
<1>1. DiskOK
  BY DEF Init, DiskOK
<1>2. \A c \in Configs, k \in Classes : KeyOf(c, k) \in Keys
  BY DEF Keys, Classes
<1>3. DiskRight
  BY <1>2 DEF Init, DiskRight
<1>4. AnswerRight
  BY DEF Init, AnswerRight
<1>. QED  BY <1>1, <1>3, <1>4, HInit DEF DInv

LEMMA ValueFits ==
  ASSUME DiskOK, NEW p \in Pots, NEW c \in Configs
  PROVE  Value(p, c) \in Values /\ Fits(Value(p, c), c, Kind[p])
<1>1. cuttOffU[p] \in CutoffUs /\ Kind[p] \in Classes
  BY DEF DiskOK, Classes
<1>. QED  BY <1>1 DEF Value, Values, Fits, Classes

LEMMA FoundFits ==
  ASSUME DInv, NEW p \in Pots, NEW c \in Configs, Found(p, c) # None
  PROVE  Found(p, c) \in Values /\ Fits(Found(p, c), c, Kind[p])
<1>1. Kind[p] \in Classes
  BY DEF Classes
<1>2. KeyOf(c, Kind[p]) \in Keys
  BY <1>1 DEF Keys, Classes
<1>3. /\ cache[p] # None /\ db[cache[p]] # None
      /\ Found(p, c) = disk[db[cache[p]]][KeyOf(c, Kind[p])]
  BY DEF Found
<1>4. db[cache[p]] \in Paths
  BY <1>3 DEF DInv, HInv, HoldersOK
<1>. QED
  BY <1>1, <1>2, <1>3, <1>4 DEF DInv, DiskOK, DiskRight

(* An entry is only read back under the key it was stored under, and keys  *)
(* that do not collide have one configuration and one class.               *)
LEMMA StoredFits ==
  ASSUME KeysSeparate, DInv, NEW p \in Pots, NEW c \in Configs,
         NEW put \in BOOLEAN, disk' = Stored(p, c, put)
  PROVE  DiskRight' /\ disk' \in [Paths -> [Keys -> Values \cup {None}]]
<1>1. CASE disk' = disk
  BY <1>1 DEF DInv, DiskOK, DiskRight
<1>2. CASE disk' # disk
  <2>. DEFINE e == db[cache[p]]
              key == KeyOf(c, Kind[p])
  <2>1. /\ cache[p] # None /\ e # None
        /\ disk' = [disk EXCEPT ![e][key] = Value(p, c)]
    BY <1>2 DEF Stored
  <2>2. e \in Paths /\ Kind[p] \in Classes
    BY <2>1 DEF DInv, HInv, HoldersOK, Classes
  <2>3. key \in Keys
    BY <2>2 DEF Keys, Classes
  <2>4. Value(p, c) \in Values /\ Fits(Value(p, c), c, Kind[p])
    BY ValueFits DEF DInv
  <2>. HIDE DEF key
  <2>5. disk' \in [Paths -> [Keys -> Values \cup {None}]]
    BY <2>1, <2>2, <2>3, <2>4 DEF DInv, DiskOK
  <2>6. ASSUME NEW d \in Paths, NEW f \in Configs, NEW k \in Classes,
               disk'[d][KeyOf(f, k)] # None
        PROVE  Fits(disk'[d][KeyOf(f, k)], f, k)
    <3>1. KeyOf(f, k) \in Keys
      BY DEF Keys, Classes
    <3>2. CASE d = e /\ KeyOf(f, k) = key
      <4>1. f = c /\ k = Kind[p]
        BY <3>2, <2>2 DEF KeysSeparate, Classes, key
      <4>2. disk'[d][KeyOf(f, k)] = Value(p, c)
        BY <3>2, <2>1, <2>2, <2>3 DEF DInv, DiskOK
      <4>. QED  BY <4>1, <4>2, <2>4
    <3>3. CASE ~(d = e /\ KeyOf(f, k) = key)
      <4>1. disk'[d][KeyOf(f, k)] = disk[d][KeyOf(f, k)]
        BY <3>1, <3>3, <2>1, <2>2, <2>3 DEF DInv, DiskOK
      <4>. QED  BY <4>1, <2>6 DEF DInv, DiskRight
    <3>. QED  BY <3>2, <3>3
  <2>. QED  BY <2>5, <2>6 DEF DiskRight
<1>. QED  BY <1>1, <1>2

LEMMA AnswerStep ==
  ASSUME DiskOK, AnswerRight, NEW p \in Pots, NEW c \in Configs,
         NEW v \in Values, Fits(v, c, Kind[p]),
         last' = [last EXCEPT ![p] = [cfg |-> c, val |-> v]]
  PROVE  AnswerRight' /\ last' \in [Pots -> [cfg : Configs, val : Values] \cup {None}]
<1>1. [cfg |-> c, val |-> v] \in [cfg : Configs, val : Values]
  OBVIOUS
<1>2. last' \in [Pots -> [cfg : Configs, val : Values] \cup {None}]
  BY <1>1 DEF DiskOK
<1>3. ASSUME NEW q \in Pots, last'[q] # None
      PROVE  Fits(last'[q].val, last'[q].cfg, Kind[q])
  <2>1. CASE q = p
    BY <2>1 DEF DiskOK
  <2>2. CASE q # p
    BY <2>2, <1>3 DEF DiskOK, AnswerRight
  <2>. QED  BY <2>1, <2>2
<1>. QED  BY <1>2, <1>3 DEF AnswerRight

LEMMA DNext == KeysSeparate /\ DInv /\ [Next]_vars => DInv'
<1>. SUFFICES ASSUME KeysSeparate, DInv, [Next]_vars PROVE DInv'
  OBVIOUS
<1>0. HInv'
  BY HNext DEF DInv
<1>1. CASE UNCHANGED <<disk, cuttOffU, last>>
  BY <1>0, <1>1 DEF DInv, DiskOK, DiskRight, AnswerRight
<1>2. ASSUME NEW p \in Pots, NEW c \in Configs, Hit(p, c)  PROVE DInv'
  <2>1. Found(p, c) \in Values /\ Fits(Found(p, c), c, Kind[p])
    BY <1>2, FoundFits DEF Hit
  <2>2. AnswerRight' /\ last' \in [Pots -> [cfg : Configs, val : Values] \cup {None}]
    BY <1>2, <2>1, AnswerStep DEF Hit, DInv
  <2>3. UNCHANGED <<disk, cuttOffU>>
    BY <1>2 DEF Hit
  <2>. QED  BY <1>0, <2>2, <2>3 DEF DInv, DiskOK, DiskRight
<1>3. ASSUME NEW p \in Pots, NEW c \in Configs, NEW put \in BOOLEAN, Miss(p, c, put)
      PROVE  DInv'
  <2>1. Value(p, c) \in Values /\ Fits(Value(p, c), c, Kind[p])
    BY ValueFits DEF DInv
  <2>2. AnswerRight' /\ last' \in [Pots -> [cfg : Configs, val : Values] \cup {None}]
    BY <1>3, <2>1, AnswerStep DEF Miss, DInv
  <2>3. DiskRight' /\ disk' \in [Paths -> [Keys -> Values \cup {None}]]
    BY <1>3, StoredFits DEF Miss
  <2>4. UNCHANGED cuttOffU
    BY <1>3 DEF Miss
  <2>. QED  BY <1>0, <2>2, <2>3, <2>4 DEF DInv, DiskOK
<1>4. ASSUME NEW p \in Pots, NEW c \in Configs, Rejected(p, c)  PROVE DInv'
  <2>1. last' \in [Pots -> [cfg : Configs, val : Values] \cup {None}]
    BY <1>4 DEF Rejected, DInv, DiskOK
  <2>2. AnswerRight'
    BY <1>4 DEF Rejected, DInv, DiskOK, AnswerRight
  <2>3. UNCHANGED <<disk, cuttOffU>>
    BY <1>4 DEF Rejected
  <2>. QED  BY <1>0, <2>1, <2>2, <2>3 DEF DInv, DiskOK, DiskRight
<1>5. CASE Restart
  <2>1. DiskOK'
    BY <1>5 DEF Restart, DInv, DiskOK
  <2>2. DiskRight' /\ AnswerRight'
    BY <1>5 DEF Restart, DInv, DiskRight, AnswerRight
  <2>. QED  BY <1>0, <2>1, <2>2 DEF DInv
<1>6. CASE UNCHANGED vars
  BY <1>1, <1>6 DEF vars
<1>7. ASSUME NEW x \in Caches, NEW d \in Paths \cup {None},
             (d \in Paths /\ OpenCache(x, d)) \/ SetDb(x, d)
      PROVE  DInv'
  BY <1>1, <1>7 DEF OpenCache, SetDb, cacheless
<1>8. ASSUME NEW x \in Caches, UnopenedCache(x) \/ DestroyCache(x)  PROVE DInv'
  BY <1>1, <1>8 DEF UnopenedCache, DestroyCache, cacheless
<1>9. ASSUME NEW d \in Paths, ClientOpens(d) \/ ClientCloses(d)  PROVE DInv'
  BY <1>1, <1>9 DEF ClientOpens, ClientCloses, cacheless
<1>10. ASSUME NEW p \in Pots, NEW x \in Caches \cup {None}, set_cache(p, x)  PROVE DInv'
  BY <1>1, <1>10 DEF set_cache
<1>. QED
  BY <1>2, <1>3, <1>4, <1>5, <1>6, <1>7, <1>8, <1>9, <1>10 DEF Next

(* Where the parts of configurations can be told apart by their bytes, the *)
(* entries of every database are right for their keys.                     *)
THEOREM Invariance ==
  ASSUME PartsApart
  PROVE  Spec => []DInv
<1>1. DInv /\ [Next]_vars => DInv'
  BY DNext, PartsApartSeparateKeys
<1>. QED
  BY <1>1, DInit, PTL DEF Spec

(* Under the same hypothesis an answer from the cache is one the potential *)
(* would compute itself: across restarts, failed stores, rejected inputs   *)
(* and databases shared by both classes, for any number.                   *)
THEOREM CacheCorrect ==
  ASSUME PartsApart
  PROVE  Spec => []CacheTransparent
<1>1. DInv => CacheTransparent
  BY DEF DInv, AnswerRight, Fits, CacheTransparent, Classes
<1>. QED  BY <1>1, Invariance, PTL

(* And deserialize_hit, which trusts the caller's number of atoms, finds   *)
(* that many forces in every entry it may read (PotentialCache.cc:78).     *)
THEOREM HitsFit ==
  ASSUME PartsApart
  PROVE  Spec => []HitFits
<1>1. DInv => HitFits
  BY DEF DInv, DiskRight, Fits, HitFits, Classes
<1>. QED  BY <1>1, Invariance, PTL

(* If cuttOffU had one value, as LJPot.hpp has it (every constructor would *)
(* have to set it), two potentials of one class would agree on every       *)
(* configuration, whether they compute or read a shared cache: the         *)
(* uninitialised member is all there is to the disagreement.               *)
THEOREM InitialisedAgree ==
  ASSUME PartsApart, NEW u0, CutoffUs = {u0}
  PROVE  Spec => []InstancesAgree
<1>1. ASSUME DInv, NEW p \in Pots, last[p] # None
      PROVE  /\ last[p].cfg \in Configs
             /\ last[p].val = [cfg |-> last[p].cfg, n |-> last[p].cfg.n,
                               u |-> IF Kind[p] = "CuH2" THEN None ELSE u0]
  <2>1. last[p] \in [cfg : Configs, val : Values]
    BY <1>1 DEF DInv, DiskOK
  <2>2. last[p].val \in Values /\ Fits(last[p].val, last[p].cfg, Kind[p])
    BY <1>1, <2>1 DEF DInv, AnswerRight
  <2>. QED  BY <2>1, <2>2 DEF Values, Fits
<1>2. DInv => InstancesAgree
  BY <1>1 DEF InstancesAgree
<1>. QED  BY <1>2, Invariance, PTL
-----------------------------------------------------------------------------
(* Types, which need no hypothesis on the configurations.                  *)

LEMMA TNext == HInv /\ TypeOK /\ [Next]_vars => TypeOK'
<1>. SUFFICES ASSUME HInv, TypeOK, [Next]_vars PROVE TypeOK'
  OBVIOUS
<1>0. HoldersOK' /\ DiskOK /\ forceCalls \in [{"LJ", "CuH2"} -> 0 .. MaxCalls]
  BY HNext DEF HInv, TypeOK, DiskOK
<1>. DEFINE Rest == DiskOK' /\ forceCalls' \in [{"LJ", "CuH2"} -> 0 .. MaxCalls]
<1>1. Rest => TypeOK'
  BY <1>0 DEF TypeOK, HoldersOK, DiskOK
<1>2. ASSUME NEW p \in Pots, NEW c \in Configs  PROVE KeyOf(c, Kind[p]) \in Keys
  BY DEF Keys
<1>3. ASSUME UNCHANGED <<disk, cuttOffU, forceCalls, last>>  PROVE Rest
  BY <1>0, <1>3 DEF DiskOK
<1>4. ASSUME NEW p \in Pots, NEW c \in Configs, Hit(p, c)  PROVE Rest
  <2>1. Found(p, c) \in Values
    <3>1. /\ cache[p] # None /\ db[cache[p]] # None /\ Found(p, c) # None
          /\ Found(p, c) = disk[db[cache[p]]][KeyOf(c, Kind[p])]
      BY <1>4 DEF Hit, Found
    <3>2. db[cache[p]] \in Paths
      BY <3>1 DEF HInv, HoldersOK
    <3>. QED  BY <1>0, <1>2, <3>1, <3>2 DEF DiskOK
  <2>2. last' \in [Pots -> [cfg : Configs, val : Values] \cup {None}]
    BY <1>0, <1>4, <2>1 DEF Hit, DiskOK
  <2>. QED  BY <1>0, <1>4, <2>2 DEF Hit, DiskOK
<1>5. ASSUME NEW p \in Pots, NEW c \in Configs, NEW put \in BOOLEAN, Miss(p, c, put)
      PROVE  Rest
  <2>1. Value(p, c) \in Values
    BY <1>0, ValueFits
  <2>2. last' \in [Pots -> [cfg : Configs, val : Values] \cup {None}]
    BY <1>0, <1>5, <2>1 DEF Miss, DiskOK
  <2>3. disk' \in [Paths -> [Keys -> Values \cup {None}]]
    <3>1. CASE disk' = disk
      BY <1>0, <3>1 DEF DiskOK
    <3>2. CASE disk' # disk
      <4>1. /\ cache[p] # None /\ db[cache[p]] # None
            /\ disk' = [disk EXCEPT ![db[cache[p]]][KeyOf(c, Kind[p])] = Value(p, c)]
        BY <1>5, <3>2 DEF Miss, Stored
      <4>2. db[cache[p]] \in Paths
        BY <4>1 DEF HInv, HoldersOK
      <4>. HIDE DEF Rest
      <4>. QED  BY <1>0, <1>2, <2>1, <4>1, <4>2 DEF DiskOK
    <3>. QED  BY <3>1, <3>2
  <2>4. forceCalls' \in [{"LJ", "CuH2"} -> 0 .. MaxCalls]
    BY <1>0, <1>5 DEF Miss
  <2>. QED  BY <1>0, <1>5, <2>2, <2>3, <2>4 DEF Miss, DiskOK
<1>6. ASSUME NEW p \in Pots, NEW c \in Configs, Rejected(p, c)  PROVE Rest
  BY <1>0, <1>6 DEF Rejected, DiskOK
<1>7. ASSUME Restart  PROVE Rest
  BY <1>0, <1>7 DEF Restart, DiskOK
<1>8. ASSUME NEW x \in Caches, NEW d \in Paths \cup {None},
             (d \in Paths /\ OpenCache(x, d)) \/ SetDb(x, d)
      PROVE  Rest
  BY <1>3, <1>8 DEF OpenCache, SetDb, cacheless
<1>9. ASSUME NEW x \in Caches, UnopenedCache(x) \/ DestroyCache(x)  PROVE Rest
  BY <1>3, <1>9 DEF UnopenedCache, DestroyCache, cacheless
<1>10. ASSUME NEW d \in Paths, ClientOpens(d) \/ ClientCloses(d)  PROVE Rest
  BY <1>3, <1>10 DEF ClientOpens, ClientCloses, cacheless
<1>11. ASSUME NEW p \in Pots, NEW x \in Caches \cup {None}, set_cache(p, x)  PROVE Rest
  BY <1>3, <1>11 DEF set_cache
<1>12. ASSUME UNCHANGED vars  PROVE Rest
  BY <1>3, <1>12 DEF vars
<1>. HIDE DEF Rest
<1>. QED
  BY <1>1, <1>4, <1>5, <1>6, <1>7, <1>8, <1>9, <1>10, <1>11, <1>12 DEF Next

(* Every variable keeps its type, colliding keys or not: what a database   *)
(* holds under a key is always some result, whole.                         *)
THEOREM TypeCorrect == Spec => []TypeOK
<1>1. Init => TypeOK
  BY DEF Init, TypeOK
<1>. QED
  BY <1>1, HInit, HNext, TNext, PTL DEF Spec
=============================================================================
