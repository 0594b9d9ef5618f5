------------------------------- MODULE LocData -------------------------------
(***************************************************************************)
(* The internal data structures of loc as operators on values: the         *)
(* location record, the LRU cache, the home directory and the lookup that  *)
(* combines the last two.  They are pure and belong to one rank.           *)
(*                                                                         *)
(* A cache is a sequence of [key, value] entries, most recently used       *)
(* first: it is the std::list cache_, and the hash map lookup_ is its key  *)
(* index (module LocationCache keeps the two containers apart and shows    *)
(* that they implement these operators).  A directory is a total function  *)
(* in which Absent marks a key without an entry.                           *)
(*                                                                         *)
(* An operator whose name has the form Op_Fault is Op with a seeded fault; *)
(* no definition uses it.  Running a configuration with Op_Fault in the    *)
(* place of Op shows that the properties notice the fault.                 *)
(***************************************************************************)
EXTENDS Integers, SequencesExt

CONSTANTS
  MaxCacheSize,   \* max_size_: the entries a cache may hold
  Absent,         \* what directory[k] is for a key that has no entry
  NoNode          \* no_node, the sentinel of common.h

\* A cache of size 0 reads and pops the back of an empty list on its first
\* insert: the operators below describe caches of at least one entry.
ASSUME CacheSizeAssumption == MaxCacheSize \in Nat \ {0}

-----------------------------------------------------------------------------
(* LocRecord.  The id_ of a record is the key it is stored under.          *)

eLocState == {"Local", "Remote", "Invalid"}

LocRecord(Nodes) == [state : eLocState, cur_node : Nodes]

updateNode(rec, new_node, this_node) ==
  [state    |-> IF new_node = this_node THEN "Local" ELSE "Remote",
   cur_node |-> new_node]

\* The freshly constructed record is stored without updateNode.
makeRec_NoUpdate(this_node, node) == [state |-> "Invalid", cur_node |-> NoNode]

\* Coordinator::makeRec on rank this_node.
makeRec(this_node, node) ==
  updateNode([state |-> "Invalid", cur_node |-> NoNode], node, this_node)

-----------------------------------------------------------------------------
(* LocationCache                                                           *)

CacheKeys(c) == {c[i].key : i \in DOMAIN c}

\* The hash map has one list position per key.
KeysDistinct(c) == \A i, j \in DOMAIN c : c[i].key = c[j].key => i = j

CacheExists(c, k) == k \in CacheKeys(c)

CachePos(c, k) == CHOOSE i \in DOMAIN c : c[i].key = k

\* The value get returns, and get's effect on the list: the entry found is
\* spliced to the front.
CacheValue(c, k) == c[CachePos(c, k)].value

CacheTouch(c, k) == Cons(c[CachePos(c, k)], RemoveAt(c, CachePos(c, k)))

CacheRemove(c, k) ==
  IF CacheExists(c, k) THEN RemoveAt(c, CachePos(c, k)) ELSE c

\* The new entry is not counted.
CacheEvict_OffByOne(c) == IF Len(c) > MaxCacheSize THEN Front(c) ELSE c

\* Room for one more entry: the last of a full list is dropped.
CacheEvict(c) == IF Len(c) + 1 > MaxCacheSize THEN Front(c) ELSE c

CacheInsert(c, k, v) ==
  Cons([key |-> k, value |-> v],
       IF CacheExists(c, k) THEN CacheRemove(c, k) ELSE CacheEvict(c))

-----------------------------------------------------------------------------
(* Directory                                                               *)

DirExists(d, k) == d[k] # Absent

\* emplace: an existing entry is kept.
DirInsert_Emplace(d, k, v) == IF DirExists(d, k) THEN d ELSE [d EXCEPT ![k] = v]

DirInsert(d, k, v) == [d EXCEPT ![k] = v]

DirRemove(d, k) == [d EXCEPT ![k] = Absent]

-----------------------------------------------------------------------------
(* LocLookup: a record of the directory and the cache.                     *)

Lookup(Keys, Values) ==
  [directory : [Keys -> Values \cup {Absent}],
   cache : Seq([key : Keys, value : Values])]

EmptyLookup(Keys) == [directory |-> [k \in Keys |-> Absent], cache |-> <<>>]

LookupExists(l, k) == DirExists(l.directory, k) \/ CacheExists(l.cache, k)

\* get: the value, and what the call does to the lookup.  The directory is
\* asked first; only a cache hit reorders the cache.
LookupValue(l, k) ==
  IF DirExists(l.directory, k) THEN l.directory[k] ELSE CacheValue(l.cache, k)

LookupGet(l, k) ==
  IF DirExists(l.directory, k)
  THEN l
  ELSE [l EXCEPT !.cache = CacheTouch(@, k)]

LookupRemove(l, k) ==
  [directory |-> DirRemove(l.directory, k), cache |-> CacheRemove(l.cache, k)]

LookupInsert(l, this_node, k, home, v) ==
  IF this_node = home
  THEN [l EXCEPT !.directory = DirInsert(@, k, v)]
  ELSE [l EXCEPT !.cache = CacheInsert(@, k, v)]

\* The directory is not looked at.
LookupUpdate_CacheOnly(l, k, v) == [l EXCEPT !.cache = CacheInsert(@, k, v)]

LookupUpdate(l, k, v) ==
  IF DirExists(l.directory, k)
  THEN [l EXCEPT !.directory = DirInsert(@, k, v)]
  ELSE [l EXCEPT !.cache = CacheInsert(@, k, v)]

\* The home's entries are cleared with the cached ones.
LookupClearCache_Everything(l) == EmptyLookup(DOMAIN l.directory)

LookupClearCache(l) == [l EXCEPT !.cache = <<>>]

=============================================================================
