---------------------------- MODULE LocationCache ----------------------------
(***************************************************************************)
(* LocationCache with its two containers kept apart: the doubly linked     *)
(* list cache_ of entries and the hash map lookup_ from keys to iterators  *)
(* into that list.  An iterator is the list cell it points at.  A cell     *)
(* that is erased is freed, and an insertion may be given any free cell,   *)
(* so a stale iterator points at nothing or at another key's entry.        *)
(***************************************************************************)
EXTENDS LocData, FiniteSets

CONSTANTS
  Key, Value,
  Cell         \* list nodes the allocator can hand out

\* push_front always finds memory: it runs after the eviction.
ASSUME CellsAssumption == IsFiniteSet(Cell) /\ Cardinality(Cell) >= MaxCacheSize

\* Absent, the end() iterator and the mark of a free cell, is neither a cell
\* nor an entry.
ASSUME AbsentAssumption == Absent \notin Cell \cup [key : Key, value : Value]

VARIABLES
  heap,        \* [cell] the entry stored in it, or Absent when it is free
  cache_,      \* the cells of the list, front first
  lookup_      \* [key] the cell its iterator points at, or Absent

cacheVars == <<heap, cache_, lookup_>>

Init ==
  /\ heap = [c \in Cell |-> Absent]
  /\ cache_ = <<>>
  /\ lookup_ = [k \in Key |-> Absent]

exists(k) == lookup_[k] # Absent

size == Cardinality({k \in Key : exists(k)})

\* The place in the list of the cell an iterator points at.
Place(cell) == CHOOSE i \in DOMAIN cache_ : cache_[i] = cell

\* cache_.splice(cache_.begin(), cache_, cell)
Spliced(cell) == Cons(cell, RemoveAt(cache_, Place(cell)))

get(k) ==
  /\ exists(k)
  /\ cache_' = Spliced(lookup_[k])
  /\ UNCHANGED <<heap, lookup_>>

remove(k) ==
  \/ /\ exists(k)
     /\ cache_' = RemoveAt(cache_, Place(lookup_[k]))
     /\ heap' = [heap EXCEPT ![lookup_[k]] = Absent]
     /\ lookup_' = [lookup_ EXCEPT ![k] = Absent]
  \/ ~exists(k) /\ UNCHANGED cacheVars

\* The list gives up its last entry and the map keeps the iterator.
Evicted_KeepsIterator ==
  IF size + 1 > MaxCacheSize
  THEN [heap   |-> [heap EXCEPT ![Last(cache_)] = Absent],
        list   |-> Front(cache_),
        lookup |-> lookup_]
  ELSE [heap |-> heap, list |-> cache_, lookup |-> lookup_]

\* The containers with room for a new entry: the least recently used key is
\* read from the back of the list and leaves the map, then the list.
Evicted ==
  IF size + 1 > MaxCacheSize
  THEN [heap   |-> [heap EXCEPT ![Last(cache_)] = Absent],
        list   |-> Front(cache_),
        lookup |-> [lookup_ EXCEPT ![heap[Last(cache_)].key] = Absent]]
  ELSE [heap |-> heap, list |-> cache_, lookup |-> lookup_]

insertNew(k, v) ==
  /\ ~exists(k)
  /\ \E cell \in Cell :
       /\ Evicted.heap[cell] = Absent
       /\ heap' = [Evicted.heap EXCEPT ![cell] = [key |-> k, value |-> v]]
       /\ cache_' = Cons(cell, Evicted.list)
       /\ lookup_' = [Evicted.lookup EXCEPT ![k] = cell]

\* A known key keeps its place in the list.
insertKnown_NoPromotion(k, v) ==
  /\ exists(k)
  /\ heap' = [heap EXCEPT ![lookup_[k]].value = v]
  /\ UNCHANGED <<cache_, lookup_>>

insertKnown(k, v) ==
  /\ exists(k)
  /\ heap' = [heap EXCEPT ![lookup_[k]].value = v]
  /\ cache_' = Spliced(lookup_[k])
  /\ UNCHANGED lookup_

\* LocLookup::clearCache assigns an empty cache: both containers are emptied.
clear ==
  /\ heap' = [c \in Cell |-> Absent]
  /\ cache_' = <<>>
  /\ lookup_' = [k \in Key |-> Absent]

Next ==
  \/ \E k \in Key : get(k) \/ remove(k)
  \/ \E k \in Key, v \in Value : insertNew(k, v) \/ insertKnown(k, v)
  \/ clear

Spec == Init /\ [][Next]_cacheVars

-----------------------------------------------------------------------------
\* The two containers describe the same entries: an iterator of the map points
\* at a live cell of the list holding its key, every cell of the list is the
\* target of the iterator of its key, and no live cell is outside the list.
Coherent ==
  /\ \A k \in Key : exists(k) =>
       /\ lookup_[k] \in ToSet(cache_)
       /\ heap[lookup_[k]].key = k
  /\ \A c \in Cell : c \in ToSet(cache_) <=> heap[c] # Absent
  /\ \A i \in DOMAIN cache_ : lookup_[heap[cache_[i]].key] = cache_[i]
  /\ IsInjective(cache_)

\* The LRU list of the containers.
Entries == [i \in DOMAIN cache_ |-> heap[cache_[i]]]

LRU == INSTANCE LRUCache WITH entries <- Entries

\* The containers implement the LRU list, whatever cells the allocator reuses:
\* get and re-insert promote, overflow evicts the least recently used entry
\* and no other, and a value read is the last one inserted (cache.h).
ImplementsLRU == LRU!Spec
=============================================================================
