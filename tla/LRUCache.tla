------------------------------ MODULE LRUCache -------------------------------
(***************************************************************************)
(* What LocationCache promises: one list of entries, most recently used    *)
(* first, with the operators of LocData.  The coordinator's records use    *)
(* these operators; module LocationCache shows that the two containers of  *)
(* the code implement them.                                                *)
(***************************************************************************)
EXTENDS LocData

CONSTANTS Key, Value

VARIABLE entries    \* sequence of [key, value]

Init == entries = <<>>

\* "Key must exist in cache": the caller has tested exists.
Get(k) == CacheExists(entries, k) /\ entries' = CacheTouch(entries, k)

Discard(k) == entries' = CacheRemove(entries, k)

Insert(k, v) == entries' = CacheInsert(entries, k, v)

Clear == entries' = <<>>

Next ==
  \/ \E k \in Key : Get(k) \/ Discard(k)
  \/ \E k \in Key, v \in Value : Insert(k, v)
  \/ Clear

Spec == Init /\ [][Next]_entries
=============================================================================
