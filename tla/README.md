# Verification of loc

`loc` answers the question "which rank currently hosts entity X" for entities
that migrate between the ranks of a parallel program. This directory holds
TLA+ models of it, TLC configurations that check them on small instances, and
theorems about them that TLAPS checks for every instance.

## 1. Inventory

### Components

| Part | Source | State | Operations |
|------|--------|-------|------------|
| `LocRecord`, `eLocState` | `src/loc/record/` | id, Local/Remote/Invalid, node | `updateNode`, accessors |
| `LocationCache` | `src/loc/cache/cache.h` | `std::list` of entries in LRU order, hash map from keys to iterators into it, `max_size_` | `exists`, `get`, `remove`, `insert` |
| `Directory` | `src/loc/directory/directory.h` | hash map from keys to records | `exists`, `get`, `getIter`, `remove`, `insert` |
| `LocLookup` | `src/loc/lookup/lookup.h` | one directory, one cache | `exists`, `get`, `remove`, `insert`, `update`, `clearCache` |
| `Coordinator` | `src/loc/coordinator.h`, `coordinator.impl.h` | local registrations, records, waiting callbacks, buffered requests, ranks answered | nine public operations, five message handlers |
| Communicator | `src/loc/communicator.h` (concept only) | messages in flight, instance handles | `send`, `poll`, `registerInstanceCollective` |
| Embedder | tests, example | where entities live | calls the API, moves entities, polls |

### How they interact

Every entity has a fixed home rank that the embedder passes with each call.
A rank on which an entity registers or immigrates sends `updateHome` to the
home (or announces directly if it is the home). The home stores the location in
its directory, sends a `resolveResponse` to every rank it has answered before
(`loc_asks_`: the eager refresh) and to every buffered request
(`pending_home_`), and flushes its own waiters. A `getLocation` that neither the
local registrations nor the records can answer waits in `pending_`; the first
waiter sends a `locationRequest`. `entityExists` works alike with
`existsRequest`/`existsResponse`, except that the home never buffers: unknown
means "does not exist". `entityEmigrated` repoints the local record and sends
nothing; `unregisterEntity` drops the local record and sends nothing.

Handlers run inside `Comm::poll` on the polling thread, so a rank is sequential.
All concurrency is between ranks, through messages, and between the two calls
(`entityEmigrated`, `entityImmigrated`) that make up one move.

### What is hard

- Nothing carries a version: an old `updateHome` or `resolveResponse` that is
  handled late overwrites a newer one.
- A request may reach the home before the registration, during a move, after an
  unregistration; only the first waiter sends one, while any response flushes
  all of them.
- `update()` chooses directory or cache by what the lookup holds at that moment.
- Records enter a cache by four ways (answer, refresh, existence answer,
  emigration) and only two of them are known to the home.
- The cache's hash map holds iterators into the list, which evicts.
- Callbacks run while the container that holds them is iterated, and may call
  the coordinator; a backend that dispatches inside `send` (`tests/tpl`) nests
  handlers inside the loops of `announceLocation` and inside the queries.
- Every move leaves a record on the old rank that nobody refreshes.

What makes each part correct: the cache is a bounded LRU list and its two
containers agree; the directory is permanent and only the home has entries for
its entities; no callback is forgotten and each fires; the home knows every
entity that lives and, if moves are paced, where; the ranks it has answered
converge to its directory; a rank never goes back to an older location, and
following the locations ranks hand out never goes round in a circle. `PROJECT.json` lists the hazards line by line with
the properties that cover each.

## 2. Modules

| Module | Models |
|--------|--------|
| `LocData` | record, cache, directory and lookup as operators on values |
| `LRUCache` | what the cache promises: one list with the operators of `LocData` |
| `LocationCache` | the cache's list and hash map kept apart, with cells and iterators; implements `LRUCache` |
| `Coordinator` | the protocol on all ranks, composed with the communicator and the embedder; extends `LocData` |
| `LocationService` | what the coordinators promise together: every rank reads an entity's itinerary in order |
| `CoordinatorHistory` | `Coordinator` with history variables; implements `LocationService` |
| `Callbacks` | one rank with its callbacks run step by step, its call stack, and what callbacks call; extends `LocData` |
| `CoordinatorInv` | the inductive invariant, as named parts |
| `MCCoordinator`, `MCHistory` | homes, symmetry and restricted embedders for TLC |
| `LocDataProofs` | lemmas about the operators of `LocData` |
| `CoordinatorProofs` | type correctness; for each action, the effect it has on the state the invariants read |
| `CoordinatorSafety` | placement of records, hosting, what the home knows, permanence |
| `CoordinatorWaiters` | no forgotten callback; the whole inductive invariant |
| `CoordinatorAskers` | the eager refresh: the ranks the home has answered follow its directory |
| `CoordinatorHistoryProofs` | records lead on and form no circle; channels are pieces of the itineraries; the coordinators implement `LocationService` |
| `LocationCacheProofs` | the cache's list and hash map agree, stay bounded and implement the LRU list |
| `CallbacksProofs` | no callback is lost or called twice, if callbacks keep to a discipline |

### State and actions of `Coordinator`

The variables with a trailing underscore are the members of the class, one per
rank. A vector of callbacks is represented by its length, since it is only
pushed to and flushed whole; `pending_home_[h][e][r]` is the number of times
rank `r` occurs in the vector. `net[s][d]` are the messages sent by `s` and not
yet handled by `d`. `transit` and `leaving` are the embedder's: a move is one
`entityEmigrated` on the old rank and one `entityImmigrated` on the new one; if
the first comes first, the entity is in `transit`, otherwise it is `leaving` the
old rank and registered on both. The tests of the repository make these two
calls on two ranks without synchronising them
(`tests/test_coordinator.cc`, `migration_updates_home`), so both orders happen.

Each public operation and each handler is one action of the same name. A
handler includes what it calls: `updateHome`, `registerEntity` and
`entityImmigrated` include `announceLocation` with its refreshes, its answers
to buffered requests and its flush. `isCached` is an operator, `thisNode` and
the constructor's arguments are constants.

The embedder is assumed to keep an entity on one rank, to pass the same home
with every call for an id, and to unregister an entity only where it lives and
only when it is not moving. The communicator is assumed to lose and duplicate
nothing. Two further assumptions are constants, and each property says whether
it needs them:

- `Ordered`: messages from one rank to another do not overtake each other. The
  communicator concept does not say; both values are checked.
- `Paced`: an entity moves only once its home has handled every earlier
  `updateHome` for it. The tests do this by pumping the communicator between
  phases; the API does not ask for it.

### The abstract service and its history variables

`LocationService` knows no messages, caches or homes. An entity has an
`itinerary`, the ranks it has been registered on or sent to; each rank hands out
a `view` of it and has a place `pos` in it. A rank may stay behind, skip ranks and
forget (a cleared or evicted record), but what it hands out next is never earlier
in the itinerary than what it handed out before, and is never a rank that is not
in it. `CoordinatorHistory` adds `itinerary` and `pos` to `Coordinator` without
restricting it: `pos` follows the view to the first place at or after the last one
that names the same rank, so the refinement holds exactly if the locations a
rank hands out are a subsequence of the itinerary. Ranks other than the home
that have let the entity go (`former`) are left out: an older answer to such a rank
may still be under way and overwrite the record `entityEmigrated` has written.

Two invariants over the history say why this works. `InOrder`: what the home has in
flight to a rank is a piece of the itinerary, with places in order, none before the
rank's `pos` and none after the place the directory names. `LeftBehind`: a record
that only `entityEmigrated` can have written names a rank that comes later in the
itinerary than every visit to the rank that holds it.

### State and actions of `Callbacks`

`Coordinator` treats a handler and the callbacks it calls as one step, which is
right only if the callbacks leave the vectors alone. `Callbacks` drops that for one
rank. `waiters` holds the vectors of `pending_` and `pending_exists_` as sequences
of numbered callbacks, and `stack` the calls in progress: a loop over a vector,
a query that calls its callback on the spot, or an `announceLocation` with the
steps it has left. While a callback runs, it may make any call in `LocCalls` (a
`getLocation` callback) or `ExistsCalls` (an `entityExists` callback), which pushes
further frames; `"getCached"` stands for a callback that calls `getLocation` only for
ids that `isCached` confirms.

`flushPending` and `existsResponse` hold an iterator into the map of vectors over the
callbacks and erase through it; `announceLocation` holds one into `pending_home_`. The
model names entries by their id, and `wild` records when that is no longer what the
code does: when a call in progress holds an iterator, into a vector or a map, that is
not valid any more. Two things invalidate one. A push may reallocate the vector, or,
if its id is new in the `unordered_map`, rehash the map, which by the standard
invalidates the iterators to all its entries; as the library chooses when, each such
push may set `wild` or not (`Disturbs`, `DisturbsHome`). An erase by a nested call
always does (`Return`, `AnnounceStep`). The program is undefined from then on, and
`CallbacksKept` says that this never happens.

The other ranks are an environment that answers requests, refreshes this rank's
cache once it has been answered, and sends `updateHome`. The communicator
(`backend`) dispatches from `poll`, or is the in-process one of `tests/tpl/main.cc`: one coordinator plays
every rank, and `send` runs the handler before it returns.

### Seeded faults

Operators named `Op_Fault` are `Op` with a plausible mistake (a dropped guard, a
missing reset, an off-by-one). No definition uses them. `PROJECT.json` pairs each
property of each passing run with one: with `Op_Fault` in the place of `Op`,
TLC finds that property violated.

## 3. Runs

| Run | Configuration | Shows |
|-----|---------------|-------|
| `cache_containers` | 4 keys, 2 values, 4 cells, 3 entries | list and map stay `Coherent` and implement the LRU list (`ImplementsLRU`) |
| `coord_unordered` | 3 ranks, 1 entity, reordering, unpaced, 3 moves | `TypeOK`, `HomeInDirectory`, `NoForgottenWaiter`, `NoForgottenExists`, `HomeKnows`, `AnsweredRemembered` |
| `coord_two_entities` | 3 ranks, 2 entities with different homes, ordered, paced, caches of one entry, 3 moves | the same split of records under eviction (`HomeInDirectory`), `CacheBounded`, `DirectoryPermanent` |
| `coord_paced` | 3 ranks, 1 entity, reordering, paced, 4 moves | `HomeAuthoritative`, and the inductive invariant `IndInv` |
| `coord_refresh` | as before, ordered, with history variables | `AskersFollow`, `AskersConverge`, `MovesForward`, `InOrder`, `LeftBehind`, `ImplementsService` |
| `callbacks` | 3 ids, 1 of them at home here, cache of one entry, 3 callbacks, dispatch from `poll` and inside `send` | `CallbacksKept`, `WaitersServed` |
| `coord_live` | 3 ranks, 1 entity, reordering, unpaced, 2 moves, fair | `LocationAnswered`, `ExistenceAnswered` |
| `coord_unpaced` | violation | `MigrationReflected` fails: section 5 |
| `coord_stale_cache` | violation | `CachesConverge` fails: section 5 |
| `coord_ghost` | violation | `KnownOnlyIfLiving` fails: section 5 |
| `coord_self_forward` | violation | `NoForwardingLoop` fails with remote existence queries: section 5 |
| `callbacks_retry` | violation | `CallbacksKept` fails if existence callbacks call `entityExists`: section 5 |

The passing callback run states the discipline that keeps callbacks safe:
location callbacks call only `getLocation`, and only for ids that `isCached` confirms,
existence callbacks anything but `entityExists`. Under it a re-entrant query inside a
flush of `pending_` never reaches a vector: the id being flushed has the record the
handler has just written, and any other is asked for only if it is known, so that the
map does not grow while an iterator into it is held. A query that waits comes from the
embedder or from an existence callback, which iterates another map. Refreshes of other
ids may evict a record, but only from `poll`, never in the middle of a flush.

`ImplementsService` needs both assumptions: with reordering channels, or without
pacing, TLC finds a rank that goes back. `MovesForward` needs them, too, and
`InOrder` states them as its premise; `LeftBehind` needs neither.

**Bounds.** `MaxMoves` counts registrations and moves, `MaxQueries` the calls of
`getLocation` and `entityExists`, `MaxClears` those of `clearCache`;
unregistrations are bounded by the registrations. Three ranks are a home, an
old and a new host, or a home, a host and an asker; the protocol of one entity
never relates more than three ranks in one handler. Three moves let one
`updateHome` be late by two; two queries give the deduplication a second waiter
or two askers. Entities interact only through a shared cache; two of them and a
cache of one entry let answers, refreshes (the third move of `coord_two_entities`, after
two answers) and emigration records evict one another. The bounds end every behaviour of
the coordinator runs, which is why they do not check for deadlock; that nobody
waits for ever is what `coord_live` checks. `cache_containers` has no bound on
operations and does check for deadlock, and so does `callbacks`, where a
deadlock would be a call that never returns. `MaxCallbacks` counts the queries:
three give a vector of two being iterated and a re-entrant query, or three
nested ones; three ids and a cache of one entry give evictions between them. Four
moves let an entity come back to a rank it has left, which circles and going back
need.

**Symmetry.** Ranks other than the home are interchangeable in the safety
runs with one home. `coord_live`, `coord_two_entities`, `cache_containers` and `callbacks` use
none.

**Fairness.** Only `Poll` is fair, per pair of ranks: the documentation of
`getLocation` makes pumping `Comm::poll` the embedder's duty, and a poll
dispatches what has arrived. No call is forced to happen: an entity may never
register, move or come back. So `LocationAnswered` is stated for entities that
live somewhere again and again, whereas `ExistenceAnswered` needs no such
premise. A `getLocation` for an entity that is never registered waits for ever,
which is what the code does.

## 4. Theorems

TLAPS checks the following. Of `Coordinator`, for every finite or infinite set of
ranks and entities, every home function, every positive cache size, every bound
and both values of `Ordered` and `Paced`:

| Theorem | States |
|---------|--------|
| `TypeCorrect` | `Spec => [](TypeOK /\ CacheBounded)` |
| `CachesBounded` | `Spec => []CacheBounded` |
| `HomesInDirectory` | `Spec => []HomeInDirectory` |
| `HomesKnow` | `Spec => []HomeKnows` |
| `HomesAuthoritative` | `Spec => []HomeAuthoritative` |
| `DirectoryIsPermanent` | `Spec => DirectoryPermanent` |
| `WaitersTracked` | `Spec => []NoForgottenWaiter` |
| `ExistsWaitersTracked` | `Spec => []NoForgottenExists` |
| `AnsweredAreRemembered` | `Spec => []AnsweredRemembered` |
| `IndInvCorrect` | `Spec => []IndInv` |
| `AskersAlwaysFollow` | `Spec => []AskersFollow` |
| `AskersAgree` | `Spec => []AskersConverge` |

Of `CoordinatorHistory`, in the same generality:

| Theorem | States |
|---------|--------|
| `OldRecordsLeadOn` | `HistSpec => []LeftBehind` |
| `ChannelsInOrder` | `HistSpec => []InOrder` |
| `RecordsMoveForward` | `Ordered /\ Paced => (HistSpec => []MovesForward)` |
| `CoordinatorImplementsService` | `Ordered /\ Paced => (HistSpec => ImplementsService)` |

Of `LocationCache`, for every set of keys, values and cells and every positive size:

| Theorem | States |
|---------|--------|
| `ContainersCoherent` | `Spec => []Coherent` |
| `ContainersBounded` | `Spec => [](size <= MaxCacheSize)`, where `size` is what the hash map counts |
| `ContainersImplementLRU` | `Spec => ImplementsLRU` |

Of `Callbacks`, for every set of ids, every cache size, every number of callbacks and
both communicators, if callbacks are `Disciplined` (location callbacks call nothing but
`getLocation`, for ids that `isCached` confirms, existence callbacks anything but
`entityExists`):

| Theorem | States |
|---------|--------|
| `CallbacksAreKept` | `Disciplined => (Spec => []CallbacksKept)` |
| `WaitersAreServed` | `Disciplined => (Spec => []WaitersServed)` |

Assumptions: `CacheSizeAssumption` (a cache has at least one entry; with none the
code's first insertion is undefined), `ConstantsAssumption` and `CallbacksAssumption`
(the types of the constants; `no_node` is not a rank), `AbsentAssumption` (the marker
of an empty directory slot, or of a key without an iterator, is neither a record nor a
cell), all of them about constants only, and `CellsAssumption` of `LocationCache` (the
cells an allocator can hand out are finitely many and at least as many as a full cache
holds). `Disciplined` is not an assumption on the code but the hypothesis of the two
theorems on callbacks: without it `CallbacksKept` fails (`callbacks_retry`, and section
5). `Ordered` and `Paced` are hypotheses of theorems in the same way, and without
either of them TLC refutes `MovesForward` and `ImplementsService`.

**The argument for the coordinator.** `LocDataProofs` says what each operator does to the type, to
the bound, to the set of keys and to the directory. `CoordinatorProofs` reduces
each action to its effect: which channels gain or lose which message, which
records appear. The invariant is then built in layers, each relying on the one
before:

1. `TypeOK`, `CacheBounded`. Distinct keys are needed for a removal by position
   to remove the key.
2. `Placement`. `HomeInDirectory` is not inductive: `announceLocation` inserts
   into the directory of whichever rank handles an `updateHome`, and `update()`
   into the cache of whichever rank handles a response or emigrates an entity
   its directory does not hold. `Routed` says that an `updateHome` only travels
   to the home and a response only from it to another rank; `AskersRouted` that the home
   is never among its own askers, so that it sends itself nothing;
   `LocalInDirectory` that an entity emigrating from its home is in the
   directory, so that its record does not go to the cache.
3. Hosting. `OneHost` bounds where an entity is registered, `HomeLearns` says
   that the home has an entry or an `updateHome` under way, which gives
   `HomeKnows`. `PacedHome` adds that with paced moves the entry names the owner
   or the only `updateHome` in flight does; an older one left in flight would
   undo it, so its absence is part of the invariant.
4. Waiters. `NoForgottenWaiter`, `NoForgottenExists` and `AnsweredRemembered` are
   inductive given the layers below: a handler that takes the request away puts
   an answer or a buffer entry in its place, and `announceLocation` turns every
   buffer entry into an answer at the moment the home comes to know the entity.
5. Askers. `AskersConverge` speaks of quiet states only and is not inductive.
   `AskersFollow` says of every state what each rank the home has answered is
   going to believe: the last word on its channel from the home is what the directory
   says, or, if there is none, its cached record is. A refresh appends a new last
   word to every such channel at the moment the directory changes. Between the two
   halves of a move, and until the `updateHome` is handled, directory and registrations
   differ and the statement is suspended; that it holds again afterwards
   rests on `PacedHome`. `Ordered` is needed where a rank handles a response: only
   the head of a channel is handled, so what is left ends in the same word.

**The argument for the itineraries.** `HistInv` ties the history to the state: the
newest place of an itinerary is where the entity is or is going (`Heads`), no
existence message is in flight before some rank has asked (`Unasked`), and
`LeftBehind`. It needs only the placement of records and `OneHost`: an
emigration writes the newest place, which lies beyond all others, and an append
can only put places behind it.

There is then no forwarding circle. Let nothing be under way about a living entity,
and suppose that a set of ranks hands out only its own members. The home is not in
it, nor is a rank the home has answered, since these name the host
(`HomeAuthoritative`, `AskersConverge`). So every record in it is one that an emigration
left, and names a member beyond all visits to its own rank. But the members
occur in the itinerary, one of them last: its record cannot name a member. The
set may be any set of ranks, finite or not.

For the refinement three more facts are inductive (`ReadInv`). `AllPlaced`: with paced
moves, an `updateHome` in flight names the newest place, and the directory names
the newest place or, only while the entity is moving or its `updateHome` is under
way, the one before. `Reading`: what a rank hands out is the place `pos` it has
read. `Pieces`: the channel from the home is a piece of the itinerary, which is `InOrder`
for the ranks it binds. `Outline` says of every step, in one formula, all that these
facts depend on: at most one rank changes its view of the entity concerned, to
nothing, to the newest place or to what the head of its channel says; channels from a home
gain messages only at the end and only with the word of its directory, and lose
them only at the head; a directory entry that changes names the newest place; and at most one
itinerary grows, by one place. A piece whose end gains the directory's place is
a piece, and so is one that loses its head, with the rank's `pos` moved up to
it: `Follow` cannot overshoot, because it takes the first place that fits. The step of
the service follows from the same outline.

**The argument for the cache.** `Coherent` alone does not survive an eviction: it
needs that the cells of the list are distinct and carry distinct keys, and that
every iterator points into the list. The invariant relates map and list as sets;
the order is only in the list, whose contents are the abstract LRU list. The
number of entries of the map is the length of the list by the bijection between
them. Each action is then one operation of `LRUCache`, whatever cell the allocator
hands out.

**The argument for callbacks.** Under the discipline a call stack has one shape.
From the inside out it is made of queries that call their callback on the spot, at most one
loop over a vector of `pending_`, the announcement that started it, and at most
one existence call (`Nested`). What a loop over `pending_` flushes is in the records
(`Fitting`), because the handler has just stored it and the callbacks inside cannot
remove it; so a re-entrant query for it never waits and the vector never changes
under the loop. A query that waits, like every call but a query for a known id, is made
outside all loops over `pending_` and all announcements (`WhenCalled`), so that no
iterator is held into a map it grows (`OutsideUndisturbed`), and no two calls in
progress hold one to the same entry. On this rests the account of the callbacks (`Account`): each is
in one place of one vector, and has been called if and only if a loop has passed that
place or its vector is gone. `Asking` strengthens `WaitersServed`: the request
behind every vector that nobody flushes. TLC has checked the whole invariant on the
instance of the run `callbacks`.

**Model-checked only.** `LocationAnswered` and `ExistenceAnswered`: liveness under
fairness is outside the prover's reach. Every invariant, the action property and
both refinements that the passing runs check are stated by a theorem.

## 5. Where code and documentation disagree

- **A late `updateHome` wins** (`coord_unpaced`). An entity registers on n2 and
  moves to its home n1 before n1 has handled n2's `updateHome`. The late message
  overwrites the record, and the directory names n2 for good. The tests say
  "After an entity migrates, the home directory reflects the new owner."; that
  holds if moves are paced (`HomeAuthoritative`), which no documentation asks for.
- **Not every cache is refreshed** (`coord_stale_cache`). A rank that learns a
  location from `entityExists` caches it, and the home does not remember the rank;
  the same goes for the record `entityEmigrated` leaves behind. `coordinator.h`
  says other ranks "are refreshed eagerly when the location changes". The ranks
  that asked with `getLocation` are (`AskersConverge`).
- **An unregistered entity still exists** (`coord_ghost`). `unregisterEntity` away
  from the home leaves the home's entry, so `entityExists`, documented to check
  "whether an entity exists anywhere in the system", stays true.

- **A rank that names itself** (`coord_self_forward`). An existence answer (true, n2)
  is on its way to n2 while n2 hosts the entity and lets it go; it overwrites the
  record that `entityEmigrated` "repointed so local queries forward to the new
  node", and n2 hands out itself for good.
- **Callbacks erased uncalled** (`callbacks_retry`).
  `flushPending` and `existsResponse` iterate the vector in the map and erase it
  afterwards. A callback that asks again for the same id, after a negative
  existence answer or after it has cleared the cache, is pushed onto that vector,
  sends no request and is erased, or the push reallocates the vector under the
  loop. The documentation promises a "callback invoked with" the answer and does
  not restrict what callbacks may call.

Not a run of its own, but why the discipline of section 3 is as narrow as it is: a
location callback that asks for *another* id, unknown here, inserts into the `pending_`
its own `flushPending` holds an iterator into. If the insertion rehashes the map, the
erase after the loop goes through an iterator that is not valid by the standard. With
`LocCalls = {"getLocation"}` in `Callbacks.cfg` TLC finds that `CallbacksKept` fails in
four steps: a query that waits, its answer, the call of its callback, the callback's
query. Asking `isCached` first avoids it; so would erasing by key, after moving the
vector out of the map.

## 6. Not modelled

- Instance handles, collective construction order, destruction: the backend
  "owns its instance-handle representation" (`communicator.h`), and no backend
  with more than one instance is in the repository.
- A cache of size 0 (undefined behaviour), `serialize`, and copy assignment of a
  non-empty cache, which would copy iterators into another list; the code only
  assigns an empty one.
- Misuse by the embedder: two ranks registering one entity, different homes for
  one id, unregistering what lives elsewhere.
- Failures of ranks and lost messages: the code has no timeout, no retry and
  nothing persistent.
- Callbacks together with several ranks: `Callbacks` has one rank in an environment,
  `Coordinator` all ranks with callbacks that call nothing.
- The vendored fmt library, build files, CI, tests and example. fmt makes up about
  17,000 of the repository's 18,000 lines of source and is used for one line
  of output in `examples/resolve.cc`; every function of `src/loc` that changes
  state is modelled.

## 7. Plan

The safety part is complete: every invariant the runs check is proved for all
instances. What would go further:

1. Liveness stays with TLC, on the instance of `coord_live`. The proved
   invariants `NoForgottenWaiter` and `NoForgottenExists` are its safety half:
   a callback that waits always has something in flight or buffered that will
   flush it.
2. If `existsRequest` came to remember its requester, or messages to carry a version,
   `CachesConverge`, `NoForwardingLoop` and `MigrationReflected` should become
   passing properties: the runs of section 5 are their regression tests.
3. A backend that multiplexes instances, once the repository has one, would bring
   the instance handles into the model.
