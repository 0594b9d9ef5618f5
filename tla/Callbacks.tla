------------------------------ MODULE Callbacks ------------------------------
(***************************************************************************)
(* One coordinator with its callbacks run step by step.  A callback is     *)
(* called while the vector that holds it is being iterated (flushPending,  *)
(* existsResponse) or from inside the query it answers, and may itself     *)
(* call the coordinator: the model keeps the call stack.  The other ranks  *)
(* are an environment that answers requests and refreshes caches.          *)
(*                                                                         *)
(* Two communicators: one that dispatches messages from poll, outside any  *)
(* callback, and the in-process one of tests/tpl (Inline), which has one   *)
(* coordinator play every rank and runs a handler inside send.  Which node *)
(* a record names is not observed: only whether there is one.              *)
(*                                                                         *)
(* flushPending, existsResponse and announceLocation hold iterators, into  *)
(* a vector and into the unordered_map that owns it, over the callbacks    *)
(* they call, and erase through them.  Entries are named by their id here; *)
(* that an iterator held no longer leads to its entry is what wild says,   *)
(* and nothing is claimed of the program from then on.                     *)
(***************************************************************************)
EXTENDS LocData

CONSTANTS
  Entity, HomeHere,       \* the ids, and those whose home is this rank
  This, There,            \* this rank, and another one
  Backends,               \* communicators: "poll" or "inline", or both
  LocCalls, ExistsCalls,  \* what getLocation and entityExists callbacks call;
                          \* "getCached": getLocation of what isCached confirms
  MaxCallbacks            \* bound: queries made, each with a callback

ASSUME CallbacksAssumption ==
  /\ HomeHere \subseteq Entity
  /\ This # There
  /\ Backends \subseteq {"poll", "inline"}
  /\ MaxCallbacks \in Nat
  /\ Absent \notin LocRecord({This, There})

VARIABLES
  backend,        \* the communicator of this behaviour
  local_registered_, recs_,
  waiters,        \* [map][id] the vectors of pending_ and pending_exists_
  pending_home_,  \* [id] own requests this rank has buffered as home (Inline)
  loc_asks_,      \* ids for which the home remembers this rank
  asked,          \* <<map, id>> of the requests other ranks owe an answer
  stack,          \* the calls in progress, innermost first
  issued,         \* callbacks handed over so far; they are numbered
  called,         \* [callback] how often it has been called
  wild            \* a call in progress holds an iterator that is not valid

recVars  == <<local_registered_, recs_>>
askVars  == <<pending_home_, loc_asks_, asked>>
cbVars   == <<issued, called>>
vars     == <<backend, recVars, waiters, askVars, stack, cbVars, wild>>

\* send runs the handler before it returns.
Inline == backend = "inline"

Map == {"pending_", "pending_exists_"}

Init ==
  /\ backend \in Backends
  /\ local_registered_ = {}
  /\ recs_ = EmptyLookup(Entity)
  /\ waiters = [map \in Map |-> [e \in Entity |-> <<>>]]
  /\ pending_home_ = [e \in Entity |-> 0]
  /\ loc_asks_ = {}
  /\ asked = {}
  /\ stack = <<>>
  /\ issued = 0
  /\ called = [c \in 1..MaxCallbacks |-> 0]
  /\ wild = FALSE

-----------------------------------------------------------------------------
(* The call stack                                                          *)

\* A loop over the vector map[e]: begin and end are taken before it starts.
Flush(map, e) == [op |-> map, id |-> e, next |-> 0,
                  end |-> Len(waiters[map][e]), hit |-> FALSE]

\* A query that calls its callback on the spot.
Hit(map, e) == [op |-> map, id |-> e, next |-> 1, end |-> 1, hit |-> TRUE]

\* announceLocation with the steps it has left.
Announce(e, node, todo) ==
  [op |-> "announce", id |-> e, node |-> node, todo |-> todo]

Top == Head(stack)

\* The innermost call has come as far as frame says.
Resumed(frame) == <<frame>> \o Tail(stack)

\* The call may be made now: by the embedder, or by the running callback.
May(call) ==
  \/ stack = <<>>
  \/ /\ stack # <<>> /\ Top.op \in Map /\ Top.next > 0
     /\ call \in (IF Top.op = "pending_" THEN LocCalls ELSE ExistsCalls)

Polls == stack = <<>> /\ ~Inline

Iterated(frames, map, e) ==
  \E i \in DOMAIN frames :
    frames[i].op = map /\ frames[i].id = e /\ ~frames[i].hit

\* An announcement of e holds pend_it, from the loop over the buffered requests
\* to the erase after it.
Answering(frames, e) ==
  \E i \in DOMAIN frames :
    frames[i].op = "announce" /\ frames[i].id = e /\ "erase" \in ToSet(frames[i].todo)

\* A push onto map[e] may move what a call in progress holds: the vector of e
\* may be reallocated, and a key that is new may have the map rehashed, which
\* invalidates the iterators to the entries of all ids.
Disturbs(map, e) ==
  IF waiters[map][e] = <<>> THEN \E d \in Entity : Iterated(stack, map, d)
                            ELSE Iterated(stack, map, e)

\* So may a push onto pending_home_[e].
DisturbsHome(e) ==
  IF pending_home_[e] = 0 THEN \E d \in Entity : Answering(stack, d)
                          ELSE Answering(stack, e)

\* flushPending, and the loop of existsResponse, begin if there are waiters.
StartFlush(map, e, frames) ==
  IF waiters[map][e] = <<>> THEN frames ELSE <<Flush(map, e)>> \o frames

\* One callback after the other ...
CallNext ==
  /\ stack # <<>> /\ Top.op \in Map /\ Top.next < Top.end
  /\ stack' = Resumed([Top EXCEPT !.next = @ + 1])
  /\ LET c == waiters[Top.op][Top.id][Top.next + 1]
     IN  called' = [called EXCEPT ![c] = @ + 1]
  /\ UNCHANGED <<recVars, waiters, askVars, issued, wild>>

\* The vector is not erased after the loop.
Erased_Not(map, e) == waiters

\* map.erase(it), where it still leads to the entry of e.
Erased(map, e) == [waiters EXCEPT ![map][e] = <<>>]

\* ... and after the last one the entry is erased through the iterator found
\* before the first; an enclosing loop over the same entry is left with one
\* that is not valid.  A query just returns.
Return ==
  /\ stack # <<>> /\ Top.op \in Map /\ Top.next = Top.end
  /\ stack' = Tail(stack)
  /\ waiters' = IF Top.hit THEN waiters ELSE Erased(Top.op, Top.id)
  /\ wild' = (wild \/ (~Top.hit /\ Iterated(Tail(stack), Top.op, Top.id)))
  /\ UNCHANGED <<recVars, askVars, cbVars>>

-----------------------------------------------------------------------------
(* announceLocation.  Sends to other ranks change nothing here; an inline   *)
(* send to an asker or requester runs resolveResponse on this rank.        *)

announceLocation(e, node) ==
  /\ recs_' = LookupInsert(recs_, This, e, This, makeRec(This, node))
  /\ stack' = <<Announce(e, node,
                  (IF Inline /\ e \in loc_asks_ THEN <<"resolve">> ELSE <<>>)
                    \o <<"answer", "flush">>)>> \o stack

\* The rest of announceLocation, once the step at the head of todo is done.
Rest == Resumed([Top EXCEPT !.todo = Tail(@)])

\* The loop over n buffered requests, and the erase after it.
Answers(n) ==
  [i \in 1..(2 * n) |-> IF i % 2 = 1 THEN "resolve" ELSE "remember"]
    \o <<"erase">>

AnnounceStep ==
  /\ stack # <<>> /\ Top.op = "announce" /\ Top.todo # <<>>
  /\ \/ /\ Head(Top.todo) = "resolve"
        /\ recs_' = LookupUpdate(recs_, Top.id, makeRec(This, Top.node))
        /\ stack' = StartFlush("pending_", Top.id, Rest)
        /\ UNCHANGED <<pending_home_, loc_asks_, wild>>
     \/ /\ Head(Top.todo) = "answer"
        /\ stack' = IF pending_home_[Top.id] = 0
                    THEN Rest
                    ELSE Resumed([Top EXCEPT !.todo =
                                    Answers(pending_home_[Top.id]) \o Tail(@)])
        /\ UNCHANGED <<recs_, pending_home_, loc_asks_, wild>>
     \/ /\ Head(Top.todo) = "remember"
        /\ loc_asks_' = loc_asks_ \cup {Top.id}
        /\ stack' = Rest
        /\ UNCHANGED <<recs_, pending_home_, wild>>
     \/ /\ Head(Top.todo) = "erase"
        /\ pending_home_' = [pending_home_ EXCEPT ![Top.id] = 0]
        /\ stack' = Rest
        /\ wild' = (wild \/ Answering(Tail(stack), Top.id))
        /\ UNCHANGED <<recs_, loc_asks_>>
     \/ /\ Head(Top.todo) = "flush"
        /\ stack' = StartFlush("pending_", Top.id, Rest)
        /\ UNCHANGED <<recs_, pending_home_, loc_asks_, wild>>
  /\ UNCHANGED <<local_registered_, waiters, asked, cbVars>>

AnnounceReturn ==
  /\ stack # <<>> /\ Top.op = "announce" /\ Top.todo = <<>>
  /\ stack' = Tail(stack)
  /\ UNCHANGED <<recVars, waiters, askVars, cbVars, wild>>

-----------------------------------------------------------------------------
(* Calls of the public API                                                 *)

Known(e) == e \in local_registered_ \/ LookupExists(recs_, e)

\* entityImmigrated is the same call.
registerEntity(e) ==
  /\ May("registerEntity")
  /\ e \notin local_registered_
  /\ local_registered_' = local_registered_ \cup {e}
  /\ IF e \in HomeHere \/ Inline      \* inline: updateHome runs here, too
     THEN announceLocation(e, This)
     ELSE UNCHANGED <<recs_, stack>>
  /\ UNCHANGED <<waiters, askVars, cbVars, wild>>

entityEmigrated(e) ==
  /\ May("entityEmigrated")
  /\ e \in local_registered_
  /\ local_registered_' = local_registered_ \ {e}
  /\ recs_' = LookupUpdate(recs_, e, makeRec(This, There))
  /\ UNCHANGED <<waiters, askVars, stack, cbVars, wild>>

unregisterEntity(e) ==
  /\ May("unregisterEntity")
  /\ e \in local_registered_
  /\ local_registered_' = local_registered_ \ {e}
  /\ recs_' = LookupRemove(recs_, e)
  /\ UNCHANGED <<waiters, askVars, stack, cbVars, wild>>

clearCache ==
  /\ May("clearCache")
  /\ recs_' = LookupClearCache(recs_)
  /\ UNCHANGED <<local_registered_, waiters, askVars, stack, cbVars, wild>>

NewCallback == issued < MaxCallbacks /\ issued' = issued + 1

\* The query calls its callback before it returns.
AnsweredHere(map, e) ==
  /\ recs_' = IF e \in local_registered_ \/ ~LookupExists(recs_, e)
              THEN recs_ ELSE LookupGet(recs_, e)
  /\ stack' = <<Hit(map, e)>> \o stack
  /\ called' = [called EXCEPT ![issued'] = @ + 1]
  /\ UNCHANGED <<local_registered_, waiters, askVars, wild>>

\* The callback is pushed onto map[e].  When vectors and maps grow is the
\* library's choice: a push that may disturb what a call holds need not.
Waits(map, e, disturbs) ==
  /\ waiters' = [waiters EXCEPT ![map][e] = Append(@, issued')]
  /\ wild' \in {wild, wild \/ disturbs}
  /\ UNCHANGED <<recVars, called>>

\* Every waiter but the first sends a request.
First_Others(map, e) == waiters[map][e] # <<>>

\* list.size() == 1 after the push: this waiter sends the request.
First(map, e) == waiters[map][e] = <<>>

\* A query that waits is pushed onto pending_, its inline request onto
\* pending_home_.
DisturbsQuery(e) ==
  \/ Disturbs("pending_", e)
  \/ First("pending_", e) /\ e \notin HomeHere /\ Inline /\ DisturbsHome(e)

getLocation(e) ==
  /\ May("getLocation") \/ (Known(e) /\ May("getCached"))
  /\ NewCallback
  /\ \/ Known(e) /\ AnsweredHere("pending_", e)
     \/ /\ ~Known(e)
        /\ Waits("pending_", e, DisturbsQuery(e))
        /\ IF First("pending_", e) /\ e \notin HomeHere
           THEN IF Inline             \* locationRequest finds it unknown
                THEN /\ pending_home_' = [pending_home_ EXCEPT ![e] = @ + 1]
                     /\ UNCHANGED asked
                ELSE /\ asked' = asked \cup {<<"pending_", e>>}
                     /\ UNCHANGED pending_home_
           ELSE UNCHANGED <<asked, pending_home_>>
        /\ UNCHANGED <<loc_asks_, stack>>

entityExists(e) ==
  /\ May("entityExists")
  /\ NewCallback
  /\ \/ (Known(e) \/ e \in HomeHere) /\ AnsweredHere("pending_exists_", e)
     \/ /\ ~Known(e) /\ e \notin HomeHere
        /\ Waits("pending_exists_", e, Disturbs("pending_exists_", e))
        /\ asked' = IF First("pending_exists_", e) /\ ~Inline
                    THEN asked \cup {<<"pending_exists_", e>>} ELSE asked
        /\ stack' = IF First("pending_exists_", e) /\ Inline
                    THEN <<[Flush("pending_exists_", e) EXCEPT !.end = 1]>> \o stack
                    ELSE stack        \* inline: existsResponse(false) runs here
        /\ UNCHANGED <<pending_home_, loc_asks_>>

-----------------------------------------------------------------------------
(* Messages of other ranks, handled in poll.  Their requests are answered  *)
(* or buffered and change nothing a callback of this rank can meet.        *)

updateHome(e) ==
  /\ Polls /\ e \in HomeHere
  /\ announceLocation(e, There)
  /\ UNCHANGED <<local_registered_, waiters, askVars, cbVars, wild>>

\* The answer to a request, or an eager refresh (a second answer under way is
\* one, too).
resolveResponse(e) ==
  /\ Polls /\ (<<"pending_", e>> \in asked \/ e \in loc_asks_)
  /\ \/ e \in loc_asks_ /\ UNCHANGED <<asked, loc_asks_>>
     \/ /\ <<"pending_", e>> \in asked
        /\ asked' = asked \ {<<"pending_", e>>}
        /\ loc_asks_' = loc_asks_ \cup {e}
  /\ recs_' = LookupUpdate(recs_, e, makeRec(This, There))
  /\ stack' = StartFlush("pending_", e, stack)
  /\ UNCHANGED <<local_registered_, waiters, pending_home_, cbVars, wild>>

existsResponse(e, exists) ==
  /\ Polls /\ <<"pending_exists_", e>> \in asked
  /\ asked' = asked \ {<<"pending_exists_", e>>}
  /\ recs_' = IF exists THEN LookupUpdate(recs_, e, makeRec(This, There))
              ELSE recs_
  /\ stack' = StartFlush("pending_exists_", e, stack)
  /\ UNCHANGED <<local_registered_, waiters, pending_home_, loc_asks_,
                 cbVars, wild>>

Next ==
  /\ \/ CallNext \/ Return \/ AnnounceStep \/ AnnounceReturn \/ clearCache
     \/ \E e \in Entity :
          \/ registerEntity(e) \/ entityEmigrated(e) \/ unregisterEntity(e)
          \/ getLocation(e) \/ entityExists(e)
          \/ updateHome(e) \/ resolveResponse(e)
          \/ \E exists \in BOOLEAN : existsResponse(e, exists)
  /\ UNCHANGED backend

Spec == Init /\ [][Next]_vars

-----------------------------------------------------------------------------
(* Properties                                                              *)

\* The places in the vectors where callback c still waits for its call.
Places(c) ==
  {p \in Map \X Entity \X (1..MaxCallbacks) :
     /\ p[3] \in DOMAIN waiters[p[1]][p[2]] /\ waiters[p[1]][p[2]][p[3]] = c
     /\ \A i \in DOMAIN stack :
          stack[i].op = p[1] /\ stack[i].id = p[2] /\ ~stack[i].hit
            => stack[i].next < p[3] /\ p[3] <= stack[i].end}

\* "action is invoked ... with the resolved node", "callback invoked with
\* (exists, node)" (coordinator.h): a callback handed over has been called
\* once, or waits at one place where it will be called; and no call runs on, or
\* erases through, an iterator that a reallocation, a rehash or an erase made
\* during its callbacks has invalidated.
CallbacksKept ==
  /\ ~wild
  /\ \A c \in 1..issued :
       \/ called[c] = 1 /\ Places(c) = {}
       \/ called[c] = 0 /\ \E p \in Places(c) : Places(c) = {p}

Announcing(e) == \E i \in DOMAIN stack : stack[i].op = "announce" /\ stack[i].id = e

\* Whatever callbacks do, a vector with waiters that is not being flushed is
\* going to be: its request is unanswered or buffered, the entity is being
\* announced, or this is its home and does not know it.
WaitersServed ==
  \A e \in Entity :
    /\ waiters["pending_"][e] # <<>> /\ ~Iterated(stack, "pending_", e) =>
         \/ <<"pending_", e>> \in asked
         \/ Announcing(e)
         \/ pending_home_[e] > 0 /\ ~Known(e)
         \/ e \in HomeHere /\ ~Known(e)
    /\ /\ waiters["pending_exists_"][e] # <<>>
       /\ ~Iterated(stack, "pending_exists_", e)
       => <<"pending_exists_", e>> \in asked
=============================================================================
