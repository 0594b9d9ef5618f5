-------------------------- MODULE CallbacksProofs --------------------------
(***************************************************************************)
(* For every set of ids, every number of callbacks and both communicators, *)
(* TLAPS proves of Callbacks that no callback is lost or called twice, no  *)
(* call uses an iterator that its callbacks invalidated, and no vector     *)
(* with waiters is left behind, provided that location callbacks call only *)
(* getLocation, of ids that isCached confirms, and existence callbacks     *)
(* anything but entityExists.                                              *)
(*                                                                         *)
(* The invariant speaks about the call stack.  Under the discipline a      *)
(* stack is, from the inside out: queries answered on the spot, one loop   *)
(* over pending_, the announcement that started it, one existence call;    *)
(* each of these may be missing.  Whatever is being flushed is known, so a *)
(* query for it never waits, and the vectors being iterated stay as they   *)
(* are.  A query that does wait is made outside the loops over pending_    *)
(* and the announcements, so that a map it grows is one no call holds an   *)
(* iterator into.  A stack is taken apart as its innermost call and the others, and  *)
(* the lemmas say what pushing a call does to each part of the invariant.  *)
(***************************************************************************)
EXTENDS Callbacks, LocDataProofs

\* What callbacks may call for the properties to hold: the sets of the
\* passing run, and all smaller ones.
Disciplined ==
  /\ LocCalls \subseteq {"getCached"}
  /\ "entityExists" \notin ExistsCalls

Step == {"resolve", "answer", "remember", "erase", "flush"}

\* The calls a stack is made of: loops and queries, and announcements.
Frame == [op : Map, id : Entity, next : Nat, end : Nat, hit : BOOLEAN]
           \cup [op : {"announce"}, id : Entity, node : {This, There},
                 todo : Seq(Step)]

Record == LocRecord({This, There})

Types ==
  /\ WellFormed(recs_, Entity, Record)
  /\ backend \in {"poll", "inline"}
  /\ local_registered_ \subseteq Entity
  /\ waiters \in [Map -> [Entity -> Seq(Nat)]]
  /\ pending_home_ \in [Entity -> Nat]
  /\ loc_asks_ \subseteq Entity
  /\ asked \subseteq Map \X Entity
  /\ stack \in Seq(Frame)
  /\ issued \in 0..MaxCallbacks
  /\ called \in [1..MaxCallbacks -> Nat]

-----------------------------------------------------------------------------
(* The inductive invariant: the call stack                                 *)

\* f may be in progress inside g.
Above(f, g) ==
  /\ g.op = "pending_" => f.op = "pending_" /\ f.hit
  /\ g.op = "announce" => f.op = "pending_" /\ (f.hit \/ f.id = g.id)
  /\ g.op = "pending_exists_" => f.op # "pending_exists_"

Nested(s) == \A i, j \in DOMAIN s : i < j => Above(s[i], s[j])

\* The vector w[map][id] a loop runs over is the one it started with, what is
\* being flushed is in the lookup l, what is being announced in its directory,
\* and an announcement has its flush ahead of it.
Fits(f, w, l) ==
  /\ f.op \in Map => /\ f.next <= f.end
                     /\ IF f.hit THEN f.next = f.end
                        ELSE f.end = Len(w[f.op][f.id])
  /\ f.op = "pending_" /\ ~f.hit => LookupExists(l, f.id)
  /\ f.op = "announce" => /\ DirExists(l.directory, f.id)
                          /\ f.todo # <<>> => f.todo[Len(f.todo)] = "flush"

Fitting(s, w, l) == \A i \in DOMAIN s : Fits(s[i], w, l)

\* An announcement of t that has nothing left to do has flushed its waiters,
\* or a loop of the stack s is about to.
Finishing(t, s, w) ==
  \A i \in DOMAIN t : t[i].op = "announce" /\ t[i].todo = <<>>
     => w["pending_"][t[i].id] = <<>> \/ Iterated(s, "pending_", t[i].id)

Shape == /\ Nested(stack) /\ Fitting(stack, waiters, recs_)
         /\ Finishing(stack, stack, waiters)

-----------------------------------------------------------------------------
(* The inductive invariant: callbacks and requests                         *)

\* A loop of s over the vector map[e] has called the callback at place k.
Passed(s, m, e, k) ==
  \E i \in DOMAIN s : s[i].op = m /\ s[i].id = e /\ ~s[i].hit /\ k <= s[i].next

\* Only callbacks that were handed over wait, in the order of their numbers.
Tickets == \A m \in Map, e \in Entity : \A k \in DOMAIN waiters[m][e] :
             waiters[m][e][k] \in k..issued

\* A callback in a vector has been called if and only if a loop has passed it.
Counted == \A m \in Map, e \in Entity : \A k \in DOMAIN waiters[m][e] :
             called[waiters[m][e][k]] = IF Passed(stack, m, e, k) THEN 1 ELSE 0

\* No callback waits at two places.
OnePlace ==
  \A m, n \in Map, e, d \in Entity :
    \A k \in DOMAIN waiters[m][e], l \in DOMAIN waiters[n][d] :
      waiters[m][e][k] = waiters[n][d][l] => m = n /\ e = d /\ k = l

\* A callback that has not been called is in a vector.
NoneLost ==
  \A c \in 1..issued :
    \/ called[c] = 1
    \/ /\ called[c] = 0
       /\ \E m \in Map, e \in Entity :
            \E k \in DOMAIN waiters[m][e] : waiters[m][e][k] = c

NotYet == \A c \in 1..MaxCallbacks : c > issued => called[c] = 0

Account == wild = FALSE /\ Tickets /\ Counted /\ OnePlace /\ NoneLost /\ NotYet

\* The home buffers requests of this rank only if it is this rank, and this
\* rank never asks itself whether an entity exists.
Asking ==
  /\ ~Inline => \A e \in Entity : pending_home_[e] = 0
  /\ \A e \in Entity : <<"pending_exists_", e>> \in asked => e \notin HomeHere

-----------------------------------------------------------------------------
(* The call stack as a sequence                                            *)

\* A call pushed: it is the first, the others move one place down.
LEMMA PushProperties ==
  ASSUME NEW f \in Frame, NEW s \in Seq(Frame)
  PROVE  /\ <<f>> \o s \in Seq(Frame)
         /\ <<f>> \o s # <<>>
         /\ Head(<<f>> \o s) = f
         /\ Tail(<<f>> \o s) = s
         /\ DOMAIN (<<f>> \o s) = 1..(Len(s) + 1)
         /\ DOMAIN s = 1..Len(s)
         /\ Len(s) \in Nat
         /\ (<<f>> \o s)[1] = f
         /\ \A i \in DOMAIN s : (<<f>> \o s)[i + 1] = s[i]
OBVIOUS

\* A stack that is not empty is its innermost call on top of the others.
LEMMA TopProperties ==
  ASSUME NEW s \in Seq(Frame), s # <<>>
  PROVE  /\ Head(s) \in Frame
         /\ Tail(s) \in Seq(Frame)
         /\ s = <<Head(s)>> \o Tail(s)
OBVIOUS

\* A stack stays nested under a call that may be made from every call on it.
LEMMA PushNested ==
  ASSUME NEW f \in Frame, NEW s \in Seq(Frame)
  PROVE  Nested(<<f>> \o s) <=> /\ Nested(s)
                                /\ \A i \in DOMAIN s : Above(f, s[i])
<1> DEFINE t == <<f>> \o s
<1>0. /\ DOMAIN t = 1..(Len(s) + 1) /\ DOMAIN s = 1..Len(s) /\ Len(s) \in Nat
      /\ t[1] = f /\ \A i \in DOMAIN s : t[i + 1] = s[i]
  BY PushProperties
<1> HIDE DEF t
<1>1. ASSUME Nested(t) PROVE Nested(s) /\ \A i \in DOMAIN s : Above(f, s[i])
  <2>1. ASSUME NEW i \in DOMAIN s, NEW j \in DOMAIN s, i < j
        PROVE  Above(s[i], s[j])
    BY <1>0, <1>1, <2>1 DEF Nested
  <2>2. ASSUME NEW i \in DOMAIN s PROVE Above(f, s[i])
    BY <1>0, <1>1 DEF Nested
  <2> QED BY <2>1, <2>2 DEF Nested
<1>2. ASSUME Nested(s), \A i \in DOMAIN s : Above(f, s[i]) PROVE Nested(t)
  <2> SUFFICES ASSUME NEW i \in DOMAIN t, NEW j \in DOMAIN t, i < j
               PROVE  Above(t[i], t[j])
    BY DEF Nested
  <2>1. j - 1 \in DOMAIN s /\ t[j] = s[j - 1]
    BY <1>0
  <2>2. CASE i = 1
    BY <1>0, <1>2, <2>1, <2>2
  <2>3. CASE i # 1
    <3>1. i - 1 \in DOMAIN s /\ t[i] = s[i - 1] /\ i - 1 < j - 1
      BY <1>0, <2>3
    <3> QED BY <1>2, <2>1, <3>1 DEF Nested
  <2> QED BY <2>2, <2>3
<1> QED BY <1>1, <1>2 DEF t

\* The frames of a stack fit one by one.
LEMMA PushFitting ==
  ASSUME NEW f \in Frame, NEW s \in Seq(Frame), NEW w, NEW l
  PROVE  Fitting(<<f>> \o s, w, l) <=> Fits(f, w, l) /\ Fitting(s, w, l)
<1> DEFINE t == <<f>> \o s
<1>0. /\ DOMAIN t = 1..(Len(s) + 1) /\ DOMAIN s = 1..Len(s) /\ Len(s) \in Nat
      /\ t[1] = f /\ \A i \in DOMAIN s : t[i + 1] = s[i]
  BY PushProperties
<1> HIDE DEF t
<1>1. \A i \in DOMAIN t : i = 1 \/ (i - 1 \in DOMAIN s /\ t[i] = s[i - 1])
  BY <1>0
<1>2. \A i \in DOMAIN s : i + 1 \in DOMAIN t
  BY <1>0
<1>3. 1 \in DOMAIN t
  BY <1>0
<1> QED BY <1>0, <1>1, <1>2, <1>3 DEF Fitting, t

\* So do its announcements.
LEMMA PushFinishing ==
  ASSUME NEW f \in Frame, NEW s \in Seq(Frame), NEW r, NEW w
  PROVE  Finishing(<<f>> \o s, r, w) <=>
           /\ f.op = "announce" /\ f.todo = <<>> =>
                w["pending_"][f.id] = <<>> \/ Iterated(r, "pending_", f.id)
           /\ Finishing(s, r, w)
<1> DEFINE t == <<f>> \o s
<1>0. /\ DOMAIN t = 1..(Len(s) + 1) /\ DOMAIN s = 1..Len(s) /\ Len(s) \in Nat
      /\ t[1] = f /\ \A i \in DOMAIN s : t[i + 1] = s[i]
  BY PushProperties
<1> HIDE DEF t
<1>1. \A i \in DOMAIN t : i = 1 \/ (i - 1 \in DOMAIN s /\ t[i] = s[i - 1])
  BY <1>0
<1>2. \A i \in DOMAIN s : i + 1 \in DOMAIN t
  BY <1>0
<1>3. 1 \in DOMAIN t
  BY <1>0
<1> DEFINE P(g) == g.op = "announce" /\ g.todo = <<>>
                     => w["pending_"][g.id] = <<>> \/ Iterated(r, "pending_", g.id)
<1>4. /\ Finishing(t, r, w) <=> \A i \in DOMAIN t : P(t[i])
      /\ Finishing(s, r, w) <=> \A i \in DOMAIN s : P(s[i])
  BY DEF Finishing
<1> HIDE DEF P
<1>5. Finishing(t, r, w) <=> P(f) /\ Finishing(s, r, w)
  BY <1>0, <1>1, <1>2, <1>3, <1>4
<1> QED BY <1>5 DEF P, t

\* The loops of a stack: whether one runs over a vector, and how far it is.
LEMMA PushLoops ==
  ASSUME NEW f \in Frame, NEW s \in Seq(Frame), NEW m, NEW e, NEW k
  PROVE  /\ Iterated(<<f>> \o s, m, e) <=>
              (f.op = m /\ f.id = e /\ ~f.hit) \/ Iterated(s, m, e)
         /\ Passed(<<f>> \o s, m, e, k) <=>
              (f.op = m /\ f.id = e /\ ~f.hit /\ k <= f.next) \/ Passed(s, m, e, k)
<1> DEFINE t == <<f>> \o s
<1>0. /\ DOMAIN t = 1..(Len(s) + 1) /\ DOMAIN s = 1..Len(s) /\ Len(s) \in Nat
      /\ t[1] = f /\ \A i \in DOMAIN s : t[i + 1] = s[i]
  BY PushProperties
<1> HIDE DEF t
<1>1. \A i \in DOMAIN t : i = 1 \/ (i - 1 \in DOMAIN s /\ t[i] = s[i - 1])
  BY <1>0
<1>2. \A i \in DOMAIN s : i + 1 \in DOMAIN t
  BY <1>0
<1>3. 1 \in DOMAIN t
  BY <1>0
<1>4. Iterated(t, m, e) <=> (f.op = m /\ f.id = e /\ ~f.hit) \/ Iterated(s, m, e)
  BY <1>0, <1>1, <1>2, <1>3 DEF Iterated
<1>5. Passed(t, m, e, k) <=>
        (f.op = m /\ f.id = e /\ ~f.hit /\ k <= f.next) \/ Passed(s, m, e, k)
  BY <1>0, <1>1, <1>2, <1>3 DEF Passed
<1> QED BY <1>4, <1>5 DEF t

\* An announcement of e is in progress.
Announced(s, e) == \E i \in DOMAIN s : s[i].op = "announce" /\ s[i].id = e

\* Pushing a call starts an announcement if it is one.
LEMMA PushAnnounced ==
  ASSUME NEW f \in Frame, NEW s \in Seq(Frame), NEW e
  PROVE  Announced(<<f>> \o s, e) <=>
           (f.op = "announce" /\ f.id = e) \/ Announced(s, e)
<1> DEFINE t == <<f>> \o s
<1>0. /\ DOMAIN t = 1..(Len(s) + 1) /\ DOMAIN s = 1..Len(s) /\ Len(s) \in Nat
      /\ t[1] = f /\ \A i \in DOMAIN s : t[i + 1] = s[i]
  BY PushProperties
<1> HIDE DEF t
<1>1. \A i \in DOMAIN t : i = 1 \/ (i - 1 \in DOMAIN s /\ t[i] = s[i - 1])
  BY <1>0
<1>2. \A i \in DOMAIN s : i + 1 \in DOMAIN t
  BY <1>0
<1>3. 1 \in DOMAIN t
  BY <1>0
<1> QED BY <1>0, <1>1, <1>2, <1>3 DEF Announced, t

\* Nothing runs, nothing is iterated.
LEMMA EmptyStack ==
  /\ <<>> \in Seq(Frame)
  /\ Nested(<<>>)
  /\ \A w, l : Fitting(<<>>, w, l)
  /\ \A r, w : Finishing(<<>>, r, w)
  /\ \A m, e : ~Iterated(<<>>, m, e)
  /\ \A m, e, k : ~Passed(<<>>, m, e, k)
  /\ \A e : ~Announced(<<>>, e)
<1>1. <<>> \in Seq(Frame) /\ DOMAIN <<>> = {}
  OBVIOUS
<1> QED BY <1>1 DEF Nested, Fitting, Finishing, Iterated, Passed, Announced

-----------------------------------------------------------------------------
(* Frames                                                                  *)

\* Every frame has an id; loops and queries have a place in their vector,
\* announcements a node and steps.
LEMMA FrameFields ==
  ASSUME NEW f \in Frame
  PROVE  /\ f.id \in Entity
         /\ f.op \in Map \/ f.op = "announce"
         /\ f.op \in Map => f.next \in Nat /\ f.end \in Nat /\ f.hit \in BOOLEAN
         /\ f.op = "announce" => f.node \in {This, There} /\ f.todo \in Seq(Step)
BY DEF Frame, Map

\* A loop goes on to its next callback.
LEMMA NextFields ==
  ASSUME NEW f \in Frame, f.op \in Map
  PROVE  LET g == [f EXCEPT !.next = @ + 1]
         IN  /\ g \in Frame
             /\ g.op = f.op /\ g.id = f.id /\ g.end = f.end /\ g.hit = f.hit
             /\ g.next = f.next + 1
BY DEF Frame, Map

\* An announcement goes on to its next step.
LEMMA TodoFields ==
  ASSUME NEW f \in Frame, f.op = "announce", NEW x \in Seq(Step)
  PROVE  LET g == [f EXCEPT !.todo = x]
         IN  g \in Frame /\ g.op = "announce" /\ g.id = f.id /\ g.todo = x
BY DEF Frame, Map

\* A flush starts before the first of all the callbacks in its vector.
LEMMA FlushFields ==
  ASSUME Types, NEW map \in Map, NEW e \in Entity
  PROVE  /\ Flush(map, e) \in Frame
         /\ Flush(map, e).op = map /\ Flush(map, e).id = e
         /\ Flush(map, e).next = 0 /\ ~Flush(map, e).hit
         /\ Flush(map, e).end = Len(waiters[map][e])
         /\ Len(waiters[map][e]) \in Nat
<1>1. waiters[map][e] \in Seq(Nat)
  BY DEF Types
<1>2. Len(waiters[map][e]) \in Nat
  BY <1>1
<1> QED BY <1>2 DEF Flush, Frame, Map

\* A query answered on the spot has made its call.
LEMMA HitFields ==
  ASSUME NEW map \in Map, NEW e \in Entity
  PROVE  /\ Hit(map, e) \in Frame
         /\ Hit(map, e).op = map /\ Hit(map, e).id = e
         /\ Hit(map, e).next = 1 /\ Hit(map, e).end = 1 /\ Hit(map, e).hit
BY DEF Hit, Frame, Map

\* A new announcement has all its steps ahead of it.
LEMMA AnnounceFields ==
  ASSUME NEW e \in Entity, NEW node \in {This, There}, NEW todo \in Seq(Step)
  PROVE  /\ Announce(e, node, todo) \in Frame
         /\ Announce(e, node, todo).op = "announce"
         /\ Announce(e, node, todo).id = e
         /\ Announce(e, node, todo).todo = todo
BY DEF Announce, Frame, Map

\* There are two maps of vectors, and an announcement iterates neither.
LEMMA OpsDiffer ==
  /\ "pending_" \in Map /\ "pending_exists_" \in Map /\ "announce" \notin Map
  /\ \A m \in Map : m = "pending_" \/ m = "pending_exists_"
BY DEF Map

\* Steps put in front of others leave the last one where it is.
LEMMA LastStep ==
  ASSUME NEW x \in Seq(Step), NEW u \in Seq(Step), u # <<>>, u[Len(u)] = "flush"
  PROVE  /\ x \o u \in Seq(Step)
         /\ x \o u # <<>>
         /\ (x \o u)[Len(x \o u)] = "flush"
<1>1. Len(u) \in Nat /\ Len(u) > 0 /\ Len(x) \in Nat
  OBVIOUS
<1>2. /\ x \o u \in Seq(Step) /\ Len(x \o u) = Len(x) + Len(u)
      /\ (x \o u)[Len(x) + Len(u)] = u[Len(u)]
  BY <1>1
<1>3. x \o u # <<>>
  BY <1>1, <1>2
<1> QED BY <1>2, <1>3

\* The steps of an announcement end with the flush, whatever is left of them.
LEMMA TodoEnds ==
  ASSUME NEW todo \in Seq(Step), todo # <<>>, todo[Len(todo)] = "flush"
  PROVE  /\ Tail(todo) \in Seq(Step)
         /\ Tail(todo) # <<>> => Tail(todo)[Len(Tail(todo))] = "flush"
         /\ Head(todo) # "flush" => Tail(todo) # <<>>
         /\ \A x \in Seq(Step) : Tail(todo) # <<>> =>
              /\ x \o Tail(todo) \in Seq(Step)
              /\ x \o Tail(todo) # <<>>
              /\ (x \o Tail(todo))[Len(x \o Tail(todo))] = "flush"
<1>1. /\ Tail(todo) \in Seq(Step)
      /\ Tail(todo) # <<>> => Tail(todo)[Len(Tail(todo))] = "flush"
  OBVIOUS
<1>2. Head(todo) # "flush" => Tail(todo) # <<>>
  <2>1. Len(todo) \in Nat /\ Len(todo) > 0 /\ Head(todo) = todo[1]
    OBVIOUS
  <2>2. Len(Tail(todo)) = Len(todo) - 1
    BY HeadTailProperties
  <2>3. Len(<<>>) = 0
    OBVIOUS
  <2>4. CASE Tail(todo) = <<>>
    <3>1. Len(todo) - 1 = 0
      BY <2>2, <2>3, <2>4
    <3>2. Len(todo) = 1
      BY <2>1, <3>1
    <3> QED BY <2>1, <3>2
  <2> QED BY <2>4
<1>3. ASSUME NEW x \in Seq(Step), Tail(todo) # <<>>
      PROVE  /\ x \o Tail(todo) \in Seq(Step)
             /\ x \o Tail(todo) # <<>>
             /\ (x \o Tail(todo))[Len(x \o Tail(todo))] = "flush"
  BY <1>1, <1>3, LastStep
<1> QED BY <1>1, <1>2, <1>3

\* Answering buffered requests takes steps of an announcement.
LEMMA AnswersType == ASSUME NEW n \in Nat PROVE Answers(n) \in Seq(Step)
<1> DEFINE a == [i \in 1..(2 * n) |-> IF i % 2 = 1 THEN "resolve" ELSE "remember"]
<1>1. 2 * n \in Nat
  OBVIOUS
<1>2. \A i \in 1..(2 * n) :
        (IF i % 2 = 1 THEN "resolve" ELSE "remember") \in Step
  BY DEF Step
<1>3. a \in [1..(2 * n) -> Step]
  BY <1>2
<1>4. a \in Seq(Step)
  BY <1>1, <1>3, SeqDef
<1>5. <<"erase">> \in Seq(Step)
  BY DEF Step
<1> HIDE DEF a
<1>6. a \o <<"erase">> \in Seq(Step)
  BY <1>4, <1>5
<1> QED BY <1>6 DEF Answers, a

-----------------------------------------------------------------------------
(* What callbacks may call, and what that says about the stack             *)

\* At most one existence loop, with nothing on it, is in progress.
Outside == \A i \in DOMAIN stack : stack[i].op = "pending_exists_"

\* Every call but getLocation of a known id is made from outside all flushes
\* of pending_ and all announcements, and entityExists from outside everything.
LEMMA WhenCalled ==
  ASSUME Disciplined, Types, Nested(stack), NEW call, May(call),
         call # "getCached"
  PROVE  /\ Outside
         /\ call = "entityExists" => stack = <<>>
<1>1. CASE stack = <<>>
  <2>1. DOMAIN <<>> = {}
    OBVIOUS
  <2> QED BY <1>1, <2>1 DEF Outside
<1>2. CASE stack # <<>>
  <2>1. /\ stack \in Seq(Frame) /\ Len(stack) \in Nat /\ Len(stack) > 0
        /\ DOMAIN stack = 1..Len(stack) /\ Head(stack) = stack[1]
    BY <1>2 DEF Types
  <2>2. stack[1].op \in Map /\ stack[1].op # "pending_"
    BY <1>2, <2>1 DEF May, Top, Disciplined
  <2>3. stack[1].op = "pending_exists_"
    BY <2>2 DEF Map
  <2>4. call # "entityExists"
    BY <1>2, <2>1, <2>3 DEF May, Top, Disciplined
  <2>5. ASSUME NEW j \in DOMAIN stack, j # 1 PROVE FALSE
    <3>1. 1 < j /\ 1 \in DOMAIN stack
      BY <2>1, <2>5
    <3>2. Above(stack[1], stack[j])
      BY <3>1 DEF Nested
    <3>3. stack[j] \in Frame
      BY <2>1
    <3> QED BY <2>3, <3>2, <3>3, FrameFields DEF Above, Map
  <2> QED BY <1>2, <2>3, <2>4, <2>5 DEF Outside
<1> QED BY <1>1, <1>2

\* Outside the loops no id is being flushed or announced.
LEMMA OutsideProperties ==
  ASSUME Outside
  PROVE  /\ \A e : ~Iterated(stack, "pending_", e)
         /\ \A e : ~Announced(stack, e)
BY DEF Outside, Iterated, Announced

\* Only an announcement holds an iterator into pending_home_.
LEMMA AnsweringAnnounced == \A s, e : Answering(s, e) => Announced(s, e)
BY DEF Answering, Announced

\* Outside the loops a query that waits disturbs nothing: no call holds an
\* iterator into pending_ or pending_home_.
LEMMA OutsideUndisturbed ==
  ASSUME Outside, NEW e
  PROVE  ~DisturbsQuery(e)
BY OutsideProperties, AnsweringAnnounced DEF DisturbsQuery, Disturbs, DisturbsHome

\* Where nothing runs, neither does a query of existence.
LEMMA EmptyUndisturbed ==
  ASSUME stack = <<>>, NEW map, NEW e
  PROVE  ~Disturbs(map, e)
<1>1. DOMAIN <<>> = {}
  OBVIOUS
<1> QED BY <1>1 DEF Disturbs, Iterated

\* The empty stack is outside everything.
LEMMA EmptyIsOutside == ASSUME stack = <<>> PROVE Outside
<1>1. DOMAIN <<>> = {}
  OBVIOUS
<1> QED BY <1>1 DEF Outside

\* No vector is iterated twice at a time.
LEMMA OneLoop ==
  ASSUME NEW f \in Frame, NEW s \in Seq(Frame), Nested(<<f>> \o s),
         f.op \in Map, ~f.hit
  PROVE  /\ ~Iterated(s, f.op, f.id)
         /\ \A k : ~Passed(s, f.op, f.id, k)
<1>1. \A i \in DOMAIN s : Above(f, s[i])
  BY PushNested
<1> QED BY <1>1, FrameFields DEF Iterated, Passed, Above, Map

\* Frames go on fitting when the vectors being iterated stay as they are and
\* what is being flushed or announced stays known.
LEMMA FittingKept ==
  ASSUME NEW s \in Seq(Frame), NEW w, NEW l, NEW w2, NEW l2,
         Fitting(s, w, l),
         \A m \in Map, e \in Entity : Iterated(s, m, e) => w2[m][e] = w[m][e],
         \A e \in Entity : Iterated(s, "pending_", e) /\ LookupExists(l, e)
                             => LookupExists(l2, e),
         \A e \in Entity : Announced(s, e) /\ DirExists(l.directory, e)
                             => DirExists(l2.directory, e)
  PROVE  Fitting(s, w2, l2)
<1> SUFFICES ASSUME NEW i \in DOMAIN s PROVE Fits(s[i], w2, l2)
  BY DEF Fitting
<1> DEFINE f == s[i]
<1>1. f \in Frame /\ Fits(f, w, l)
  BY DEF Fitting
<1>2. f.op \in Map /\ ~f.hit => Iterated(s, f.op, f.id)
  BY DEF Iterated
<1>3. f.op = "announce" => Announced(s, f.id)
  BY DEF Announced
<1> HIDE DEF f
<1>4. f.id \in Entity
  BY <1>1, FrameFields
<1>5. f.op \in Map => /\ f.next <= f.end
                      /\ IF f.hit THEN f.next = f.end
                         ELSE f.end = Len(w2[f.op][f.id])
  BY <1>1, <1>2, <1>4 DEF Fits
<1>6. f.op = "pending_" /\ ~f.hit => LookupExists(l2, f.id)
  BY <1>1, <1>2, <1>4, OpsDiffer DEF Fits
<1>7. f.op = "announce" => /\ DirExists(l2.directory, f.id)
                           /\ f.todo # <<>> => f.todo[Len(f.todo)] = "flush"
  BY <1>1, <1>3, <1>4 DEF Fits
<1> QED BY <1>5, <1>6, <1>7 DEF Fits, f

\* Finished announcements stay finished when their vectors shrink and their
\* loops end with the vector empty.
LEMMA FinishingKept ==
  ASSUME NEW s \in Seq(Frame), NEW r, NEW w, NEW r2, NEW w2,
         Finishing(s, r, w),
         \A e \in Entity : Announced(s, e) =>
           w2["pending_"][e] = w["pending_"][e] \/ w2["pending_"][e] = <<>>,
         \A e \in Entity : Announced(s, e) /\ Iterated(r, "pending_", e) =>
           Iterated(r2, "pending_", e) \/ w2["pending_"][e] = <<>>
  PROVE  Finishing(s, r2, w2)
<1> SUFFICES ASSUME NEW i \in DOMAIN s, s[i].op = "announce", s[i].todo = <<>>
             PROVE  \/ w2["pending_"][s[i].id] = <<>>
                    \/ Iterated(r2, "pending_", s[i].id)
  BY DEF Finishing
<1>1. s[i].id \in Entity
  BY FrameFields
<1>2. Announced(s, s[i].id)
  BY DEF Announced
<1>3. w["pending_"][s[i].id] = <<>> \/ Iterated(r, "pending_", s[i].id)
  BY DEF Finishing
<1> QED BY <1>1, <1>2, <1>3

\* A flush begins: a loop that has called nothing yet, if there is anybody
\* to call.
LEMMA StartFlushProperties ==
  ASSUME Types, NEW map \in Map, NEW e \in Entity, NEW s \in Seq(Frame)
  PROVE  LET t == StartFlush(map, e, s)
         IN  /\ t \in Seq(Frame)
             /\ \A m, d : Iterated(t, m, d) <=>
                  \/ Iterated(s, m, d)
                  \/ m = map /\ d = e /\ waiters[map][e] # <<>>
             /\ \A m, d : \A k \in Nat \ {0} : Passed(t, m, d, k) <=> Passed(s, m, d, k)
             /\ \A d : Announced(t, d) <=> Announced(s, d)
             /\ Nested(s) /\ (\A i \in DOMAIN s : Above(Flush(map, e), s[i]))
                  => Nested(t)
             /\ \A l : Fitting(s, waiters, l) /\ (map = "pending_" => LookupExists(l, e))
                  => Fitting(t, waiters, l)
             /\ \A r, w : Finishing(s, r, w) => Finishing(t, r, w)
<1> DEFINE f == Flush(map, e)
<1>1. CASE waiters[map][e] = <<>>
  BY <1>1 DEF StartFlush
<1>2. CASE waiters[map][e] # <<>>
  <2>1. StartFlush(map, e, s) = <<f>> \o s
    BY <1>2 DEF StartFlush
  <2>2. /\ f \in Frame /\ f.op = map /\ f.id = e /\ f.next = 0 /\ ~f.hit
        /\ f.end = Len(waiters[map][e]) /\ Len(waiters[map][e]) \in Nat
    BY FlushFields
  <2> HIDE DEF f
  <2>3. <<f>> \o s \in Seq(Frame)
    BY <2>2, PushProperties
  <2>4. \A m, d : Iterated(<<f>> \o s, m, d) <=>
                    Iterated(s, m, d) \/ (m = map /\ d = e)
    BY <2>2, PushLoops
  <2>5. \A m, d : \A k \in Nat \ {0} :
          Passed(<<f>> \o s, m, d, k) <=> Passed(s, m, d, k)
    <3> TAKE m, d
    <3> TAKE k \in Nat \ {0}
    <3>1. ~(k <= f.next)
      BY <2>2
    <3> QED BY <2>2, <3>1, PushLoops
  <2>6. \A d : Announced(<<f>> \o s, d) <=> Announced(s, d)
    BY <2>2, PushAnnounced, OpsDiffer
  <2>7. Nested(s) /\ (\A i \in DOMAIN s : Above(f, s[i])) => Nested(<<f>> \o s)
    BY <2>2, PushNested
  <2>8. ASSUME NEW l, Fitting(s, waiters, l), map = "pending_" => LookupExists(l, e)
        PROVE  Fitting(<<f>> \o s, waiters, l)
    <3>1. Fits(f, waiters, l)
      BY <2>2, <2>8, OpsDiffer DEF Fits
    <3> QED BY <2>2, <2>8, <3>1, PushFitting
  <2>9. \A r, w : Finishing(s, r, w) => Finishing(<<f>> \o s, r, w)
    <3> TAKE r, w
    <3>1. f.op # "announce"
      BY <2>2, OpsDiffer
    <3> QED BY <2>2, <3>1, PushFinishing
  <2> QED BY <1>2, <2>1, <2>3, <2>4, <2>5, <2>6, <2>7, <2>8, <2>9 DEF f
<1> QED BY <1>1, <1>2

-----------------------------------------------------------------------------
(* Every step keeps types and shape                                        *)

\* What is known of the innermost call of a stack that is not empty.
LEMMA TopOfShape ==
  ASSUME Types, Shape, stack # <<>>
  PROVE  /\ Top \in Frame
         /\ Tail(stack) \in Seq(Frame)
         /\ stack = <<Top>> \o Tail(stack)
         /\ Nested(Tail(stack))
         /\ \A i \in DOMAIN Tail(stack) : Above(Top, Tail(stack)[i])
         /\ Fits(Top, waiters, recs_)
         /\ Fitting(Tail(stack), waiters, recs_)
         /\ Finishing(Tail(stack), stack, waiters)
         /\ Top.op = "announce" /\ Top.todo = <<>> =>
              waiters["pending_"][Top.id] = <<>> \/ Iterated(stack, "pending_", Top.id)
<1> DEFINE h == Top
           t == Tail(stack)
<1>1. h \in Frame /\ t \in Seq(Frame) /\ stack = <<h>> \o t
  BY TopProperties DEF Types, Top
<1> HIDE DEF h, t
<1>2. /\ Nested(<<h>> \o t) /\ Fitting(<<h>> \o t, waiters, recs_)
      /\ Finishing(<<h>> \o t, stack, waiters)
  BY <1>1 DEF Shape
<1> QED BY <1>1, <1>2, PushNested, PushFitting, PushFinishing DEF h, t

\* A call that goes on as a frame of the same kind, on the same id, is
\* nested as before.
LEMMA ResumedProperties ==
  ASSUME Types, Shape, stack # <<>>, NEW g \in Frame,
         g.op = Top.op, g.id = Top.id, Top.op \in Map => g.hit = Top.hit,
         Fits(g, waiters, recs_)
  PROVE  /\ Resumed(g) \in Seq(Frame)
         /\ Nested(Resumed(g))
         /\ Fitting(Resumed(g), waiters, recs_)
         /\ \A m \in Map, e \in Entity :
              Iterated(Resumed(g), m, e) <=> Iterated(stack, m, e)
         /\ \A e \in Entity : Announced(Resumed(g), e) <=> Announced(stack, e)
         /\ (g.op = "announce" /\ g.todo = <<>> =>
               waiters["pending_"][g.id] = <<>>)
              => Finishing(Resumed(g), Resumed(g), waiters)
<1> DEFINE h == Top
           t == Tail(stack)
<1>1. /\ h \in Frame /\ t \in Seq(Frame) /\ stack = <<h>> \o t
      /\ Nested(t) /\ \A i \in DOMAIN t : Above(h, t[i])
      /\ Fitting(t, waiters, recs_) /\ Finishing(t, stack, waiters)
  BY TopOfShape
<1>2. Resumed(g) = <<g>> \o t
  BY DEF Resumed
<1>3. g.op = h.op /\ g.id = h.id /\ (h.op \in Map => g.hit = h.hit)
  OBVIOUS
<1> HIDE DEF h, t
<1>4. \A i \in DOMAIN t : Above(g, t[i])
  BY <1>1, <1>3, OpsDiffer DEF Above
<1>5. /\ <<g>> \o t \in Seq(Frame) /\ Nested(<<g>> \o t)
      /\ Fitting(<<g>> \o t, waiters, recs_)
  BY <1>1, <1>4, PushProperties, PushNested, PushFitting
<1>6. \A m \in Map, e \in Entity :
        Iterated(<<g>> \o t, m, e) <=> Iterated(<<h>> \o t, m, e)
  <2> TAKE m \in Map, e \in Entity
  <2>1. Iterated(<<g>> \o t, m, e) <=>
          (g.op = m /\ g.id = e /\ ~g.hit) \/ Iterated(t, m, e)
    BY <1>1, PushLoops
  <2>2. Iterated(<<h>> \o t, m, e) <=>
          (h.op = m /\ h.id = e /\ ~h.hit) \/ Iterated(t, m, e)
    BY <1>1, PushLoops
  <2> QED BY <1>3, <2>1, <2>2
<1>7. \A e \in Entity : Announced(<<g>> \o t, e) <=> Announced(<<h>> \o t, e)
  BY <1>1, <1>3, PushAnnounced
<1>8. ASSUME g.op = "announce" /\ g.todo = <<>> => waiters["pending_"][g.id] = <<>>
      PROVE  Finishing(<<g>> \o t, <<g>> \o t, waiters)
  <2>1. Finishing(t, <<g>> \o t, waiters)
    BY <1>1, <1>6, FinishingKept, OpsDiffer
  <2> QED BY <1>1, <1>8, <2>1, PushFinishing
<1> QED BY <1>1, <1>2, <1>5, <1>6, <1>7, <1>8

\* A call pushed onto the stack; it is the innermost one now.
LEMMA PushedShape ==
  ASSUME NEW f \in Frame, NEW s \in Seq(Frame), NEW w, NEW l,
         Nested(s), Fitting(s, w, l), Finishing(s, s, w),
         \A i \in DOMAIN s : Above(f, s[i]),
         Fits(f, w, l),
         f.op = "announce" => f.todo # <<>>
  PROVE  /\ <<f>> \o s \in Seq(Frame)
         /\ Nested(<<f>> \o s)
         /\ Fitting(<<f>> \o s, w, l)
         /\ Finishing(<<f>> \o s, <<f>> \o s, w)
<1>1. \A e \in Entity : Iterated(s, "pending_", e) => Iterated(<<f>> \o s, "pending_", e)
  BY PushLoops
<1>2. Finishing(s, <<f>> \o s, w)
  BY <1>1, FinishingKept
<1>3. Finishing(<<f>> \o s, <<f>> \o s, w)
  BY <1>2, PushFinishing
<1> QED BY <1>3, PushProperties, PushNested, PushFitting

\* The next callback of a loop is called.
LEMMA CallNextShape ==
  ASSUME Types, Shape, CallNext, UNCHANGED backend
  PROVE  Types' /\ Shape'
<1> DEFINE g == [Top EXCEPT !.next = @ + 1]
<1>1. /\ stack # <<>> /\ Top.op \in Map /\ Top.next < Top.end
      /\ stack' = Resumed(g)
      /\ UNCHANGED <<recs_, local_registered_, waiters, pending_home_, loc_asks_,
                     asked, issued>>
  BY DEF CallNext, recVars, askVars
<1>2. Top \in Frame /\ Fits(Top, waiters, recs_)
  BY <1>1, TopOfShape
<1>3. /\ g \in Frame /\ g.op = Top.op /\ g.id = Top.id /\ g.end = Top.end
      /\ g.hit = Top.hit /\ g.next = Top.next + 1
  BY <1>1, <1>2, NextFields
<1>4. Top.next \in Nat /\ Top.end \in Nat /\ Top.hit \in BOOLEAN
  BY <1>1, <1>2, FrameFields
<1> HIDE DEF g
<1>5. Fits(g, waiters, recs_)
  BY <1>1, <1>2, <1>3, <1>4, OpsDiffer DEF Fits
<1>6. /\ stack' \in Seq(Frame) /\ Nested(stack') /\ Fitting(stack', waiters, recs_)
      /\ Finishing(stack', stack', waiters)
  BY <1>1, <1>2, <1>3, <1>5, ResumedProperties, OpsDiffer
<1>7. called' \in [1..MaxCallbacks -> Nat]
  <2>1. called \in [1..MaxCallbacks -> Nat]
    BY DEF Types
  <2>2. PICK c : called' = [called EXCEPT ![c] = called[c] + 1]
    BY DEF CallNext
  <2>3. CASE c \in 1..MaxCallbacks
    BY <2>1, <2>2, <2>3
  <2>4. CASE c \notin 1..MaxCallbacks
    BY <2>1, <2>2, <2>4
  <2> QED BY <2>3, <2>4
<1>8. Types'
  BY <1>1, <1>6, <1>7 DEF Types
<1> QED BY <1>1, <1>6, <1>8 DEF Shape

\* A loop ends with the erase of its vector, a query with nothing.
LEMMA ReturnShape ==
  ASSUME Types, Shape, Return, UNCHANGED backend
  PROVE  Types' /\ Shape'
<1> DEFINE h == Top
           t == Tail(stack)
<1>1. /\ stack # <<>> /\ h.op \in Map /\ h.next = h.end
      /\ stack' = t
      /\ waiters' = IF h.hit THEN waiters ELSE Erased(h.op, h.id)
      /\ UNCHANGED <<recs_, local_registered_, pending_home_, loc_asks_,
                     asked, issued, called>>
  BY DEF Return, recVars, askVars, cbVars
<1>2. /\ h \in Frame /\ t \in Seq(Frame) /\ stack = <<h>> \o t
      /\ Nested(t) /\ \A i \in DOMAIN t : Above(h, t[i])
      /\ Fitting(t, waiters, recs_) /\ Finishing(t, stack, waiters)
  BY <1>1, TopOfShape
<1>3. h.id \in Entity /\ h.hit \in BOOLEAN
  BY <1>1, <1>2, FrameFields
<1> HIDE DEF h, t
<1>4. waiters \in [Map -> [Entity -> Seq(Nat)]] /\ <<>> \in Seq(Nat)
  BY DEF Types
<1>5. /\ waiters' \in [Map -> [Entity -> Seq(Nat)]]
      /\ \A m \in Map, e \in Entity : waiters'[m][e] =
           IF ~h.hit /\ m = h.op /\ e = h.id THEN <<>> ELSE waiters[m][e]
  BY <1>1, <1>3, <1>4 DEF Erased
<1>6. ~h.hit => ~Iterated(t, h.op, h.id)
  BY <1>1, <1>2, <1>3, OneLoop, PushNested
<1>7. Fitting(t, waiters', recs_)
  BY <1>2, <1>5, <1>6, FittingKept
<1>8. \A e \in Entity : Iterated(stack, "pending_", e) =>
        Iterated(t, "pending_", e) \/ waiters'["pending_"][e] = <<>>
  BY <1>2, <1>3, <1>5, PushLoops, OpsDiffer
<1>9. \A e \in Entity : \/ waiters'["pending_"][e] = waiters["pending_"][e]
                        \/ waiters'["pending_"][e] = <<>>
  BY <1>5, OpsDiffer
<1>10. Finishing(t, t, waiters')
  BY <1>2, <1>8, <1>9, FinishingKept
<1>11. Types'
  BY <1>1, <1>2, <1>5 DEF Types
<1> QED BY <1>1, <1>2, <1>7, <1>10, <1>11 DEF Shape

\* An announcement returns.
LEMMA AnnounceReturnShape ==
  ASSUME Types, Shape, AnnounceReturn, UNCHANGED backend
  PROVE  Types' /\ Shape'
<1> DEFINE h == Top
           t == Tail(stack)
<1>1. /\ stack # <<>> /\ h.op = "announce"
      /\ stack' = t
      /\ UNCHANGED <<recs_, local_registered_, waiters, pending_home_, loc_asks_,
                     asked, issued, called>>
  BY DEF AnnounceReturn, recVars, askVars, cbVars
<1>2. /\ h \in Frame /\ t \in Seq(Frame) /\ stack = <<h>> \o t
      /\ Nested(t) /\ Fitting(t, waiters, recs_) /\ Finishing(t, stack, waiters)
  BY <1>1, TopOfShape
<1> HIDE DEF h, t
<1>3. \A e \in Entity : Iterated(stack, "pending_", e) => Iterated(t, "pending_", e)
  BY <1>1, <1>2, PushLoops, OpsDiffer
<1>4. Finishing(t, t, waiters)
  BY <1>2, <1>3, FinishingKept
<1>5. Types'
  BY <1>1, <1>2 DEF Types
<1> QED BY <1>1, <1>2, <1>4, <1>5 DEF Shape

\* The steps of an announcement, one lemma for what they share: the rest of
\* it, and possibly a flush on top.
LEMMA RestProperties ==
  ASSUME Types, Shape, stack # <<>>, Top.op = "announce", Top.todo # <<>>
  PROVE  /\ Rest \in Seq(Frame)
         /\ Nested(Rest)
         /\ Fitting(Rest, waiters, recs_)
         /\ \A i \in DOMAIN Rest : Above(Flush("pending_", Top.id), Rest[i])
         /\ \A m \in Map, e \in Entity : Iterated(Rest, m, e) <=> Iterated(stack, m, e)
         /\ \A e \in Entity : ~Iterated(Rest, "pending_", e)
         /\ \A e \in Entity : Announced(Rest, e) <=> Announced(stack, e)
         /\ \A e \in Entity : Announced(stack, e) <=> e = Top.id
         /\ \A e \in Entity : ~Announced(Tail(stack), e)
         /\ Head(Top.todo) # "flush" => Finishing(Rest, Rest, waiters)
         /\ Finishing(Tail(stack), Rest, waiters)
<1> DEFINE h == Top
           t == Tail(stack)
           g == [h EXCEPT !.todo = Tail(h.todo)]
<1>1. /\ h \in Frame /\ t \in Seq(Frame) /\ stack = <<h>> \o t
      /\ Nested(t) /\ \A i \in DOMAIN t : Above(h, t[i])
      /\ Fits(h, waiters, recs_) /\ Fitting(t, waiters, recs_)
      /\ Finishing(t, stack, waiters)
  BY TopOfShape
<1>2. h.op = "announce" /\ h.todo # <<>> /\ Rest = Resumed(g)
  BY DEF Rest
<1>3. Resumed(g) = <<g>> \o t
  BY DEF Resumed
<1> HIDE DEF h, t
<1>4. h.id \in Entity /\ h.todo \in Seq(Step)
  BY <1>1, <1>2, FrameFields
<1>5. h.todo[Len(h.todo)] = "flush" /\ DirExists(recs_.directory, h.id)
  BY <1>1, <1>2 DEF Fits
<1>6. /\ Tail(h.todo) \in Seq(Step)
      /\ Tail(h.todo) # <<>> => Tail(h.todo)[Len(Tail(h.todo))] = "flush"
      /\ Head(h.todo) # "flush" => Tail(h.todo) # <<>>
  BY <1>2, <1>4, <1>5, TodoEnds
<1>7. /\ g \in Frame /\ g.op = "announce" /\ g.id = h.id
      /\ g.todo = Tail(h.todo)
  BY <1>1, <1>2, <1>6, TodoFields
<1> HIDE DEF g
<1>8. Fits(g, waiters, recs_)
  BY <1>5, <1>6, <1>7, OpsDiffer DEF Fits
<1>9. \A i \in DOMAIN t : t[i].op = "pending_exists_"
  <2> SUFFICES ASSUME NEW i \in DOMAIN t PROVE t[i].op = "pending_exists_"
    OBVIOUS
  <2>1. Above(h, t[i]) /\ t[i] \in Frame
    BY <1>1
  <2> QED BY <1>2, <2>1, FrameFields DEF Above, Map
<1>10. h.op = Top.op /\ h.id = Top.id /\ h.todo = Top.todo
  BY DEF h
<1>11. /\ Resumed(g) \in Seq(Frame) /\ Nested(Resumed(g))
       /\ Fitting(Resumed(g), waiters, recs_)
       /\ \A m \in Map, e \in Entity :
            Iterated(Resumed(g), m, e) <=> Iterated(stack, m, e)
       /\ \A e \in Entity : Announced(Resumed(g), e) <=> Announced(stack, e)
       /\ (g.op = "announce" /\ g.todo = <<>> => waiters["pending_"][g.id] = <<>>)
            => Finishing(Resumed(g), Resumed(g), waiters)
  BY <1>2, <1>7, <1>8, <1>10, ResumedProperties, OpsDiffer
<1>12. \A e \in Entity : ~Iterated(t, "pending_", e) /\ ~Announced(t, e)
  BY <1>9 DEF Iterated, Announced
<1>13. \A e \in Entity : ~Iterated(<<g>> \o t, "pending_", e)
  BY <1>1, <1>7, <1>12, PushLoops
<1>14. \A e \in Entity : Announced(<<h>> \o t, e) <=> e = h.id
  BY <1>1, <1>2, <1>12, PushAnnounced
<1>15. \A i \in DOMAIN Resumed(g) : Above(Flush("pending_", h.id), Resumed(g)[i])
  <2> DEFINE f == Flush("pending_", h.id)
  <2>1. f.op = "pending_" /\ f.id = h.id
    BY <1>4, FlushFields, OpsDiffer
  <2> HIDE DEF f
  <2>2. \A i \in DOMAIN t : Above(f, t[i])
    BY <1>9, <2>1 DEF Above
  <2>3. Above(f, g)
    BY <1>7, <2>1 DEF Above
  <2>4. \A i \in DOMAIN (<<g>> \o t) : Above(f, (<<g>> \o t)[i])
    <3>1. /\ DOMAIN (<<g>> \o t) = 1..(Len(t) + 1) /\ DOMAIN t = 1..Len(t)
          /\ Len(t) \in Nat /\ (<<g>> \o t)[1] = g
          /\ \A i \in DOMAIN t : (<<g>> \o t)[i + 1] = t[i]
      BY <1>1, <1>7, PushProperties
    <3>2. ASSUME NEW i \in DOMAIN (<<g>> \o t), i # 1
          PROVE  i - 1 \in DOMAIN t /\ (<<g>> \o t)[i] = t[i - 1]
      BY <3>1, <3>2
    <3> QED BY <2>2, <2>3, <3>1, <3>2
  <2> QED BY <1>3, <2>4 DEF f
<1>16. Head(h.todo) # "flush" => Finishing(Resumed(g), Resumed(g), waiters)
  BY <1>6, <1>7, <1>11
<1>17. Finishing(t, Resumed(g), waiters)
  BY <1>1, <1>11, <1>12, FinishingKept
<1> QED BY <1>2, <1>3, <1>10, <1>11, <1>12, <1>13, <1>14, <1>15, <1>16, <1>17, <1>1
        DEF t

\* A step of an announcement: a flush begins only for an id in the directory.
LEMMA AnnounceStepShape ==
  ASSUME Types, Shape, AnnounceStep, UNCHANGED backend
  PROVE  Types' /\ Shape'
<1> DEFINE e == Top.id
<1>1. /\ stack # <<>> /\ Top.op = "announce" /\ Top.todo # <<>>
      /\ UNCHANGED <<local_registered_, waiters, asked, issued, called>>
  BY DEF AnnounceStep, cbVars
<1>2. /\ Top \in Frame /\ Fits(Top, waiters, recs_)
      /\ Finishing(Tail(stack), stack, waiters) /\ Tail(stack) \in Seq(Frame)
  BY <1>1, TopOfShape
<1>3. e \in Entity /\ Top.todo \in Seq(Step) /\ Top.node \in {This, There}
  BY <1>1, <1>2, FrameFields
<1>4. DirExists(recs_.directory, e) /\ Top.todo[Len(Top.todo)] = "flush"
  BY <1>1, <1>2 DEF Fits
<1>5. /\ Rest \in Seq(Frame) /\ Nested(Rest) /\ Fitting(Rest, waiters, recs_)
      /\ \A i \in DOMAIN Rest : Above(Flush("pending_", e), Rest[i])
      /\ \A d \in Entity : ~Iterated(Rest, "pending_", d)
      /\ \A d \in Entity : Announced(Rest, d) <=> d = e
      /\ Head(Top.todo) # "flush" => Finishing(Rest, Rest, waiters)
      /\ Finishing(Tail(stack), Rest, waiters)
  BY <1>1, RestProperties
<1>6. /\ WellFormed(recs_, Entity, Record) /\ pending_home_ \in [Entity -> Nat]
      /\ loc_asks_ \subseteq Entity
  BY DEF Types
<1>7. LookupExists(recs_, e)
  BY <1>4 DEF LookupExists
<1> DEFINE s == StartFlush("pending_", e, Rest)
<1>8. /\ s \in Seq(Frame) /\ Nested(s)
      /\ \A l : Fitting(Rest, waiters, l) /\ LookupExists(l, e) => Fitting(s, waiters, l)
      /\ \A d : Iterated(s, "pending_", d) <=>
                  Iterated(Rest, "pending_", d) \/ (d = e /\ waiters["pending_"][e] # <<>>)
      /\ \A r, w : Finishing(Rest, r, w) => Finishing(s, r, w)
  <2>1. s \in Seq(Frame)
    BY <1>3, <1>5, StartFlushProperties, OpsDiffer
  <2>2. Nested(s)
    BY <1>3, <1>5, StartFlushProperties, OpsDiffer
  <2>3. \A l : Fitting(Rest, waiters, l) /\ LookupExists(l, e) => Fitting(s, waiters, l)
    BY <1>3, <1>5, StartFlushProperties, OpsDiffer
  <2>4. \A d : Iterated(s, "pending_", d) <=>
                 Iterated(Rest, "pending_", d) \/ (d = e /\ waiters["pending_"][e] # <<>>)
    BY <1>3, <1>5, StartFlushProperties, OpsDiffer
  <2>5. \A r, w : Finishing(Rest, r, w) => Finishing(s, r, w)
    BY <1>3, <1>5, StartFlushProperties, OpsDiffer
  <2> QED BY <2>1, <2>2, <2>3, <2>4, <2>5
<1> HIDE DEF s
<1>9. CASE /\ Head(Top.todo) = "resolve"
           /\ recs_' = LookupUpdate(recs_, e, makeRec(This, Top.node))
           /\ stack' = s
           /\ UNCHANGED <<pending_home_, loc_asks_>>
  <2>1. makeRec(This, Top.node) \in Record /\ Absent \notin Record
    BY <1>3, makeRecType, CallbacksAssumption DEF Record
  <2>2. /\ WellFormed(recs_', Entity, Record)
        /\ recs_'.directory = [recs_.directory EXCEPT ![e] = makeRec(This, Top.node)]
        /\ recs_'.cache = recs_.cache
    BY <1>3, <1>4, <1>6, <1>9, <2>1, LookupUpdateProperties
  <2>3. recs_.directory \in [Entity -> Record \cup {Absent}]
    BY <1>6 DEF WellFormed, Lookup
  <2>4. DirExists(recs_'.directory, e) /\ LookupExists(recs_', e)
    BY <1>3, <2>1, <2>2, <2>3 DEF DirExists, LookupExists
  <2>5. Fitting(Rest, waiters, recs_')
    BY <1>5, <2>4, FittingKept
  <2>6. Fitting(s, waiters, recs_')
    BY <1>8, <2>4, <2>5
  <2>7. Finishing(Rest, s, waiters)
    BY <1>5, <1>9, FinishingKept, <1>8
  <2>8. Finishing(s, s, waiters)
    BY <1>8, <2>7
  <2>9. Types'
    BY <1>1, <1>8, <1>9, <2>2 DEF Types
  <2> QED BY <1>1, <1>8, <1>9, <2>6, <2>8, <2>9 DEF Shape
<1>10. CASE /\ Head(Top.todo) = "answer"
            /\ stack' = IF pending_home_[e] = 0
                        THEN Rest
                        ELSE Resumed([Top EXCEPT !.todo =
                                        Answers(pending_home_[e]) \o Tail(@)])
            /\ UNCHANGED <<recs_, pending_home_, loc_asks_>>
  <2>1. CASE pending_home_[e] = 0
    <3>1. stack' = Rest /\ Finishing(Rest, Rest, waiters)
      BY <1>5, <1>10, <2>1
    <3>2. Types'
      BY <1>1, <1>5, <1>10, <3>1 DEF Types
    <3> QED BY <1>1, <1>5, <1>10, <3>1, <3>2 DEF Shape
  <2>2. CASE pending_home_[e] # 0
    <3> DEFINE x == Answers(pending_home_[e])
               y == x \o Tail(Top.todo)
               g == [Top EXCEPT !.todo = y]
    <3>1. x \in Seq(Step)
      BY <1>3, <1>6, AnswersType
    <3>2. stack' = Resumed(g)
      BY <1>10, <2>2
    <3> HIDE DEF x
    <3>3. y \in Seq(Step) /\ y # <<>> /\ y[Len(y)] = "flush"
      BY <1>1, <1>3, <1>4, <1>10, <3>1, TodoEnds
    <3> HIDE DEF y
    <3>4. g \in Frame /\ g.op = "announce" /\ g.id = e /\ g.todo = y
      BY <1>1, <1>2, <3>3, TodoFields
    <3> HIDE DEF g
    <3>5. Fits(g, waiters, recs_)
      BY <1>4, <3>3, <3>4, OpsDiffer DEF Fits
    <3>6. /\ stack' \in Seq(Frame) /\ Nested(stack')
          /\ Fitting(stack', waiters, recs_) /\ Finishing(stack', stack', waiters)
      BY <1>1, <3>2, <3>3, <3>4, <3>5, ResumedProperties, OpsDiffer
    <3>7. Types'
      BY <1>1, <1>10, <3>6 DEF Types
    <3> QED BY <1>1, <1>10, <3>6, <3>7 DEF Shape
  <2> QED BY <2>1, <2>2
<1>11. CASE /\ Head(Top.todo) = "remember"
            /\ loc_asks_' = loc_asks_ \cup {e}
            /\ stack' = Rest
            /\ UNCHANGED <<recs_, pending_home_>>
  <2>1. Finishing(Rest, Rest, waiters)
    BY <1>5, <1>11
  <2>2. Types'
    BY <1>1, <1>3, <1>5, <1>11 DEF Types
  <2> QED BY <1>1, <1>5, <1>11, <2>1, <2>2 DEF Shape
<1>12. CASE /\ Head(Top.todo) = "erase"
            /\ pending_home_' = [pending_home_ EXCEPT ![e] = 0]
            /\ stack' = Rest
            /\ UNCHANGED <<recs_, loc_asks_>>
  <2>1. Finishing(Rest, Rest, waiters)
    BY <1>5, <1>12
  <2>2. pending_home_' \in [Entity -> Nat]
    BY <1>3, <1>6, <1>12
  <2>3. Types'
    BY <1>1, <1>5, <1>12, <2>2 DEF Types
  <2> QED BY <1>1, <1>5, <1>12, <2>1, <2>3 DEF Shape
<1>13. CASE /\ Head(Top.todo) = "flush"
            /\ stack' = s
            /\ UNCHANGED <<recs_, pending_home_, loc_asks_>>
  <2>1. Fitting(s, waiters, recs_)
    BY <1>5, <1>7, <1>8
  <2>2. Finishing(Tail(stack), s, waiters)
    BY <1>2, <1>5, <1>8, FinishingKept
  <2>3. Finishing(Rest, s, waiters)
    <3> DEFINE g == [Top EXCEPT !.todo = Tail(@)]
    <3>1. Rest = <<g>> \o Tail(stack)
      BY DEF Rest, Resumed
    <3>2. g \in Frame /\ g.op = "announce" /\ g.id = e
      BY <1>1, <1>2, <1>3, <1>4, TodoFields, TodoEnds
    <3> HIDE DEF g
    <3>3. waiters["pending_"][g.id] = <<>> \/ Iterated(s, "pending_", g.id)
      BY <1>8, <3>2
    <3> QED BY <1>2, <2>2, <3>1, <3>2, <3>3, PushFinishing
  <2>4. Finishing(s, s, waiters)
    BY <1>8, <2>3
  <2>5. Types'
    BY <1>1, <1>8, <1>13 DEF Types
  <2> QED BY <1>1, <1>8, <1>13, <2>1, <2>4, <2>5 DEF Shape
<1> QED BY <1>9, <1>10, <1>11, <1>12, <1>13 DEF AnnounceStep, s

\* Outside the loops over pending_ nothing on the stack depends on what is
\* known, so a call may change it.
LEMMA OutsideShape ==
  ASSUME Types, Shape, Outside, NEW l
  PROVE  Fitting(stack, waiters, l)
BY OutsideProperties, FittingKept DEF Types, Shape

\* announceLocation puts the id into the directory and is the only
\* announcement in progress.
LEMMA AnnounceShape ==
  ASSUME Types, Shape, Outside, NEW e \in Entity, NEW node \in {This, There},
         announceLocation(e, node)
  PROVE  /\ WellFormed(recs_', Entity, Record)
         /\ recs_'.directory = [recs_.directory EXCEPT ![e] = makeRec(This, node)]
         /\ recs_'.cache = recs_.cache
         /\ DirExists(recs_'.directory, e)
         /\ stack' \in Seq(Frame)
         /\ Nested(stack')
         /\ Fitting(stack', waiters, recs_')
         /\ Finishing(stack', stack', waiters)
         /\ \A m \in Map : \A d : Iterated(stack', m, d) <=> Iterated(stack, m, d)
         /\ \A m \in Map : \A d, k : Passed(stack', m, d, k) <=> Passed(stack, m, d, k)
         /\ \A d : Announced(stack', d) <=> d = e
<1> DEFINE todo == (IF Inline /\ e \in loc_asks_ THEN <<"resolve">> ELSE <<>>)
                     \o <<"answer", "flush">>
           f == Announce(e, node, todo)
<1>1. /\ recs_' = LookupInsert(recs_, This, e, This, makeRec(This, node))
      /\ stack' = <<f>> \o stack
  BY DEF announceLocation
<1>2. todo \in Seq(Step) /\ todo # <<>> /\ todo[Len(todo)] = "flush"
  <2>1. /\ <<"answer", "flush">> \in Seq(Step) /\ <<"answer", "flush">> # <<>>
        /\ Len(<<"answer", "flush">>) = 2 /\ <<"answer", "flush">>[2] = "flush"
    BY DEF Step
  <2>2. (IF Inline /\ e \in loc_asks_ THEN <<"resolve">> ELSE <<>>) \in Seq(Step)
    <3>1. <<"resolve">> \in Seq(Step) /\ <<>> \in Seq(Step)
      BY DEF Step
    <3> QED BY <3>1
  <2> QED BY <2>1, <2>2, LastStep
<1> HIDE DEF todo
<1>3. /\ f \in Frame /\ f.op = "announce" /\ f.id = e /\ f.todo = todo
  BY <1>2, AnnounceFields
<1> HIDE DEF f
<1>4. makeRec(This, node) \in Record /\ Absent \notin Record
  BY makeRecType, CallbacksAssumption DEF Record
<1>5. WellFormed(recs_, Entity, Record) /\ stack \in Seq(Frame)
  BY DEF Types
<1>6. /\ WellFormed(recs_', Entity, Record)
      /\ recs_'.directory = [recs_.directory EXCEPT ![e] = makeRec(This, node)]
      /\ recs_'.cache = recs_.cache
  BY <1>1, <1>4, <1>5, LookupInsertHomeProperties
<1>7. recs_.directory \in [Entity -> Record \cup {Absent}]
  BY <1>5 DEF WellFormed, Lookup
<1>8. DirExists(recs_'.directory, e)
  BY <1>4, <1>6, <1>7 DEF DirExists
<1>9. Fitting(stack, waiters, recs_')
  BY OutsideShape
<1>10. \A i \in DOMAIN stack : Above(f, stack[i])
  BY <1>3 DEF Outside, Above
<1>11. Fits(f, waiters, recs_')
  BY <1>2, <1>3, <1>8, OpsDiffer DEF Fits
<1>12. /\ stack' \in Seq(Frame) /\ Nested(stack')
       /\ Fitting(stack', waiters, recs_') /\ Finishing(stack', stack', waiters)
  BY <1>1, <1>2, <1>3, <1>5, <1>9, <1>10, <1>11, PushedShape DEF Shape
<1>13. \A m \in Map : \A d : Iterated(stack', m, d) <=> Iterated(stack, m, d)
  BY <1>1, <1>3, <1>5, PushLoops, OpsDiffer
<1>14. \A m \in Map : \A d, k : Passed(stack', m, d, k) <=> Passed(stack, m, d, k)
  BY <1>1, <1>3, <1>5, PushLoops, OpsDiffer
<1>15. \A d : Announced(stack', d) <=> d = e
  BY <1>1, <1>3, <1>5, PushAnnounced, OutsideProperties
<1> QED BY <1>6, <1>8, <1>12, <1>13, <1>14, <1>15

\* A registration at the home, or with an inline communicator, announces.
LEMMA registerEntityShape ==
  ASSUME Disciplined, Types, Shape, NEW e \in Entity, registerEntity(e),
         UNCHANGED backend
  PROVE  Types' /\ Shape'
<1>1. Outside
  BY WhenCalled DEF registerEntity, Shape
<1>2. /\ local_registered_' = local_registered_ \cup {e}
      /\ UNCHANGED <<waiters, pending_home_, loc_asks_, asked, issued, called>>
  BY DEF registerEntity, askVars, cbVars
<1>3. CASE announceLocation(e, This)
  <2>1. /\ WellFormed(recs_', Entity, Record) /\ stack' \in Seq(Frame)
        /\ Nested(stack') /\ Fitting(stack', waiters, recs_')
        /\ Finishing(stack', stack', waiters)
    BY <1>1, <1>3, AnnounceShape
  <2>2. Types'
    BY <1>2, <2>1 DEF Types
  <2> QED BY <1>2, <2>1, <2>2 DEF Shape
<1>4. CASE UNCHANGED <<recs_, stack>>
  <2>1. Types'
    BY <1>2, <1>4 DEF Types
  <2> QED BY <1>2, <1>4, <2>1 DEF Shape
<1> QED BY <1>3, <1>4 DEF registerEntity

\* The calls that change what is known and touch neither vectors nor stack.
LEMMA RecordsShape ==
  ASSUME Types, Shape, Outside, WellFormed(recs_', Entity, Record),
         local_registered_' \subseteq Entity,
         UNCHANGED <<backend, waiters, askVars, stack, cbVars>>
  PROVE  Types' /\ Shape'
<1>1. Fitting(stack, waiters, recs_')
  BY OutsideShape
<1>2. Types'
  BY DEF Types, askVars, cbVars
<1> QED BY <1>1, <1>2 DEF Shape

\* entityEmigrated may evict any id from the cache, but nothing is being flushed.
LEMMA entityEmigratedShape ==
  ASSUME Disciplined, Types, Shape, NEW e \in Entity, entityEmigrated(e),
         UNCHANGED backend
  PROVE  Types' /\ Shape'
<1>1. Outside
  BY WhenCalled DEF entityEmigrated, Shape
<1>2. makeRec(This, There) \in Record
  BY makeRecType DEF Record
<1>3. WellFormed(recs_', Entity, Record)
  BY <1>2, LookupUpdateProperties DEF Types, entityEmigrated
<1>4. local_registered_' \subseteq Entity
  BY DEF Types, entityEmigrated
<1> QED BY <1>1, <1>3, <1>4, RecordsShape DEF entityEmigrated

\* unregisterEntity forgets an id that is not being flushed.
LEMMA unregisterEntityShape ==
  ASSUME Disciplined, Types, Shape, NEW e \in Entity, unregisterEntity(e),
         UNCHANGED backend
  PROVE  Types' /\ Shape'
<1>1. Outside
  BY WhenCalled DEF unregisterEntity, Shape
<1>2. WellFormed(recs_', Entity, Record)
  BY LookupRemoveProperties DEF Types, unregisterEntity
<1>3. local_registered_' \subseteq Entity
  BY DEF Types, unregisterEntity
<1> QED BY <1>1, <1>2, <1>3, RecordsShape DEF unregisterEntity

\* clearCache forgets ids that are not being flushed.
LEMMA clearCacheShape ==
  ASSUME Disciplined, Types, Shape, clearCache, UNCHANGED backend
  PROVE  Types' /\ Shape'
<1>1. Outside
  BY WhenCalled DEF clearCache, Shape
<1>2. WellFormed(recs_', Entity, Record)
  BY LookupClearCacheProperties DEF Types, clearCache
<1>3. local_registered_' \subseteq Entity
  BY DEF Types, clearCache
<1> QED BY <1>1, <1>2, <1>3, RecordsShape DEF clearCache

\* A query answered on the spot: a frame that is no loop, for a call that a
\* flush may make, and the same entries known.
LEMMA AnsweredProperties ==
  ASSUME Types, Shape, NewCallback, NEW map \in Map, NEW e \in Entity,
         AnsweredHere(map, e), UNCHANGED backend,
         map = "pending_" \/ stack = <<>>
  PROVE  /\ Types'
         /\ Shape'
         /\ waiters' = waiters /\ local_registered_' = local_registered_
         /\ pending_home_' = pending_home_ /\ asked' = asked /\ wild' = wild
         /\ called' = [called EXCEPT ![issued + 1] = called[issued + 1] + 1]
         /\ issued' = issued + 1 /\ issued + 1 \in 1..MaxCallbacks
         /\ \A d : LookupExists(recs_', d) <=> LookupExists(recs_, d)
         /\ \A m, d : Iterated(stack', m, d) <=> Iterated(stack, m, d)
         /\ \A m, d, k : Passed(stack', m, d, k) <=> Passed(stack, m, d, k)
         /\ \A d : Announced(stack', d) <=> Announced(stack, d)
<1> DEFINE f == Hit(map, e)
<1>1. /\ f \in Frame /\ f.op = map /\ f.id = e /\ f.next = 1 /\ f.end = 1 /\ f.hit
  BY HitFields
<1>2. stack' = <<f>> \o stack
  BY DEF AnsweredHere
<1> HIDE DEF f
<1>3. /\ stack \in Seq(Frame) /\ WellFormed(recs_, Entity, Record)
      /\ called \in [1..MaxCallbacks -> Nat] /\ issued \in 0..MaxCallbacks
  BY DEF Types
<1>4. /\ WellFormed(recs_', Entity, Record)
      /\ recs_'.directory = recs_.directory
      /\ CacheKeys(recs_'.cache) = CacheKeys(recs_.cache)
  BY <1>3, LookupGetProperties DEF AnsweredHere
<1>5. \A d : LookupExists(recs_', d) <=> LookupExists(recs_, d)
  BY <1>4 DEF LookupExists, CacheExists
<1>6. Fitting(stack, waiters, recs_')
  BY <1>3, <1>4, <1>5, FittingKept DEF Shape
<1>7. \A i \in DOMAIN stack : Above(f, stack[i])
  <2>1. CASE map = "pending_"
    BY <1>1, <2>1 DEF Above
  <2>2. CASE stack = <<>>
    BY <1>3, <2>2, EmptyStack
  <2> QED BY <2>1, <2>2
<1>8. Fits(f, waiters, recs_')
  BY <1>1, OpsDiffer DEF Fits
<1>9. f.op # "announce"
  BY <1>1, OpsDiffer
<1>10. /\ stack' \in Seq(Frame) /\ Nested(stack')
       /\ Fitting(stack', waiters, recs_') /\ Finishing(stack', stack', waiters)
  BY <1>1, <1>2, <1>3, <1>6, <1>7, <1>8, <1>9, PushedShape DEF Shape
<1>11. \A m, d : Iterated(stack', m, d) <=> Iterated(stack, m, d)
  BY <1>1, <1>2, <1>3, PushLoops
<1>12. \A m, d, k : Passed(stack', m, d, k) <=> Passed(stack, m, d, k)
  BY <1>1, <1>2, <1>3, PushLoops
<1>13. \A d : Announced(stack', d) <=> Announced(stack, d)
  BY <1>1, <1>2, <1>3, <1>9, PushAnnounced
<1>14. /\ issued' = issued + 1 /\ issued + 1 \in 1..MaxCallbacks
       /\ called' = [called EXCEPT ![issued + 1] = called[issued + 1] + 1]
  BY <1>3, CallbacksAssumption DEF NewCallback, AnsweredHere
<1>15. /\ waiters' = waiters /\ local_registered_' = local_registered_
       /\ pending_home_' = pending_home_ /\ asked' = asked /\ wild' = wild
       /\ loc_asks_' = loc_asks_
  BY DEF AnsweredHere, askVars
<1>16. called' \in [1..MaxCallbacks -> Nat] /\ issued' \in 0..MaxCallbacks
  BY <1>3, <1>14
<1>17. Types'
  BY <1>4, <1>10, <1>15, <1>16 DEF Types
<1> QED BY <1>5, <1>10, <1>11, <1>12, <1>13, <1>14, <1>15, <1>17 DEF Shape

\* A callback that waits: nobody iterates the vector it is pushed onto.
LEMMA WaitsProperties ==
  ASSUME Types, Shape, NewCallback, NEW map \in Map, NEW e \in Entity,
         NEW disturbs, Waits(map, e, disturbs), ~Iterated(stack, map, e),
         map = "pending_" => ~LookupExists(recs_, e)
  PROVE  /\ waiters' \in [Map -> [Entity -> Seq(Nat)]]
         /\ waiters'[map][e] = Append(waiters[map][e], issued + 1)
         /\ \A m \in Map, d \in Entity :
              m # map \/ d # e => waiters'[m][d] = waiters[m][d]
         /\ recs_' = recs_ /\ local_registered_' = local_registered_
         /\ called' = called
         /\ issued' = issued + 1 /\ issued + 1 \in 1..MaxCallbacks
         /\ Fitting(stack, waiters', recs_)
         /\ Finishing(stack, stack, waiters')
<1>1. /\ waiters \in [Map -> [Entity -> Seq(Nat)]] /\ issued \in 0..MaxCallbacks
      /\ stack \in Seq(Frame)
  BY DEF Types
<1>2. issued' = issued + 1 /\ issued + 1 \in 1..MaxCallbacks
  BY <1>1, CallbacksAssumption DEF NewCallback
<1>3. waiters' = [waiters EXCEPT ![map][e] = Append(waiters[map][e], issued + 1)]
  BY <1>2 DEF Waits
<1>4. Append(waiters[map][e], issued + 1) \in Seq(Nat)
  BY <1>1, <1>2
<1>5. /\ waiters' \in [Map -> [Entity -> Seq(Nat)]]
      /\ waiters'[map][e] = Append(waiters[map][e], issued + 1)
      /\ \A m \in Map, d \in Entity :
           m # map \/ d # e => waiters'[m][d] = waiters[m][d]
  BY <1>1, <1>3, <1>4
<1>6. recs_' = recs_ /\ local_registered_' = local_registered_ /\ called' = called
  BY DEF Waits, recVars
<1>7. Fitting(stack, waiters', recs_)
  BY <1>1, <1>5, FittingKept DEF Shape
<1>8. map = "pending_" => ~Announced(stack, e)
  <2> SUFFICES ASSUME map = "pending_", NEW i \in DOMAIN stack,
                      stack[i].op = "announce", stack[i].id = e
               PROVE  FALSE
    BY DEF Announced
  <2>1. DirExists(recs_.directory, e)
    BY DEF Shape, Fitting, Fits
  <2> QED BY <2>1 DEF LookupExists
<1>9. \A d \in Entity : Announced(stack, d) =>
         waiters'["pending_"][d] = waiters["pending_"][d]
  BY <1>5, <1>8, OpsDiffer
<1>10. Finishing(stack, stack, waiters')
  BY <1>1, <1>9, FinishingKept DEF Shape
<1> QED BY <1>2, <1>5, <1>6, <1>7, <1>10

\* An id the lookup does not hold is neither being flushed nor announced.
LEMMA UnknownNotFlushed ==
  ASSUME Shape, NEW e \in Entity, ~LookupExists(recs_, e)
  PROVE  ~Iterated(stack, "pending_", e) /\ ~Announced(stack, e)
<1>1. ASSUME NEW i \in DOMAIN stack, stack[i].op = "pending_", stack[i].id = e,
             ~stack[i].hit
      PROVE  FALSE
  BY <1>1 DEF Shape, Fitting, Fits
<1>2. ASSUME NEW i \in DOMAIN stack, stack[i].op = "announce", stack[i].id = e
      PROVE  FALSE
  BY <1>2 DEF Shape, Fitting, Fits, LookupExists
<1> QED BY <1>1, <1>2 DEF Iterated, Announced

\* getLocation may be called from anywhere.
LEMMA getLocationShape ==
  ASSUME Types, Shape, NEW e \in Entity, getLocation(e), UNCHANGED backend
  PROVE  Types' /\ Shape'
<1>1. NewCallback /\ "pending_" \in Map
  BY OpsDiffer DEF getLocation
<1>2. CASE Known(e) /\ AnsweredHere("pending_", e)
  BY <1>1, <1>2, AnsweredProperties
<1>3. CASE ~Known(e) /\ Waits("pending_", e, DisturbsQuery(e))
  <2>1. ~LookupExists(recs_, e)
    BY <1>3 DEF Known
  <2>2. ~Iterated(stack, "pending_", e)
    BY <2>1, UnknownNotFlushed
  <2>3. /\ waiters' \in [Map -> [Entity -> Seq(Nat)]]
        /\ recs_' = recs_ /\ local_registered_' = local_registered_
        /\ called' = called
        /\ issued' = issued + 1 /\ issued + 1 \in 1..MaxCallbacks
        /\ Fitting(stack, waiters', recs_) /\ Finishing(stack, stack, waiters')
    BY <1>1, <1>3, <2>1, <2>2, WaitsProperties
  <2>4. loc_asks_' = loc_asks_ /\ stack' = stack
    BY <1>3 DEF getLocation
  <2>5. /\ pending_home_' \in [Entity -> Nat]
        /\ asked' \subseteq Map \X Entity
    <3>1. pending_home_ \in [Entity -> Nat] /\ asked \subseteq Map \X Entity
      BY DEF Types
    <3>2. CASE UNCHANGED <<asked, pending_home_>>
      BY <3>1, <3>2
    <3>3. CASE /\ pending_home_' = [pending_home_ EXCEPT ![e] = pending_home_[e] + 1]
               /\ UNCHANGED asked
      BY <3>1, <3>3
    <3>4. CASE /\ asked' = asked \cup {<<"pending_", e>>}
               /\ UNCHANGED pending_home_
      BY <1>1, <3>1, <3>4
    <3> QED BY <1>3, <3>2, <3>3, <3>4 DEF getLocation
  <2>6. issued' \in 0..MaxCallbacks
    BY <2>3 DEF Types
  <2>7. Types'
    BY <2>3, <2>4, <2>5, <2>6 DEF Types
  <2> QED BY <2>3, <2>4, <2>7 DEF Shape
<1> QED BY <1>2, <1>3 DEF getLocation

\* entityExists waits outside every loop; inline, its answer is a loop over
\* the one callback just pushed.
LEMMA entityExistsShape ==
  ASSUME Disciplined, Types, Shape, NEW e \in Entity, entityExists(e),
         UNCHANGED backend
  PROVE  Types' /\ Shape'
<1>1. NewCallback /\ "pending_exists_" \in Map
  BY OpsDiffer DEF entityExists
<1>2. stack = <<>>
  BY WhenCalled DEF entityExists, Shape
<1>3. CASE AnsweredHere("pending_exists_", e)
  BY <1>1, <1>2, <1>3, AnsweredProperties
<1>4. CASE /\ ~Known(e) /\ e \notin HomeHere
           /\ Waits("pending_exists_", e, Disturbs("pending_exists_", e))
  <2>1. ~Iterated(stack, "pending_exists_", e)
    BY <1>2, EmptyStack
  <2>2. /\ waiters' \in [Map -> [Entity -> Seq(Nat)]]
        /\ waiters'["pending_exists_"][e]
             = Append(waiters["pending_exists_"][e], issued + 1)
        /\ recs_' = recs_ /\ local_registered_' = local_registered_
        /\ called' = called
        /\ issued' = issued + 1 /\ issued + 1 \in 1..MaxCallbacks
        /\ Fitting(stack, waiters', recs_) /\ Finishing(stack, stack, waiters')
    BY <1>1, <1>4, <2>1, OpsDiffer, WaitsProperties
  <2>3. loc_asks_' = loc_asks_ /\ pending_home_' = pending_home_
    BY <1>4 DEF entityExists, AnsweredHere, Known
  <2>4. asked' \subseteq Map \X Entity
    <3>1. \/ asked' = asked
          \/ asked' = asked \cup {<<"pending_exists_", e>>}
      BY <1>4 DEF entityExists
    <3> QED BY <1>1, <3>1 DEF Types
  <2>5. /\ stack' \in Seq(Frame) /\ Nested(stack')
        /\ Fitting(stack', waiters', recs_) /\ Finishing(stack', stack', waiters')
    <3>1. CASE stack' = stack
      BY <2>2, <3>1 DEF Types, Shape
    <3>2. CASE /\ First("pending_exists_", e)
               /\ stack' = <<[Flush("pending_exists_", e) EXCEPT !.end = 1]>> \o stack
      <4> DEFINE f == [Flush("pending_exists_", e) EXCEPT !.end = 1]
      <4>1. /\ f \in Frame /\ f.op = "pending_exists_" /\ f.id = e
            /\ f.next = 0 /\ f.end = 1 /\ ~f.hit
        BY DEF Flush, Frame, Map
      <4> HIDE DEF f
      <4>2. Len(waiters'["pending_exists_"][e]) = 1
        BY <2>2, <3>2 DEF First
      <4>3. Fits(f, waiters', recs_)
        BY <4>1, <4>2, OpsDiffer DEF Fits
      <4>4. stack \in Seq(Frame) /\ \A i \in DOMAIN stack : Above(f, stack[i])
        BY <1>2, EmptyStack
      <4>5. f.op # "announce"
        BY <4>1, OpsDiffer
      <4>6. Nested(stack) /\ stack' = <<f>> \o stack
        BY <3>2 DEF Shape, f
      <4> QED BY <2>2, <4>1, <4>3, <4>4, <4>5, <4>6, PushedShape
    <3> QED BY <1>4, <3>1, <3>2 DEF entityExists
  <2>6. issued' \in 0..MaxCallbacks
    BY <2>2 DEF Types
  <2>7. Types'
    BY <2>2, <2>3, <2>4, <2>5, <2>6 DEF Types
  <2> QED BY <2>2, <2>5, <2>7 DEF Shape
<1> QED BY <1>3, <1>4 DEF entityExists

\* updateHome announces outside any call.
LEMMA updateHomeShape ==
  ASSUME Types, Shape, NEW e \in Entity, updateHome(e), UNCHANGED backend
  PROVE  Types' /\ Shape'
<1>1. Outside
  BY EmptyIsOutside DEF updateHome, Polls
<1>2. UNCHANGED <<local_registered_, waiters, pending_home_, loc_asks_, asked,
                  issued, called>>
  BY DEF updateHome, askVars, cbVars
<1>3. /\ WellFormed(recs_', Entity, Record) /\ stack' \in Seq(Frame)
      /\ Nested(stack') /\ Fitting(stack', waiters, recs_')
      /\ Finishing(stack', stack', waiters)
  BY <1>1, AnnounceShape DEF updateHome
<1>4. Types'
  BY <1>2, <1>3 DEF Types
<1> QED BY <1>2, <1>3, <1>4 DEF Shape

\* A flush that begins outside any call.
LEMMA FlushedShape ==
  ASSUME Types, stack = <<>>, NEW map \in Map, NEW e \in Entity, NEW l,
         map = "pending_" => LookupExists(l, e),
         NEW s, s = StartFlush(map, e, stack)
  PROVE  /\ s \in Seq(Frame) /\ Nested(s)
         /\ Fitting(s, waiters, l) /\ Finishing(s, s, waiters)
         /\ \A m, d : Iterated(s, m, d) <=> m = map /\ d = e /\ waiters[map][e] # <<>>
         /\ \A m, d : \A k \in Nat \ {0} : ~Passed(s, m, d, k)
         /\ \A d : ~Announced(s, d)
<1>1. /\ stack \in Seq(Frame) /\ Nested(stack) /\ Fitting(stack, waiters, l)
      /\ \A r, w : Finishing(stack, r, w)
      /\ \A m, d : ~Iterated(stack, m, d)
      /\ \A m, d, k : ~Passed(stack, m, d, k)
      /\ \A d : ~Announced(stack, d)
      /\ \A i \in DOMAIN stack : Above(Flush(map, e), stack[i])
  BY EmptyStack, EmptyIsOutside, OpsDiffer DEF Outside, Types
<1> DEFINE t == StartFlush(map, e, stack)
<1>2. t \in Seq(Frame)
  BY <1>1, StartFlushProperties
<1>3. Nested(t)
  BY <1>1, StartFlushProperties
<1>4. Fitting(t, waiters, l)
  BY <1>1, StartFlushProperties
<1>5. Finishing(t, t, waiters)
  BY <1>1, StartFlushProperties
<1>6. \A m, d : Iterated(t, m, d) <=> m = map /\ d = e /\ waiters[map][e] # <<>>
  <2>1. \A m, d : Iterated(t, m, d) <=>
          \/ Iterated(stack, m, d)
          \/ m = map /\ d = e /\ waiters[map][e] # <<>>
    BY <1>1, StartFlushProperties
  <2> HIDE DEF t
  <2> QED BY <1>1, <2>1
<1>7. \A m, d : \A k \in Nat \ {0} : ~Passed(t, m, d, k)
  <2>1. \A m, d : \A k \in Nat \ {0} : Passed(t, m, d, k) <=> Passed(stack, m, d, k)
    BY <1>1, StartFlushProperties
  <2> HIDE DEF t
  <2> QED BY <1>1, <2>1
<1>8. \A d : ~Announced(t, d)
  BY <1>1, StartFlushProperties
<1> HIDE DEF t
<1>9. s = t
  BY DEF t
<1> QED BY <1>2, <1>3, <1>4, <1>5, <1>6, <1>7, <1>8, <1>9

\* A response stores the location before it flushes.
LEMMA resolveResponseShape ==
  ASSUME Types, Shape, NEW e \in Entity, resolveResponse(e), UNCHANGED backend
  PROVE  Types' /\ Shape'
<1>1. /\ stack = <<>> /\ stack' = StartFlush("pending_", e, stack)
      /\ recs_' = LookupUpdate(recs_, e, makeRec(This, There))
      /\ UNCHANGED <<local_registered_, waiters, pending_home_, issued, called>>
  BY DEF resolveResponse, Polls, cbVars
<1>2. makeRec(This, There) \in Record /\ Absent \notin Record
  BY makeRecType, CallbacksAssumption DEF Record
<1>3. WellFormed(recs_', Entity, Record) /\ LookupExists(recs_', e)
  BY <1>1, <1>2, LookupUpdateProperties, LookupUpdateKnows DEF Types
<1>4. /\ stack' \in Seq(Frame) /\ Nested(stack')
      /\ Fitting(stack', waiters, recs_') /\ Finishing(stack', stack', waiters)
  BY <1>1, <1>3, OpsDiffer, FlushedShape
<1>5. loc_asks_' \subseteq Entity /\ asked' \subseteq Map \X Entity
  BY DEF Types, resolveResponse
<1>6. Types'
  BY <1>1, <1>3, <1>4, <1>5 DEF Types
<1> QED BY <1>1, <1>4, <1>6 DEF Shape

\* A negative answer flushes, too, and knows nothing.
LEMMA existsResponseShape ==
  ASSUME Types, Shape, NEW e \in Entity, NEW exists \in BOOLEAN,
         existsResponse(e, exists), UNCHANGED backend
  PROVE  Types' /\ Shape'
<1>1. /\ stack = <<>> /\ stack' = StartFlush("pending_exists_", e, stack)
      /\ UNCHANGED <<local_registered_, waiters, pending_home_, loc_asks_,
                     issued, called>>
  BY DEF existsResponse, Polls, cbVars
<1>2. makeRec(This, There) \in Record
  BY makeRecType DEF Record
<1>3. WellFormed(recs_', Entity, Record)
  BY <1>2, LookupUpdateProperties DEF Types, existsResponse
<1>4. /\ stack' \in Seq(Frame) /\ Nested(stack')
      /\ Fitting(stack', waiters, recs_') /\ Finishing(stack', stack', waiters)
  BY <1>1, OpsDiffer, FlushedShape
<1>5. asked' \subseteq Map \X Entity
  BY DEF Types, existsResponse
<1>6. Types'
  BY <1>1, <1>3, <1>4, <1>5 DEF Types
<1> QED BY <1>1, <1>4, <1>6 DEF Shape

\* The freshly constructed coordinator.
LEMMA InitShape == Init => Types /\ Shape
<1> SUFFICES ASSUME Init PROVE Types /\ Shape
  OBVIOUS
<1>1. WellFormed(EmptyLookup(Entity), Entity, Record)
  BY EmptyLookupProperties
<1>2. <<>> \in Seq(Nat) /\ <<>> \in Seq(Frame)
  OBVIOUS
<1>3. waiters \in [Map -> [Entity -> Seq(Nat)]]
  BY <1>2 DEF Init
<1>4. issued \in 0..MaxCallbacks /\ called \in [1..MaxCallbacks -> Nat]
  BY CallbacksAssumption DEF Init
<1>5. backend \in {"poll", "inline"}
  BY CallbacksAssumption DEF Init
<1>6. pending_home_ \in [Entity -> Nat]
  BY DEF Init
<1>7. Types
  BY <1>1, <1>2, <1>3, <1>4, <1>5, <1>6 DEF Init, Types
<1> QED BY <1>7, EmptyStack DEF Init, Shape

\* Types and shape are inductive.
LEMMA StepShape ==
  ASSUME Disciplined, Types, Shape, [Next]_vars
  PROVE  Types' /\ Shape'
<1>1. CASE UNCHANGED vars
  BY <1>1 DEF vars, recVars, askVars, cbVars, Types, Shape, Inline
<1>2. CASE Next
  <2> USE <1>2 DEF Next
  <2>1. UNCHANGED backend
    OBVIOUS
  <2>2. CASE CallNext
    BY <2>1, <2>2, CallNextShape
  <2>3. CASE Return
    BY <2>1, <2>3, ReturnShape
  <2>4. CASE AnnounceStep
    BY <2>1, <2>4, AnnounceStepShape
  <2>5. CASE AnnounceReturn
    BY <2>1, <2>5, AnnounceReturnShape
  <2>6. CASE clearCache
    BY <2>1, <2>6, clearCacheShape
  <2>7. ASSUME NEW e \in Entity,
               \/ registerEntity(e) \/ entityEmigrated(e) \/ unregisterEntity(e)
               \/ getLocation(e) \/ entityExists(e)
               \/ updateHome(e) \/ resolveResponse(e)
               \/ \E exists \in BOOLEAN : existsResponse(e, exists)
        PROVE  Types' /\ Shape'
    BY <2>1, <2>7, registerEntityShape, entityEmigratedShape,
       unregisterEntityShape, getLocationShape, entityExistsShape,
       updateHomeShape, resolveResponseShape, existsResponseShape
  <2> QED BY <2>2, <2>3, <2>4, <2>5, <2>6, <2>7
<1> QED BY <1>1, <1>2

-----------------------------------------------------------------------------
(* Every callback is called once                                           *)

\* A vector is a sequence of callbacks.
LEMMA WaitersType ==
  ASSUME Types, NEW m \in Map, NEW e \in Entity
  PROVE  /\ waiters[m][e] \in Seq(Nat)
         /\ Len(waiters[m][e]) \in Nat
         /\ DOMAIN waiters[m][e] = 1..Len(waiters[m][e])
<1>1. waiters[m][e] \in Seq(Nat)
  BY DEF Types
<1> QED BY <1>1

\* A step that calls nobody and hands over no callback.
LEMMA AccountKept ==
  ASSUME Types, Account, wild' = FALSE, UNCHANGED <<waiters, called, issued>>,
         \A m \in Map, e \in Entity : \A k \in Nat \ {0} :
           Passed(stack', m, e, k) <=> Passed(stack, m, e, k)
  PROVE  Account'
<1>1. Tickets' /\ OnePlace' /\ NoneLost' /\ NotYet'
  BY DEF Account, Tickets, OnePlace, NoneLost, NotYet
<1>2. Counted'
  <2> SUFFICES ASSUME NEW m \in Map, NEW e \in Entity, NEW k \in DOMAIN waiters[m][e]
               PROVE  called[waiters[m][e][k]]
                        = IF Passed(stack', m, e, k) THEN 1 ELSE 0
    BY DEF Counted
  <2>1. k \in Nat \ {0}
    BY WaitersType
  <2> QED BY <2>1 DEF Account, Counted
<1> QED BY <1>1, <1>2 DEF Account

\* A loop calls the callback at its next place, which nobody has called.
LEMMA CallNextAccount ==
  ASSUME Types, Shape, Account, CallNext
  PROVE  Account'
<1> DEFINE h == Top
           t == Tail(stack)
           g == [Top EXCEPT !.next = @ + 1]
           k0 == Top.next + 1
           c0 == waiters[Top.op][Top.id][k0]
<1>1. /\ stack # <<>> /\ h.op \in Map /\ h.next < h.end
      /\ stack' = <<g>> \o t
      /\ called' = [called EXCEPT ![c0] = called[c0] + 1]
      /\ UNCHANGED <<waiters, issued, wild>>
  BY DEF CallNext, Resumed
<1>2. /\ h \in Frame /\ t \in Seq(Frame) /\ stack = <<h>> \o t /\ Nested(<<h>> \o t)
      /\ Fits(h, waiters, recs_)
  BY <1>1, TopOfShape DEF Shape
<1>3. /\ g \in Frame /\ g.op = h.op /\ g.id = h.id /\ g.hit = h.hit
      /\ g.next = k0 /\ k0 = h.next + 1
  BY <1>1, <1>2, NextFields
<1>4. c0 = waiters[h.op][h.id][k0]
  OBVIOUS
<1> HIDE DEF h, t, g, k0, c0
<1>5. h.id \in Entity /\ h.next \in Nat /\ h.end \in Nat /\ h.hit \in BOOLEAN
  BY <1>1, <1>2, FrameFields
<1>6. ~h.hit /\ h.end = Len(waiters[h.op][h.id])
  BY <1>1, <1>2, <1>5 DEF Fits
<1>7. k0 \in DOMAIN waiters[h.op][h.id] /\ k0 \in Nat
  BY <1>1, <1>3, <1>5, <1>6, WaitersType
<1>8. \A k : ~Passed(t, h.op, h.id, k)
  BY <1>1, <1>2, <1>6, OneLoop
<1>9. ~Passed(stack, h.op, h.id, k0)
  <2>1. ~(k0 <= h.next)
    BY <1>3, <1>5
  <2> QED BY <1>2, <1>8, <2>1, PushLoops
<1>10. called[c0] = 0 /\ c0 \in 1..MaxCallbacks
  <2>1. called[c0] = 0
    BY <1>1, <1>4, <1>5, <1>7, <1>9 DEF Account, Counted
  <2>2. c0 \in k0..issued
    BY <1>1, <1>4, <1>5, <1>7 DEF Account, Tickets
  <2>3. k0 \in Nat \ {0} /\ issued \in 0..MaxCallbacks /\ MaxCallbacks \in Nat
    BY <1>3, <1>5, CallbacksAssumption DEF Types
  <2> QED BY <2>1, <2>2, <2>3
<1>11. called' = [called EXCEPT ![c0] = 1]
  BY <1>1, <1>10
<1>12. called \in [1..MaxCallbacks -> Nat]
  BY DEF Types
<1>13. ASSUME NEW m \in Map, NEW e \in Entity, NEW k \in Nat
       PROVE  Passed(stack', m, e, k) <=>
                Passed(stack, m, e, k) \/ (m = h.op /\ e = h.id /\ k = k0)
  <2>1. k <= k0 <=> k <= h.next \/ k = k0
    BY <1>3, <1>5
  <2>2. Passed(<<g>> \o t, m, e, k) <=>
          (g.op = m /\ g.id = e /\ ~g.hit /\ k <= g.next) \/ Passed(t, m, e, k)
    BY <1>2, <1>3, PushLoops
  <2>3. Passed(<<h>> \o t, m, e, k) <=>
          (h.op = m /\ h.id = e /\ ~h.hit /\ k <= h.next) \/ Passed(t, m, e, k)
    BY <1>2, PushLoops
  <2> QED BY <1>1, <1>2, <1>3, <1>6, <2>1, <2>2, <2>3
<1>14. Counted'
  <2> SUFFICES ASSUME NEW m \in Map, NEW e \in Entity, NEW k \in DOMAIN waiters[m][e]
               PROVE  called'[waiters[m][e][k]]
                        = IF Passed(stack', m, e, k) THEN 1 ELSE 0
    BY <1>1 DEF Counted
  <2>1. k \in Nat
    BY WaitersType
  <2>2. CASE m = h.op /\ e = h.id /\ k = k0
    BY <1>4, <1>10, <1>11, <1>12, <1>13, <2>1, <2>2
  <2>3. CASE ~(m = h.op /\ e = h.id /\ k = k0)
    <3>1. waiters[m][e][k] # c0
      BY <1>1, <1>4, <1>5, <1>7, <2>3 DEF Account, OnePlace
    <3>2. called'[waiters[m][e][k]] = called[waiters[m][e][k]]
      BY <1>11, <1>12, <3>1
    <3>3. Passed(stack', m, e, k) <=> Passed(stack, m, e, k)
      BY <1>13, <2>1, <2>3
    <3> QED BY <3>2, <3>3 DEF Account, Counted
  <2> QED BY <2>2, <2>3
<1>15. NoneLost'
  <2> SUFFICES ASSUME NEW c \in 1..issued
               PROVE  \/ called'[c] = 1
                      \/ /\ called'[c] = 0
                         /\ \E m \in Map, e \in Entity :
                              \E k \in DOMAIN waiters[m][e] : waiters[m][e][k] = c
    BY <1>1 DEF NoneLost
  <2>1. CASE c = c0
    BY <1>10, <1>11, <1>12, <2>1
  <2>2. CASE c # c0
    <3>1. called'[c] = called[c]
      BY <1>11, <1>12, <2>2
    <3> QED BY <3>1 DEF Account, NoneLost
  <2> QED BY <2>1, <2>2
<1>16. NotYet'
  <2>1. issued \in Nat
    BY DEF Types
  <2>2. c0 \in k0..issued
    BY <1>1, <1>4, <1>5, <1>7 DEF Account, Tickets
  <2>3. c0 <= issued /\ c0 \in Nat
    BY <1>10, <2>1, <2>2, <1>7
  <2>4. ASSUME NEW c \in 1..MaxCallbacks, c > issued PROVE called'[c] = 0
    <3>1. c # c0
      BY <2>1, <2>3, <2>4
    <3>2. called'[c] = called[c]
      BY <1>11, <1>12, <3>1
    <3> QED BY <2>4, <3>2 DEF Account, NotYet
  <2> QED BY <1>1, <2>4 DEF NotYet
<1>17. Tickets' /\ OnePlace' /\ wild' = FALSE
  BY <1>1 DEF Account, Tickets, OnePlace
<1> QED BY <1>14, <1>15, <1>16, <1>17 DEF Account

\* A loop that ends has called every callback of the vector it erases.
LEMMA ReturnAccount ==
  ASSUME Types, Shape, Account, Return
  PROVE  Account'
<1> DEFINE h == Top
           t == Tail(stack)
<1>1. /\ stack # <<>> /\ h.op \in Map /\ h.next = h.end
      /\ stack' = t
      /\ waiters' = IF h.hit THEN waiters ELSE Erased(h.op, h.id)
      /\ wild' = (wild \/ (~h.hit /\ Iterated(t, h.op, h.id)))
      /\ UNCHANGED <<issued, called>>
  BY DEF Return, cbVars
<1>2. /\ h \in Frame /\ t \in Seq(Frame) /\ stack = <<h>> \o t /\ Nested(<<h>> \o t)
      /\ Fits(h, waiters, recs_)
  BY <1>1, TopOfShape DEF Shape
<1> HIDE DEF h, t
<1>3. h.id \in Entity /\ h.next \in Nat /\ h.end \in Nat /\ h.hit \in BOOLEAN
  BY <1>1, <1>2, FrameFields
<1>4. ~h.hit => ~Iterated(t, h.op, h.id)
  BY <1>1, <1>2, OneLoop
<1>5. wild' = FALSE
  <2>1. wild = FALSE
    BY DEF Account
  <2>2. (~h.hit /\ Iterated(t, h.op, h.id)) = FALSE
    BY <1>4
  <2>3. wild' = (FALSE \/ FALSE)
    BY <1>1, <2>1, <2>2
  <2> QED BY <2>3
<1>6. CASE h.hit
  <2>1. \A m \in Map, e \in Entity : \A k \in Nat \ {0} :
          Passed(stack', m, e, k) <=> Passed(stack, m, e, k)
    BY <1>1, <1>2, <1>6, PushLoops
  <2> QED BY <1>1, <1>5, <1>6, <2>1, AccountKept
<1>7. CASE ~h.hit
  <2>1. /\ \A m \in Map, e \in Entity :
             waiters'[m][e] = IF m = h.op /\ e = h.id THEN <<>> ELSE waiters[m][e]
    BY <1>1, <1>3, <1>7 DEF Erased, Types
  <2>2. \A m \in Map, e \in Entity : \A k \in DOMAIN waiters'[m][e] :
          /\ ~(m = h.op /\ e = h.id) /\ k \in DOMAIN waiters[m][e]
          /\ waiters'[m][e][k] = waiters[m][e][k]
    <3>1. DOMAIN <<>> = {}
      OBVIOUS
    <3> QED BY <2>1, <3>1
  <2>3. \A m \in Map, e \in Entity : \A k : ~(m = h.op /\ e = h.id) =>
          (Passed(stack', m, e, k) <=> Passed(stack, m, e, k))
    BY <1>1, <1>2, PushLoops
  <2>4. Tickets' /\ OnePlace' /\ Counted' /\ NotYet'
    <3>1. Tickets'
      BY <1>1, <2>2 DEF Account, Tickets
    <3>2. OnePlace'
      BY <2>2 DEF Account, OnePlace
    <3>3. Counted'
      BY <1>1, <2>2, <2>3 DEF Account, Counted
    <3>4. NotYet'
      BY <1>1 DEF Account, NotYet
    <3> QED BY <3>1, <3>2, <3>3, <3>4
  <2>5. ASSUME NEW k \in DOMAIN waiters[h.op][h.id]
        PROVE  called[waiters[h.op][h.id][k]] = 1
    <3>1. h.next = Len(waiters[h.op][h.id])
      BY <1>1, <1>2, <1>7 DEF Fits
    <3>2. k <= h.next
      BY <1>1, <1>3, <3>1, WaitersType
    <3>3. Passed(stack, h.op, h.id, k)
      BY <1>2, <1>7, <3>2, PushLoops
    <3> QED BY <1>1, <1>3, <3>3 DEF Account, Counted
  <2>6. NoneLost'
    <3> SUFFICES ASSUME NEW c \in 1..issued, called[c] # 1
                 PROVE  /\ called[c] = 0
                        /\ \E m \in Map, e \in Entity :
                             \E k \in DOMAIN waiters'[m][e] : waiters'[m][e][k] = c
      BY <1>1 DEF NoneLost
    <3>1. called[c] = 0
      BY DEF Account, NoneLost
    <3>2. PICK m \in Map, e \in Entity :
            \E k \in DOMAIN waiters[m][e] : waiters[m][e][k] = c
      BY DEF Account, NoneLost
    <3>3. PICK k \in DOMAIN waiters[m][e] : waiters[m][e][k] = c
      BY <3>2
    <3>4. ~(m = h.op /\ e = h.id)
      BY <2>5, <3>3
    <3>5. waiters'[m][e] = waiters[m][e]
      BY <2>1, <3>4
    <3> QED BY <3>1, <3>3, <3>5
  <2> QED BY <1>5, <2>4, <2>6 DEF Account
<1> QED BY <1>3, <1>6, <1>7

\* A query answered on the spot calls a callback that waits nowhere.
LEMMA AnsweredAccount ==
  ASSUME Types, Account, UNCHANGED <<waiters, wild>>,
         issued' = issued + 1, issued + 1 \in 1..MaxCallbacks,
         called' = [called EXCEPT ![issued + 1] = called[issued + 1] + 1],
         \A m, e, k : Passed(stack', m, e, k) <=> Passed(stack, m, e, k)
  PROVE  Account'
<1> DEFINE new == issued + 1
<1>1. /\ called \in [1..MaxCallbacks -> Nat] /\ issued \in Nat
      /\ MaxCallbacks \in Nat /\ new \in 1..MaxCallbacks /\ new = issued + 1
  BY CallbacksAssumption DEF Types
<1>2. called[new] = 0
  BY <1>1 DEF Account, NotYet
<1>3. called' = [called EXCEPT ![new] = 1]
  BY <1>2
<1> HIDE DEF new
<1>4. \A c : c # new => called'[c] = called[c]
  BY <1>1, <1>3
<1>5. ASSUME NEW m \in Map, NEW e \in Entity, NEW k \in DOMAIN waiters[m][e]
      PROVE  /\ waiters[m][e][k] \in k..issued /\ k \in Nat
             /\ waiters[m][e][k] # new
             /\ called[waiters[m][e][k]] = IF Passed(stack, m, e, k) THEN 1 ELSE 0
  <2>1. k \in Nat /\ waiters[m][e][k] \in k..issued
    BY WaitersType DEF Account, Tickets
  <2>2. waiters[m][e][k] # new
    BY <1>1, <2>1
  <2> QED BY <2>1, <2>2 DEF Account, Counted
<1>6. Tickets'
  BY <1>1, <1>5 DEF Tickets
<1>7. Counted'
  BY <1>4, <1>5 DEF Counted
<1>8. NoneLost'
  <2> SUFFICES ASSUME NEW c \in 1..new
               PROVE  \/ called'[c] = 1
                      \/ /\ called'[c] = 0
                         /\ \E m \in Map, e \in Entity :
                              \E k \in DOMAIN waiters[m][e] : waiters[m][e][k] = c
    BY <1>1 DEF NoneLost
  <2>1. CASE c = new
    BY <1>1, <1>3, <2>1
  <2>2. CASE c # new
    <3>1. c \in 1..issued
      BY <1>1, <2>2
    <3> QED BY <1>4, <2>2, <3>1 DEF Account, NoneLost
  <2> QED BY <2>1, <2>2
<1>9. NotYet'
  <2> SUFFICES ASSUME NEW c \in 1..MaxCallbacks, c > new PROVE called'[c] = 0
    BY <1>1 DEF NotYet
  <2>1. c > issued /\ c # new
    BY <1>1
  <2> QED BY <1>4, <2>1 DEF Account, NotYet
<1>10. OnePlace' /\ wild' = FALSE
  BY DEF Account, OnePlace
<1> QED BY <1>6, <1>7, <1>8, <1>9, <1>10 DEF Account

\* A callback that waits has its place at the end of its vector, where no
\* loop has come by.
LEMMA WaitsAccount ==
  ASSUME Types, Account, NEW map \in Map, NEW e \in Entity,
         waiters'[map][e] = Append(waiters[map][e], issued + 1),
         \A m \in Map, d \in Entity :
           m # map \/ d # e => waiters'[m][d] = waiters[m][d],
         called' = called, wild' = FALSE,
         issued' = issued + 1, issued + 1 \in 1..MaxCallbacks,
         \A k : ~Passed(stack, map, e, k),
         \A m \in Map, d \in Entity : \A k \in Nat \ {0} :
           Passed(stack', m, d, k) <=> Passed(stack, m, d, k)
  PROVE  Account'
<1> DEFINE new == issued + 1
           q == waiters[map][e]
<1>1. /\ called \in [1..MaxCallbacks -> Nat] /\ issued \in Nat
      /\ MaxCallbacks \in Nat /\ new \in 1..MaxCallbacks /\ new = issued + 1
  BY CallbacksAssumption DEF Types
<1>2. called[new] = 0
  BY <1>1 DEF Account, NotYet
<1>3. q \in Seq(Nat) /\ Len(q) \in Nat /\ DOMAIN q = 1..Len(q)
  BY WaitersType
<1>4. q = waiters[map][e] /\ waiters'[map][e] = Append(q, new) /\ issued' = new
  OBVIOUS
<1> HIDE DEF new, q
<1>5. /\ DOMAIN Append(q, new) = 1..(Len(q) + 1)
      /\ Append(q, new)[Len(q) + 1] = new
      /\ \A k \in 1..Len(q) : Append(q, new)[k] = q[k]
  BY <1>1, <1>3
<1>6. Len(q) <= issued
  <2>1. CASE Len(q) = 0
    BY <1>1, <2>1
  <2>2. CASE Len(q) # 0
    <3>1. Len(q) \in DOMAIN q
      BY <1>3, <2>2
    <3>2. q[Len(q)] \in Len(q)..issued
      BY <1>4, <3>1 DEF Account, Tickets
    <3> QED BY <1>1, <1>3, <3>2
  <2> QED BY <2>1, <2>2
\* Where an old callback waits, and where the new one does.
<1>7. ASSUME NEW m \in Map, NEW d \in Entity, NEW k \in DOMAIN waiters'[m][d]
      PROVE  \/ /\ m = map /\ d = e /\ k = Len(q) + 1
                /\ waiters'[m][d][k] = new
             \/ /\ k \in DOMAIN waiters[m][d]
                /\ waiters'[m][d][k] = waiters[m][d][k]
  <2>1. CASE m = map /\ d = e
    <3>1. k \in 1..(Len(q) + 1)
      BY <1>4, <1>5, <2>1
    <3>2. k = Len(q) + 1 \/ k \in 1..Len(q)
      BY <1>3, <3>1
    <3> QED BY <1>3, <1>4, <1>5, <2>1, <3>2
  <2>2. CASE m # map \/ d # e
    BY <2>2
  <2> QED BY <2>1, <2>2
<1>8. ASSUME NEW m \in Map, NEW d \in Entity, NEW k \in DOMAIN waiters[m][d]
      PROVE  /\ k \in DOMAIN waiters'[m][d]
             /\ waiters'[m][d][k] = waiters[m][d][k]
             /\ k \in Nat \ {0} /\ waiters[m][d][k] \in k..issued
             /\ waiters[m][d][k] # new
  <2>1. k \in Nat \ {0} /\ waiters[m][d][k] \in k..issued
    BY WaitersType DEF Account, Tickets
  <2>2. waiters[m][d][k] # new
    BY <1>1, <2>1
  <2>3. CASE m = map /\ d = e
    <3>1. k \in 1..Len(q) /\ k \in 1..(Len(q) + 1)
      BY <1>3, <1>4, <2>3
    <3> QED BY <1>4, <1>5, <2>1, <2>2, <2>3, <3>1
  <2>4. CASE m # map \/ d # e
    BY <2>1, <2>2, <2>4
  <2> QED BY <2>3, <2>4
<1>9. /\ Len(q) + 1 \in DOMAIN waiters'[map][e]
      /\ waiters'[map][e][Len(q) + 1] = new
      /\ Len(q) + 1 \in Nat \ {0}
  BY <1>3, <1>4, <1>5
<1>10. Tickets'
  <2> SUFFICES ASSUME NEW m \in Map, NEW d \in Entity, NEW k \in DOMAIN waiters'[m][d]
               PROVE  waiters'[m][d][k] \in k..new
    BY <1>4 DEF Tickets
  <2>1. CASE k = Len(q) + 1 /\ waiters'[m][d][k] = new
    BY <1>1, <1>3, <1>6, <2>1
  <2>2. CASE k \in DOMAIN waiters[m][d] /\ waiters'[m][d][k] = waiters[m][d][k]
    BY <1>1, <1>8, <2>2
  <2> QED BY <1>7, <2>1, <2>2
<1>11. Counted'
  <2> SUFFICES ASSUME NEW m \in Map, NEW d \in Entity, NEW k \in DOMAIN waiters'[m][d]
               PROVE  called[waiters'[m][d][k]] = IF Passed(stack', m, d, k) THEN 1 ELSE 0
    BY DEF Counted
  <2>1. CASE m = map /\ d = e /\ k = Len(q) + 1 /\ waiters'[m][d][k] = new
    BY <1>2, <1>9, <2>1
  <2>2. CASE k \in DOMAIN waiters[m][d] /\ waiters'[m][d][k] = waiters[m][d][k]
    BY <1>8, <2>2 DEF Account, Counted
  <2> QED BY <1>7, <2>1, <2>2
<1>12. OnePlace'
  <2> SUFFICES ASSUME NEW m \in Map, NEW n \in Map, NEW c \in Entity, NEW d \in Entity,
                      NEW k \in DOMAIN waiters'[m][c], NEW l \in DOMAIN waiters'[n][d],
                      waiters'[m][c][k] = waiters'[n][d][l]
               PROVE  m = n /\ c = d /\ k = l
    BY DEF OnePlace
  <2>1. CASE m = map /\ c = e /\ k = Len(q) + 1 /\ waiters'[m][c][k] = new
    BY <1>7, <1>8, <2>1
  <2>2. CASE k \in DOMAIN waiters[m][c] /\ waiters'[m][c][k] = waiters[m][c][k]
    <3>1. waiters'[n][d][l] # new
      BY <1>8, <2>2
    <3>2. l \in DOMAIN waiters[n][d] /\ waiters'[n][d][l] = waiters[n][d][l]
      BY <1>7, <3>1
    <3>3. waiters[m][c][k] = waiters[n][d][l]
      BY <2>2, <3>2
    <3>4. OnePlace
      BY DEF Account
    <3> QED BY <2>2, <3>2, <3>3, <3>4 DEF OnePlace
  <2> QED BY <1>7, <2>1, <2>2
<1>13. NoneLost'
  <2> SUFFICES ASSUME NEW c \in 1..new
               PROVE  \/ called[c] = 1
                      \/ /\ called[c] = 0
                         /\ \E m \in Map, d \in Entity :
                              \E k \in DOMAIN waiters'[m][d] : waiters'[m][d][k] = c
    BY <1>4 DEF NoneLost
  <2>1. CASE c = new
    BY <1>2, <1>9, <2>1
  <2>2. CASE c # new
    <3>1. c \in 1..issued
      BY <1>1, <2>2
    <3>2. CASE called[c] = 1
      BY <3>2
    <3>3. CASE called[c] # 1
      <4>1. PICK m \in Map, d \in Entity :
              \E k \in DOMAIN waiters[m][d] : waiters[m][d][k] = c
        BY <3>1, <3>3 DEF Account, NoneLost
      <4>2. PICK k \in DOMAIN waiters[m][d] : waiters[m][d][k] = c
        BY <4>1
      <4>3. k \in DOMAIN waiters'[m][d] /\ waiters'[m][d][k] = c
        BY <1>8, <4>2
      <4>4. called[c] = 0
        BY <3>1, <3>3 DEF Account, NoneLost
      <4> QED BY <4>3, <4>4
    <3> QED BY <3>2, <3>3
  <2> QED BY <2>1, <2>2
<1>14. NotYet'
  BY <1>1, <1>4 DEF Account, NotYet
<1> QED BY <1>10, <1>11, <1>12, <1>13, <1>14 DEF Account

\* A vector that is not being iterated has been passed nowhere.
LEMMA NotPassed ==
  ASSUME NEW s, NEW m, NEW e, ~Iterated(s, m, e)
  PROVE  \A k : ~Passed(s, m, e, k)
BY DEF Iterated, Passed

\* getLocation calls its callback or makes it wait in pending_; the callback
\* of another query does not make it wait.
LEMMA getLocationAccount ==
  ASSUME Disciplined, Types, Shape, Account, NEW e \in Entity, getLocation(e),
         UNCHANGED backend
  PROVE  Account'
<1>1. NewCallback /\ "pending_" \in Map
  BY OpsDiffer DEF getLocation
<1>2. CASE Known(e) /\ AnsweredHere("pending_", e)
  <2>1. /\ waiters' = waiters /\ wild' = wild
        /\ called' = [called EXCEPT ![issued + 1] = called[issued + 1] + 1]
        /\ issued' = issued + 1 /\ issued + 1 \in 1..MaxCallbacks
        /\ \A m, d, k : Passed(stack', m, d, k) <=> Passed(stack, m, d, k)
    BY <1>1, <1>2, AnsweredProperties
  <2> QED BY <2>1, AnsweredAccount
<1>3. CASE ~Known(e) /\ Waits("pending_", e, DisturbsQuery(e))
  <2>1. ~LookupExists(recs_, e)
    BY <1>3 DEF Known
  <2>2. ~Iterated(stack, "pending_", e)
    BY <2>1, UnknownNotFlushed
  <2>3. /\ waiters'["pending_"][e] = Append(waiters["pending_"][e], issued + 1)
        /\ \A m \in Map, d \in Entity :
             m # "pending_" \/ d # e => waiters'[m][d] = waiters[m][d]
        /\ called' = called
        /\ issued' = issued + 1 /\ issued + 1 \in 1..MaxCallbacks
    BY <1>1, <1>3, <2>1, <2>2, WaitsProperties
  <2>4. stack' = stack
    BY <1>3 DEF getLocation
  <2>5. \A k : ~Passed(stack, "pending_", e, k)
    BY <2>2, NotPassed
  <2>6. wild' = FALSE
    <3>1. May("getLocation")
      BY <1>3 DEF getLocation
    <3>2. Outside
      BY <3>1, WhenCalled DEF Shape
    <3>3. ~DisturbsQuery(e) /\ wild = FALSE
      BY <3>2, OutsideUndisturbed DEF Account
    <3>4. wild' \in {FALSE, FALSE \/ DisturbsQuery(e)}
      BY <1>3, <3>3 DEF Waits
    <3> QED BY <3>3, <3>4
  <2>7. \A m \in Map, d \in Entity : \A k \in Nat \ {0} :
          Passed(stack', m, d, k) <=> Passed(stack, m, d, k)
    BY <2>4
  <2> QED BY <1>1, <2>3, <2>5, <2>6, <2>7, WaitsAccount
<1> QED BY <1>2, <1>3 DEF getLocation

\* entityExists calls its callback or makes it wait in pending_exists_.
LEMMA entityExistsAccount ==
  ASSUME Disciplined, Types, Shape, Account, NEW e \in Entity, entityExists(e),
         UNCHANGED backend
  PROVE  Account'
<1>1. NewCallback /\ "pending_exists_" \in Map
  BY OpsDiffer DEF entityExists
<1>2. stack = <<>>
  BY WhenCalled DEF entityExists, Shape
<1>3. CASE AnsweredHere("pending_exists_", e)
  <2>1. /\ waiters' = waiters /\ wild' = wild
        /\ called' = [called EXCEPT ![issued + 1] = called[issued + 1] + 1]
        /\ issued' = issued + 1 /\ issued + 1 \in 1..MaxCallbacks
        /\ \A m, d, k : Passed(stack', m, d, k) <=> Passed(stack, m, d, k)
    BY <1>1, <1>2, <1>3, AnsweredProperties
  <2> QED BY <2>1, AnsweredAccount
<1>4. CASE /\ ~Known(e) /\ e \notin HomeHere
           /\ Waits("pending_exists_", e, Disturbs("pending_exists_", e))
  <2>1. ~Iterated(stack, "pending_exists_", e)
    BY <1>2, EmptyStack
  <2>2. /\ waiters'["pending_exists_"][e]
             = Append(waiters["pending_exists_"][e], issued + 1)
        /\ \A m \in Map, d \in Entity :
             m # "pending_exists_" \/ d # e => waiters'[m][d] = waiters[m][d]
        /\ called' = called
        /\ issued' = issued + 1 /\ issued + 1 \in 1..MaxCallbacks
    BY <1>1, <1>4, <2>1, OpsDiffer, WaitsProperties
  <2>3. \A k : ~Passed(stack, "pending_exists_", e, k)
    BY <2>1, NotPassed
  <2>4. wild' = FALSE
    <3>1. ~Disturbs("pending_exists_", e) /\ wild = FALSE
      BY <1>2, EmptyUndisturbed DEF Account
    <3>2. wild' \in {FALSE, FALSE \/ Disturbs("pending_exists_", e)}
      BY <1>4, <3>1 DEF Waits
    <3> QED BY <3>1, <3>2
  <2>5. \A m \in Map, d \in Entity : \A k \in Nat \ {0} :
          Passed(stack', m, d, k) <=> Passed(stack, m, d, k)
    <3> DEFINE f == [Flush("pending_exists_", e) EXCEPT !.end = 1]
    <3>1. /\ f \in Frame /\ f.next = 0
      BY DEF Flush, Frame, Map
    <3>2. CASE stack' = <<f>> \o stack
      <4> HIDE DEF f
      <4> TAKE m \in Map, d \in Entity
      <4> TAKE k \in Nat \ {0}
      <4>1. ~(k <= f.next)
        BY <3>1
      <4>2. stack \in Seq(Frame)
        BY DEF Types
      <4> QED BY <3>1, <3>2, <4>1, <4>2, PushLoops
    <3>3. CASE stack' = stack
      BY <3>3
    <3> QED BY <1>4, <3>2, <3>3 DEF entityExists
  <2> QED BY <1>1, <2>2, <2>3, <2>4, <2>5, WaitsAccount
<1> QED BY <1>3, <1>4 DEF entityExists

\* The steps of an announcement pass no callback.
LEMMA AnnounceStepPassed ==
  ASSUME Types, Shape, AnnounceStep, NEW m \in Map, NEW e \in Entity,
         NEW k \in Nat \ {0}
  PROVE  Passed(stack', m, e, k) <=> Passed(stack, m, e, k)
<1> DEFINE t == Tail(stack)
           s == StartFlush("pending_", Top.id, Rest)
<1>1. /\ stack # <<>> /\ Top.op = "announce" /\ Top.todo # <<>>
      /\ \/ stack' = s
         \/ stack' = Rest
         \/ stack' = Resumed([Top EXCEPT !.todo =
                                Answers(pending_home_[Top.id]) \o Tail(@)])
  BY DEF AnnounceStep
<1>2. /\ Top \in Frame /\ t \in Seq(Frame) /\ stack = <<Top>> \o t
      /\ Fits(Top, waiters, recs_)
  BY <1>1, TopOfShape
<1>3. Top.id \in Entity /\ Top.todo \in Seq(Step)
  BY <1>1, <1>2, FrameFields
<1>4. pending_home_[Top.id] \in Nat
  BY <1>3 DEF Types
<1>5. Passed(stack, m, e, k) <=> Passed(t, m, e, k)
  <2> HIDE DEF t
  <2> QED BY <1>1, <1>2, PushLoops, OpsDiffer
<1>6. ASSUME NEW x \in Seq(Step)
      PROVE  Passed(Resumed([Top EXCEPT !.todo = x]), m, e, k) <=> Passed(t, m, e, k)
  <2> DEFINE g == [Top EXCEPT !.todo = x]
  <2>1. g \in Frame /\ g.op = "announce" /\ Resumed(g) = <<g>> \o t
    BY <1>1, <1>2, TodoFields DEF Resumed
  <2> HIDE DEF g, t
  <2>2. Passed(<<g>> \o t, m, e, k) <=> Passed(t, m, e, k)
    BY <1>2, <2>1, PushLoops, OpsDiffer
  <2> QED BY <2>1, <2>2 DEF g
<1>7. Tail(Top.todo) \in Seq(Step)
  BY <1>1, <1>3
<1>8. Answers(pending_home_[Top.id]) \o Tail(Top.todo) \in Seq(Step)
  <2>1. Answers(pending_home_[Top.id]) \in Seq(Step)
    BY <1>4, AnswersType
  <2> QED BY <1>7, <2>1
<1>9. Passed(Rest, m, e, k) <=> Passed(t, m, e, k)
  BY <1>6, <1>7 DEF Rest
<1>10. Passed(s, m, e, k) <=> Passed(Rest, m, e, k)
  <2>1. Rest \in Seq(Frame)
    BY <1>1, RestProperties
  <2>2. Top.id \in Entity /\ "pending_" \in Map
    BY <1>3, OpsDiffer
  <2>3. \A n, d : \A j \in Nat \ {0} : Passed(s, n, d, j) <=> Passed(Rest, n, d, j)
    BY <2>1, <2>2, StartFlushProperties
  <2> HIDE DEF s
  <2> QED BY <2>3
<1>11. Passed(Resumed([Top EXCEPT !.todo =
                         Answers(pending_home_[Top.id]) \o Tail(@)]), m, e, k)
         <=> Passed(t, m, e, k)
  BY <1>6, <1>8
<1> QED BY <1>1, <1>5, <1>9, <1>10, <1>11

\* The account of the callbacks is inductive, given the shape of the stack.
LEMMA StepAccount ==
  ASSUME Disciplined, Types, Shape, Account, [Next]_vars
  PROVE  Account'
<1>1. CASE UNCHANGED vars
  BY <1>1 DEF vars, cbVars, Account, Tickets, Counted, OnePlace, NoneLost, NotYet
<1>2. CASE Next
  <2>1. UNCHANGED backend
    BY <1>2 DEF Next
  <2>2. ASSUME UNCHANGED <<waiters, called, issued, wild, stack>> PROVE Account'
    BY <2>2, AccountKept DEF Account
  <2>3. CASE CallNext
    BY <2>3, CallNextAccount
  <2>4. CASE Return
    BY <2>4, ReturnAccount
  <2>5. CASE AnnounceStep
    <3>1. \A m \in Map, e \in Entity : \A k \in Nat \ {0} :
            Passed(stack', m, e, k) <=> Passed(stack, m, e, k)
      BY <2>5, AnnounceStepPassed
    <3>2. /\ UNCHANGED <<waiters, called, issued>>
          /\ wild' = wild \/ wild' = (wild \/ Answering(Tail(stack), Top.id))
          /\ stack # <<>> /\ Top.op = "announce" /\ Top.todo # <<>>
      BY <2>5 DEF AnnounceStep, cbVars
    <3>3. Top.id \in Entity
      BY <3>2, TopOfShape, FrameFields
    <3>4. ~Answering(Tail(stack), Top.id)
      BY <3>2, <3>3, RestProperties, AnsweringAnnounced
    <3>5. wild' = FALSE
      <4>1. wild = FALSE
        BY DEF Account
      <4>2. (FALSE \/ Answering(Tail(stack), Top.id)) = FALSE
        BY <3>4
      <4>3. wild' = FALSE \/ wild' = (FALSE \/ Answering(Tail(stack), Top.id))
        BY <3>2, <4>1
      <4> QED BY <4>2, <4>3
    <3> QED BY <3>1, <3>2, <3>5, AccountKept
  <2>6. CASE AnnounceReturn
    <3>1. /\ stack # <<>> /\ Top.op = "announce" /\ stack' = Tail(stack)
          /\ UNCHANGED <<waiters, called, issued, wild>>
      BY <2>6 DEF AnnounceReturn, cbVars
    <3>2. /\ Top \in Frame /\ Tail(stack) \in Seq(Frame)
          /\ stack = <<Top>> \o Tail(stack)
      BY <3>1, TopOfShape
    <3>3. \A m \in Map, e \in Entity : \A k \in Nat \ {0} :
            Passed(Tail(stack), m, e, k) <=> Passed(<<Top>> \o Tail(stack), m, e, k)
      BY <3>1, <3>2, PushLoops, OpsDiffer
    <3> QED BY <3>1, <3>2, <3>3, AccountKept DEF Account
  <2>7. CASE clearCache
    BY <2>2, <2>7 DEF clearCache, cbVars
  <2>8. ASSUME NEW e \in Entity, registerEntity(e) PROVE Account'
    <3>1. UNCHANGED <<waiters, called, issued, wild>>
      BY <2>8 DEF registerEntity, cbVars
    <3>2. Outside
      BY <2>8, WhenCalled DEF registerEntity, Shape
    <3>3. CASE announceLocation(e, This)
      <4>1. \A m \in Map : \A d, k : Passed(stack', m, d, k) <=> Passed(stack, m, d, k)
        BY <3>2, <3>3, AnnounceShape
      <4> QED BY <3>1, <4>1, AccountKept DEF Account
    <3>4. CASE UNCHANGED <<recs_, stack>>
      BY <2>2, <3>1, <3>4
    <3> QED BY <2>8, <3>3, <3>4 DEF registerEntity
  <2>9. ASSUME NEW e \in Entity, entityEmigrated(e) PROVE Account'
    BY <2>2, <2>9 DEF entityEmigrated, cbVars
  <2>10. ASSUME NEW e \in Entity, unregisterEntity(e) PROVE Account'
    BY <2>2, <2>10 DEF unregisterEntity, cbVars
  <2>11. ASSUME NEW e \in Entity, getLocation(e) PROVE Account'
    BY <2>1, <2>11, getLocationAccount
  <2>12. ASSUME NEW e \in Entity, entityExists(e) PROVE Account'
    BY <2>1, <2>12, entityExistsAccount
  <2>13. ASSUME NEW e \in Entity, updateHome(e) PROVE Account'
    <3>1. UNCHANGED <<waiters, called, issued, wild>> /\ announceLocation(e, There)
      BY <2>13 DEF updateHome, cbVars
    <3>2. Outside
      BY <2>13, EmptyIsOutside DEF updateHome, Polls
    <3>3. \A m \in Map : \A d, k : Passed(stack', m, d, k) <=> Passed(stack, m, d, k)
      BY <3>1, <3>2, AnnounceShape
    <3> QED BY <3>1, <3>3, AccountKept DEF Account
  <2>14. ASSUME UNCHANGED <<waiters, called, issued, wild>>, stack = <<>>,
                NEW map \in Map, NEW e \in Entity,
                stack' = StartFlush(map, e, stack)
         PROVE  Account'
    <3>1. stack \in Seq(Frame)
      BY DEF Types
    <3>2. \A m, d : \A k \in Nat \ {0} : Passed(stack', m, d, k) <=> Passed(stack, m, d, k)
      BY <2>14, <3>1, StartFlushProperties
    <3> QED BY <2>14, <3>2, AccountKept DEF Account
  <2>15. ASSUME NEW e \in Entity, resolveResponse(e) PROVE Account'
    BY <2>14, <2>15, OpsDiffer DEF resolveResponse, Polls, cbVars
  <2>16. ASSUME NEW e \in Entity, NEW exists \in BOOLEAN, existsResponse(e, exists)
         PROVE  Account'
    BY <2>14, <2>16, OpsDiffer DEF existsResponse, Polls, cbVars
  <2> QED BY <1>2, <2>3, <2>4, <2>5, <2>6, <2>7, <2>8, <2>9, <2>10, <2>11, <2>12,
             <2>13, <2>15, <2>16 DEF Next
<1> QED BY <1>1, <1>2

\* No callback has been handed over yet.
LEMMA InitAccount == Init => Account
<1> SUFFICES ASSUME Init PROVE Account
  OBVIOUS
<1>1. \A m \in Map, e \in Entity : waiters[m][e] = <<>>
  BY DEF Init
<1>2. DOMAIN <<>> = {}
  OBVIOUS
<1>3. Tickets /\ Counted /\ OnePlace
  BY <1>1, <1>2 DEF Tickets, Counted, OnePlace
<1>4. NoneLost /\ NotYet
  BY CallbacksAssumption DEF Init, NoneLost, NotYet
<1> QED BY <1>3, <1>4 DEF Init, Account

\* With the account kept, each callback has been called once or has one place
\* where it will be.
LEMMA AccountKeeps == Types /\ Shape /\ Account => CallbacksKept
<1> SUFFICES ASSUME Types, Shape, Account PROVE CallbacksKept
  OBVIOUS
<1>1. ~wild
  BY DEF Account
<1>2. /\ issued \in 0..MaxCallbacks /\ MaxCallbacks \in Nat
  BY CallbacksAssumption DEF Types
\* What it means to be a place: a position no loop has passed.
<1>3. ASSUME NEW c, NEW m \in Map, NEW e \in Entity, NEW k \in DOMAIN waiters[m][e],
             waiters[m][e][k] = c, ~Passed(stack, m, e, k)
      PROVE  <<m, e, k>> \in Places(c)
  <2>1. k \in Nat \ {0} /\ waiters[m][e][k] \in k..issued /\ k <= Len(waiters[m][e])
    BY WaitersType DEF Account, Tickets
  <2>2. k \in 1..MaxCallbacks
    BY <1>2, <2>1
  <2>3. ASSUME NEW i \in DOMAIN stack, stack[i].op = m, stack[i].id = e, ~stack[i].hit
        PROVE  stack[i].next < k /\ k <= stack[i].end
    <3>1. stack[i] \in Frame
      BY DEF Types
    <3>2. stack[i].next \in Nat
      BY <2>3, <3>1, FrameFields
    <3>3. ~(k <= stack[i].next)
      BY <1>3, <2>3 DEF Passed
    <3>4. stack[i].end = Len(waiters[m][e])
      BY <2>3 DEF Shape, Fitting, Fits
    <3> QED BY <2>1, <3>2, <3>3, <3>4
  <2> QED BY <1>3, <2>2, <2>3 DEF Places
<1>4. ASSUME NEW c, NEW p \in Places(c)
      PROVE  \E m \in Map, e \in Entity : \E k \in DOMAIN waiters[m][e] :
               p = <<m, e, k>> /\ waiters[m][e][k] = c /\ ~Passed(stack, m, e, k)
  <2>1. /\ p \in Map \X Entity \X (1..MaxCallbacks)
        /\ p[3] \in DOMAIN waiters[p[1]][p[2]] /\ waiters[p[1]][p[2]][p[3]] = c
        /\ \A i \in DOMAIN stack :
             stack[i].op = p[1] /\ stack[i].id = p[2] /\ ~stack[i].hit
               => stack[i].next < p[3] /\ p[3] <= stack[i].end
    BY DEF Places
  <2>2. PICK m \in Map, e \in Entity, k \in 1..MaxCallbacks : p = <<m, e, k>>
    BY <2>1
  <2>3. ASSUME NEW i \in DOMAIN stack, stack[i].op = m, stack[i].id = e, ~stack[i].hit
        PROVE  ~(k <= stack[i].next)
    <3>1. stack[i] \in Frame
      BY DEF Types
    <3>2. stack[i].next \in Nat
      BY <2>3, <3>1, FrameFields
    <3>3. stack[i].next < k
      BY <2>1, <2>2, <2>3
    <3> QED BY <1>2, <3>2, <3>3
  <2>4. ~Passed(stack, m, e, k)
    BY <2>3 DEF Passed
  <2> QED BY <2>1, <2>2, <2>4
<1>5. ASSUME NEW c \in 1..issued
      PROVE  \/ called[c] = 1 /\ Places(c) = {}
             \/ called[c] = 0 /\ \E p \in Places(c) : Places(c) = {p}
  <2>1. CASE called[c] = 1
    <3>1. ASSUME NEW p \in Places(c) PROVE FALSE
      <4>1. PICK m \in Map, e \in Entity : \E k \in DOMAIN waiters[m][e] :
              p = <<m, e, k>> /\ waiters[m][e][k] = c /\ ~Passed(stack, m, e, k)
        BY <1>4
      <4>2. PICK k \in DOMAIN waiters[m][e] :
              waiters[m][e][k] = c /\ ~Passed(stack, m, e, k)
        BY <4>1
      <4> QED BY <2>1, <4>2 DEF Account, Counted
    <3> QED BY <2>1, <3>1
  <2>2. CASE called[c] # 1
    <3>1. called[c] = 0
      BY <2>2 DEF Account, NoneLost
    <3>2. PICK m \in Map, e \in Entity :
            \E k \in DOMAIN waiters[m][e] : waiters[m][e][k] = c
      BY <2>2 DEF Account, NoneLost
    <3>3. PICK k \in DOMAIN waiters[m][e] : waiters[m][e][k] = c
      BY <3>2
    <3>4. ~Passed(stack, m, e, k)
      BY <3>1, <3>3 DEF Account, Counted
    <3>5. <<m, e, k>> \in Places(c)
      BY <1>3, <3>3, <3>4
    <3>6. ASSUME NEW p \in Places(c) PROVE p = <<m, e, k>>
      <4>1. PICK n \in Map, d \in Entity : \E j \in DOMAIN waiters[n][d] :
              p = <<n, d, j>> /\ waiters[n][d][j] = c /\ ~Passed(stack, n, d, j)
        BY <1>4
      <4>2. PICK j \in DOMAIN waiters[n][d] : p = <<n, d, j>> /\ waiters[n][d][j] = c
        BY <4>1
      <4>3. waiters[m][e][k] = waiters[n][d][j]
        BY <3>3, <4>2
      <4>4. OnePlace
        BY DEF Account
      <4>5. m = n /\ e = d /\ k = j
        BY <3>3, <4>2, <4>3, <4>4 DEF OnePlace
      <4> QED BY <4>2, <4>5
    <3>7. Places(c) = {<<m, e, k>>}
      BY <3>5, <3>6
    <3> QED BY <3>1, <3>5, <3>7
  <2> QED BY <2>1, <2>2
<1> QED BY <1>1, <1>5 DEF CallbacksKept

\* If callbacks keep the discipline, each callback handed over has been called
\* once or waits at one place where it will be, and flushPending,
\* existsResponse and announceLocation neither run on nor erase through an
\* iterator that a reallocation, a rehash or an erase has invalidated.
THEOREM CallbacksAreKept ==
  ASSUME Disciplined
  PROVE  Spec => []CallbacksKept
<1> DEFINE I == Types /\ Shape /\ Account
<1>1. Init => I
  BY InitShape, InitAccount
<1>2. I /\ [Next]_vars => I'
  BY StepShape, StepAccount
<1>3. I => CallbacksKept
  BY AccountKeeps
<1> QED BY <1>1, <1>2, <1>3, PTL DEF Spec

-----------------------------------------------------------------------------
(* Every vector is going to be flushed                                     *)

\* The operator of the model, and the one on stacks.
LEMMA AnnouncingAnnounced == \A e : Announcing(e) <=> Announced(stack, e)
BY DEF Announcing, Announced

\* Steps that hand over no callback.  A loop or an announcement may end only
\* when its vector is empty, a request be answered only by a flush, and an id
\* become known only if that flushes its waiters.
LEMMA ServedKept ==
  ASSUME Asking, WaitersServed,
         \A m \in Map, e \in Entity :
           /\ waiters'[m][e] \in {waiters[m][e], <<>>}
           /\ Iterated(stack, m, e) =>
                Iterated(stack', m, e) \/ waiters'[m][e] = <<>>
           /\ <<m, e>> \in asked =>
                \/ <<m, e>> \in asked'
                \/ Iterated(stack', m, e) \/ waiters'[m][e] = <<>>,
         \A e \in Entity :
           /\ Announced(stack, e) =>
                Announced(stack', e) \/ waiters'["pending_"][e] = <<>>
           /\ pending_home_'[e] = pending_home_[e] \/ Announced(stack', e)
           /\ Known(e)' => \/ Known(e) \/ Announced(stack', e)
                           \/ Iterated(stack', "pending_", e)
                           \/ waiters'["pending_"][e] = <<>>
                           \/ ~Inline /\ e \notin HomeHere
  PROVE  WaitersServed'
<1> SUFFICES ASSUME NEW e \in Entity
             PROVE
               /\ waiters'["pending_"][e] # <<>> /\ ~Iterated(stack', "pending_", e) =>
                    \/ <<"pending_", e>> \in asked'
                    \/ Announced(stack', e)
                    \/ pending_home_'[e] > 0 /\ ~Known(e)'
                    \/ e \in HomeHere /\ ~Known(e)'
               /\ /\ waiters'["pending_exists_"][e] # <<>>
                  /\ ~Iterated(stack', "pending_exists_", e)
                  => <<"pending_exists_", e>> \in asked'
  <2>1. \A d : Announcing(d)' <=> Announced(stack', d)
    BY DEF Announcing, Announced
  <2> QED BY <2>1 DEF WaitersServed
<1>1. ASSUME waiters'["pending_"][e] # <<>>, ~Iterated(stack', "pending_", e)
      PROVE  \/ <<"pending_", e>> \in asked'
             \/ Announced(stack', e)
             \/ pending_home_'[e] > 0 /\ ~Known(e)'
             \/ e \in HomeHere /\ ~Known(e)'
  <2>1. waiters["pending_"][e] # <<>> /\ ~Iterated(stack, "pending_", e)
    BY <1>1, OpsDiffer
  <2>2. \/ <<"pending_", e>> \in asked
        \/ Announced(stack, e)
        \/ pending_home_[e] > 0 /\ ~Known(e)
        \/ e \in HomeHere /\ ~Known(e)
    BY <2>1, AnnouncingAnnounced DEF WaitersServed
  <2>3. pending_home_[e] > 0 => Inline
    BY DEF Asking
  <2> QED BY <1>1, <2>2, <2>3, OpsDiffer
<1>2. ASSUME waiters'["pending_exists_"][e] # <<>>,
             ~Iterated(stack', "pending_exists_", e)
      PROVE  <<"pending_exists_", e>> \in asked'
  <2>1. waiters["pending_exists_"][e] # <<>> /\ ~Iterated(stack, "pending_exists_", e)
    BY <1>2, OpsDiffer
  <2>2. <<"pending_exists_", e>> \in asked
    BY <2>1 DEF WaitersServed
  <2> QED BY <1>2, <2>2, OpsDiffer
<1> QED BY <1>1, <1>2

\* The common case: vectors, requests and buffer stay as they are.
LEMMA ServedSame ==
  ASSUME Asking, WaitersServed, UNCHANGED <<backend, waiters, asked, pending_home_>>,
         \A m \in Map, e \in Entity : Iterated(stack, m, e) => Iterated(stack', m, e),
         \A e \in Entity : Announced(stack, e) => Announced(stack', e),
         \A e \in Entity : Known(e)' => \/ Known(e) \/ Announced(stack', e)
                                        \/ ~Inline /\ e \notin HomeHere
  PROVE  Asking' /\ WaitersServed'
<1>1. WaitersServed'
  BY ServedKept
<1>2. Asking'
  BY DEF Asking, Inline
<1> QED BY <1>1, <1>2

\* The next call of a loop leaves the vectors to be served as they are.
LEMMA CallNextServed ==
  ASSUME Types, Shape, Asking, WaitersServed, CallNext, UNCHANGED backend
  PROVE  Asking' /\ WaitersServed'
<1> DEFINE h == Top
           t == Tail(stack)
           g == [Top EXCEPT !.next = @ + 1]
<1>1. /\ stack # <<>> /\ h.op \in Map /\ stack' = <<g>> \o t
      /\ UNCHANGED <<local_registered_, recs_, waiters, pending_home_, asked>>
  BY DEF CallNext, Resumed, recVars, askVars
<1>2. h \in Frame /\ t \in Seq(Frame) /\ stack = <<h>> \o t
  BY <1>1, TopOfShape
<1>3. g \in Frame /\ g.op = h.op /\ g.id = h.id /\ g.hit = h.hit
  BY <1>1, <1>2, NextFields
<1> HIDE DEF h, t, g
<1>4. \A m \in Map, e \in Entity : Iterated(stack, m, e) => Iterated(stack', m, e)
  BY <1>1, <1>2, <1>3, PushLoops
<1>5. \A e \in Entity : Announced(stack, e) => Announced(stack', e)
  BY <1>1, <1>2, <1>3, PushAnnounced
<1>6. \A e \in Entity : Known(e)' => Known(e)
  BY <1>1 DEF Known
<1> QED BY <1>1, <1>4, <1>5, <1>6, ServedSame

\* A loop ends with its vector empty.
LEMMA ReturnServed ==
  ASSUME Types, Shape, Asking, WaitersServed, Return, UNCHANGED backend
  PROVE  Asking' /\ WaitersServed'
<1> DEFINE h == Top
           t == Tail(stack)
<1>1. /\ stack # <<>> /\ h.op \in Map /\ stack' = t
      /\ waiters' = IF h.hit THEN waiters ELSE Erased(h.op, h.id)
      /\ UNCHANGED <<local_registered_, recs_, pending_home_, asked>>
  BY DEF Return, recVars, askVars
<1>2. h \in Frame /\ t \in Seq(Frame) /\ stack = <<h>> \o t
  BY <1>1, TopOfShape
<1> HIDE DEF h, t
<1>3. h.id \in Entity /\ h.hit \in BOOLEAN
  BY <1>1, <1>2, FrameFields
<1>4. \A m \in Map, e \in Entity : waiters'[m][e] =
        IF ~h.hit /\ m = h.op /\ e = h.id THEN <<>> ELSE waiters[m][e]
  BY <1>1, <1>3 DEF Erased, Types
<1>5. \A m \in Map, e \in Entity : Iterated(stack, m, e) =>
        Iterated(stack', m, e) \/ waiters'[m][e] = <<>>
  BY <1>1, <1>2, <1>4, PushLoops
<1>6. \A e \in Entity : Announced(stack, e) => Announced(stack', e)
  BY <1>1, <1>2, PushAnnounced, OpsDiffer
<1>7. \A e \in Entity : Known(e)' => Known(e)
  BY <1>1 DEF Known
<1>8. WaitersServed'
  BY <1>1, <1>4, <1>5, <1>6, <1>7, ServedKept
<1>9. Asking'
  BY <1>1 DEF Asking, Inline
<1> QED BY <1>8, <1>9

\* An announcement ends with its vector flushed.
LEMMA AnnounceReturnServed ==
  ASSUME Types, Shape, Asking, WaitersServed, AnnounceReturn, UNCHANGED backend
  PROVE  Asking' /\ WaitersServed'
<1> DEFINE h == Top
           t == Tail(stack)
<1>1. /\ stack # <<>> /\ h.op = "announce" /\ h.todo = <<>> /\ stack' = t
      /\ UNCHANGED <<local_registered_, recs_, waiters, pending_home_, asked>>
  BY DEF AnnounceReturn, recVars, askVars
<1>2. /\ h \in Frame /\ t \in Seq(Frame) /\ stack = <<h>> \o t
      /\ \A i \in DOMAIN t : Above(h, t[i])
      /\ waiters["pending_"][h.id] = <<>> \/ Iterated(stack, "pending_", h.id)
  BY <1>1, TopOfShape
<1> HIDE DEF h, t
<1>3. \A e : ~Iterated(t, "pending_", e)
  BY <1>1, <1>2, OpsDiffer DEF Iterated, Above
<1>4. \A m \in Map, e \in Entity : Iterated(stack, m, e) => Iterated(stack', m, e)
  BY <1>1, <1>2, PushLoops, OpsDiffer
<1>5. waiters["pending_"][h.id] = <<>>
  BY <1>1, <1>2, <1>3, PushLoops, OpsDiffer
<1>6. \A e \in Entity : Announced(stack, e) =>
        Announced(stack', e) \/ waiters'["pending_"][e] = <<>>
  BY <1>1, <1>2, <1>5, PushAnnounced
<1>7. \A e \in Entity : Known(e)' => Known(e)
  BY <1>1 DEF Known
<1>8. WaitersServed'
  BY <1>1, <1>4, <1>6, <1>7, ServedKept
<1>9. Asking'
  BY <1>1 DEF Asking, Inline
<1> QED BY <1>8, <1>9

\* The buffer is erased while the announcement still has its flush ahead.
LEMMA AnnounceStepServed ==
  ASSUME Types, Shape, Asking, WaitersServed, AnnounceStep, UNCHANGED backend
  PROVE  Asking' /\ WaitersServed'
<1> DEFINE e == Top.id
           s == StartFlush("pending_", e, Rest)
           x == Answers(pending_home_[e]) \o Tail(Top.todo)
           g == [Top EXCEPT !.todo = x]
           a == Resumed(g)
<1>1. /\ stack # <<>> /\ Top.op = "announce" /\ Top.todo # <<>>
      /\ UNCHANGED <<local_registered_, waiters, asked>>
      /\ stack' = s \/ stack' = Rest \/ stack' = a
      /\ recs_' = recs_ \/ recs_' = LookupUpdate(recs_, e, makeRec(This, Top.node))
      /\ \/ pending_home_' = pending_home_
         \/ pending_home_' = [pending_home_ EXCEPT ![e] = 0]
  BY DEF AnnounceStep
<1>2. /\ Top \in Frame /\ Fits(Top, waiters, recs_)
      /\ Tail(stack) \in Seq(Frame) /\ stack = <<Top>> \o Tail(stack)
  BY <1>1, TopOfShape
<1>3. e \in Entity /\ Top.todo \in Seq(Step) /\ Top.node \in {This, There}
  BY <1>1, <1>2, FrameFields
<1>4. DirExists(recs_.directory, e)
  BY <1>1, <1>2 DEF Fits
<1>5. /\ Rest \in Seq(Frame)
      /\ \A m \in Map, d \in Entity : Iterated(Rest, m, d) <=> Iterated(stack, m, d)
      /\ \A d \in Entity : Announced(Rest, d) <=> Announced(stack, d)
      /\ \A d \in Entity : Announced(stack, d) <=> d = e
  BY <1>1, RestProperties
<1>6. /\ \A m, d : Iterated(Rest, m, d) => Iterated(s, m, d)
      /\ \A d : Announced(s, d) <=> Announced(Rest, d)
  <2>1. \A m, d : Iterated(s, m, d) <=>
          \/ Iterated(Rest, m, d)
          \/ m = "pending_" /\ d = e /\ waiters["pending_"][e] # <<>>
    BY <1>3, <1>5, StartFlushProperties, OpsDiffer
  <2>2. \A d : Announced(s, d) <=> Announced(Rest, d)
    BY <1>3, <1>5, StartFlushProperties, OpsDiffer
  <2> HIDE DEF s
  <2> QED BY <2>1, <2>2
<1>7. /\ \A m \in Map, d \in Entity : Iterated(stack, m, d) => Iterated(a, m, d)
      /\ \A d \in Entity : Announced(stack, d) => Announced(a, d)
  <2>1. x \in Seq(Step)
    <3>1. Answers(pending_home_[e]) \in Seq(Step)
      BY <1>3, AnswersType DEF Types
    <3>2. Tail(Top.todo) \in Seq(Step)
      BY <1>1, <1>3
    <3> QED BY <3>1, <3>2
  <2> HIDE DEF x
  <2>2. g \in Frame /\ g.op = "announce" /\ g.id = e
    BY <1>1, <1>2, <2>1, TodoFields
  <2>3. a = <<g>> \o Tail(stack)
    BY DEF Resumed
  <2> HIDE DEF g, a
  <2>4. \A m \in Map, d \in Entity :
          Iterated(<<Top>> \o Tail(stack), m, d) => Iterated(a, m, d)
    BY <1>1, <1>2, <2>2, <2>3, PushLoops, OpsDiffer
  <2>5. \A d \in Entity : d = e => Announced(a, d)
    BY <1>2, <2>2, <2>3, PushAnnounced
  <2> QED BY <1>2, <1>5, <2>4, <2>5
<1> HIDE DEF s, a
<1>8. \A m \in Map, d \in Entity : Iterated(stack, m, d) => Iterated(stack', m, d)
  BY <1>1, <1>5, <1>6, <1>7
<1>9. \A d \in Entity : Announced(stack, d) => Announced(stack', d)
  BY <1>1, <1>5, <1>6, <1>7
<1>10. \A d \in Entity : Known(d)' => Known(d)
  <2>1. CASE recs_' = recs_
    BY <1>1, <2>1 DEF Known
  <2>2. CASE recs_' = LookupUpdate(recs_, e, makeRec(This, Top.node))
    <3>1. makeRec(This, Top.node) \in Record
      BY <1>3, makeRecType DEF Record
    <3>2. WellFormed(recs_, Entity, Record)
      BY DEF Types
    <3>3. /\ recs_'.directory = [recs_.directory EXCEPT ![e] = makeRec(This, Top.node)]
          /\ recs_'.cache = recs_.cache
      BY <1>3, <1>4, <2>2, <3>1, <3>2, LookupUpdateProperties
    <3>4. recs_.directory \in [Entity -> Record \cup {Absent}]
      BY <3>2 DEF WellFormed, Lookup
    <3>5. \A d \in Entity : LookupExists(recs_', d) => LookupExists(recs_, d)
      BY <1>3, <1>4, <3>3, <3>4 DEF LookupExists, DirExists
    <3> QED BY <1>1, <3>5 DEF Known
  <2> QED BY <1>1, <2>1, <2>2
<1>11. \A d \in Entity : pending_home_'[d] = pending_home_[d] \/ Announced(stack', d)
  <2>1. pending_home_ \in [Entity -> Nat]
    BY DEF Types
  <2>2. Announced(stack', e)
    BY <1>3, <1>5, <1>9
  <2> QED BY <1>1, <1>3, <2>1, <2>2
<1>12. WaitersServed'
  BY <1>1, <1>8, <1>9, <1>10, <1>11, ServedKept
<1>13. Asking'
  <2>1. pending_home_ \in [Entity -> Nat]
    BY DEF Types
  <2>2. ~Inline => \A d \in Entity : pending_home_'[d] = 0
    BY <1>1, <1>3, <2>1 DEF Asking
  <2> QED BY <1>1, <2>2 DEF Asking, Inline
<1> QED BY <1>12, <1>13

\* A registration makes an id known that is announced, or whose request is
\* still to be answered.
LEMMA registerEntityServed ==
  ASSUME Disciplined, Types, Shape, Asking, WaitersServed,
         NEW e \in Entity, registerEntity(e), UNCHANGED backend
  PROVE  Asking' /\ WaitersServed'
<1>1. /\ Outside
      /\ local_registered_' = local_registered_ \cup {e}
      /\ UNCHANGED <<waiters, pending_home_, asked>>
  BY WhenCalled DEF registerEntity, Shape, askVars
<1>2. CASE announceLocation(e, This)
  <2>1. /\ WellFormed(recs_, Entity, Record)
        /\ recs_'.directory = [recs_.directory EXCEPT ![e] = makeRec(This, This)]
        /\ recs_'.cache = recs_.cache
        /\ \A m \in Map : \A d : Iterated(stack', m, d) <=> Iterated(stack, m, d)
        /\ \A d : Announced(stack', d) <=> d = e
    BY <1>1, <1>2, AnnounceShape DEF Types
  <2>2. recs_.directory \in [Entity -> Record \cup {Absent}]
    BY <2>1 DEF WellFormed, Lookup
  <2>3. \A d \in Entity : Known(d)' => Known(d) \/ d = e
    BY <1>1, <2>1, <2>2 DEF Known, LookupExists, DirExists
  <2>4. \A d \in Entity : ~Announced(stack, d)
    BY <1>1, OutsideProperties
  <2> QED BY <1>1, <2>1, <2>3, <2>4, ServedSame
<1>3. CASE /\ ~(e \in HomeHere \/ Inline)
           /\ UNCHANGED <<recs_, stack>>
  <2>1. \A d \in Entity : Known(d)' => Known(d) \/ d = e
    BY <1>1, <1>3 DEF Known
  <2> QED BY <1>1, <1>3, <2>1, ServedSame
<1> QED BY <1>2, <1>3 DEF registerEntity

\* The calls that make nothing known.
LEMMA RecordsServed ==
  ASSUME Asking, WaitersServed,
         UNCHANGED <<backend, waiters, askVars, stack>>,
         \A d \in Entity : Known(d)' => Known(d)
  PROVE  Asking' /\ WaitersServed'
BY ServedSame DEF askVars

\* clearCache, entityEmigrated and unregisterEntity.
LEMMA OwnCallsServed ==
  ASSUME Types, Asking, WaitersServed, UNCHANGED backend,
         \/ clearCache
         \/ \E e \in Entity : entityEmigrated(e) \/ unregisterEntity(e)
  PROVE  Asking' /\ WaitersServed'
<1>0. WellFormed(recs_, Entity, Record)
  BY DEF Types
<1>1. CASE clearCache
  <2>1. /\ recs_'.directory = recs_.directory /\ CacheKeys(recs_'.cache) = {}
        /\ local_registered_' = local_registered_
    BY <1>0, <1>1, LookupClearCacheProperties DEF clearCache
  <2>2. \A d \in Entity : Known(d)' => Known(d)
    BY <2>1 DEF Known, LookupExists, CacheExists
  <2> QED BY <1>1, <2>2, RecordsServed DEF clearCache
<1>2. ASSUME NEW e \in Entity, entityEmigrated(e)
      PROVE  Asking' /\ WaitersServed'
  <2>1. makeRec(This, There) \in Record
    BY makeRecType DEF Record
  <2>2. \A d \in Entity : LookupExists(recs_', d) => LookupExists(recs_, d) \/ d = e
    <3>1. recs_.directory \in [Entity -> Record \cup {Absent}]
      BY <1>0 DEF WellFormed, Lookup
    <3>2. recs_' = LookupUpdate(recs_, e, makeRec(This, There))
      BY <1>2 DEF entityEmigrated
    <3>3. /\ DirExists(recs_.directory, e) =>
               /\ recs_'.directory = [recs_.directory EXCEPT ![e] = makeRec(This, There)]
               /\ recs_'.cache = recs_.cache
          /\ ~DirExists(recs_.directory, e) =>
               /\ recs_'.directory = recs_.directory
               /\ CacheKeys(recs_'.cache) \subseteq CacheKeys(recs_.cache) \cup {e}
      BY <1>0, <2>1, <3>2, LookupUpdateProperties
    <3> QED BY <3>1, <3>3 DEF LookupExists, DirExists, CacheExists
  <2>3. \A d \in Entity : Known(d)' => Known(d)
    BY <1>2, <2>2 DEF Known, entityEmigrated
  <2> QED BY <1>2, <2>3, RecordsServed DEF entityEmigrated
<1>3. ASSUME NEW e \in Entity, unregisterEntity(e)
      PROVE  Asking' /\ WaitersServed'
  <2>1. recs_.directory \in [Entity -> Record \cup {Absent}]
    BY <1>0 DEF WellFormed, Lookup
  <2>2. /\ recs_'.directory = [recs_.directory EXCEPT ![e] = Absent]
        /\ CacheKeys(recs_'.cache) \subseteq CacheKeys(recs_.cache)
    BY <1>0, <1>3, LookupRemoveProperties DEF unregisterEntity
  <2>3. \A d \in Entity : LookupExists(recs_', d) => LookupExists(recs_, d)
    BY <2>1, <2>2 DEF LookupExists, DirExists, CacheExists
  <2>4. \A d \in Entity : Known(d)' => Known(d)
    BY <1>3, <2>3 DEF Known, unregisterEntity
  <2> QED BY <1>3, <2>4, RecordsServed DEF unregisterEntity
<1> QED BY <1>1, <1>2, <1>3

\* A query answered on the spot.
LEMMA AnsweredServed ==
  ASSUME Types, Shape, Asking, WaitersServed, NewCallback,
         NEW map \in Map, NEW e \in Entity, AnsweredHere(map, e),
         map = "pending_" \/ stack = <<>>, UNCHANGED backend
  PROVE  Asking' /\ WaitersServed'
<1>1. /\ waiters' = waiters /\ local_registered_' = local_registered_
      /\ pending_home_' = pending_home_ /\ asked' = asked
      /\ \A d : LookupExists(recs_', d) <=> LookupExists(recs_, d)
      /\ \A m, d : Iterated(stack', m, d) <=> Iterated(stack, m, d)
      /\ \A d : Announced(stack', d) <=> Announced(stack, d)
  BY AnsweredProperties
<1>2. \A d \in Entity : Known(d)' => Known(d)
  BY <1>1 DEF Known
<1> QED BY <1>1, <1>2, ServedSame

\* The first waiter sends a request or has it buffered; the others find that
\* one.
LEMMA getLocationServed ==
  ASSUME Types, Shape, Asking, WaitersServed, NEW e \in Entity, getLocation(e),
         UNCHANGED backend
  PROVE  Asking' /\ WaitersServed'
<1>1. NewCallback /\ "pending_" \in Map
  BY OpsDiffer DEF getLocation
<1>2. CASE Known(e) /\ AnsweredHere("pending_", e)
  BY <1>1, <1>2, AnsweredServed
<1>3. CASE ~Known(e) /\ Waits("pending_", e, DisturbsQuery(e))
  <2>1. ~LookupExists(recs_, e)
    BY <1>3 DEF Known
  <2>2. ~Iterated(stack, "pending_", e) /\ ~Announced(stack, e)
    BY <2>1, UnknownNotFlushed
  <2>3. /\ \A m \in Map, d \in Entity :
             m # "pending_" \/ d # e => waiters'[m][d] = waiters[m][d]
        /\ recs_' = recs_ /\ local_registered_' = local_registered_
    BY <1>1, <1>3, <2>1, <2>2, WaitsProperties
  <2>4. stack' = stack
    BY <1>3 DEF getLocation
  <2>5. /\ First("pending_", e) /\ e \notin HomeHere /\ Inline =>
             /\ pending_home_' = [pending_home_ EXCEPT ![e] = pending_home_[e] + 1]
             /\ asked' = asked
        /\ First("pending_", e) /\ e \notin HomeHere /\ ~Inline =>
             /\ asked' = asked \cup {<<"pending_", e>>}
             /\ pending_home_' = pending_home_
        /\ ~(First("pending_", e) /\ e \notin HomeHere) =>
             asked' = asked /\ pending_home_' = pending_home_
    BY <1>3 DEF getLocation
  <2>6. pending_home_ \in [Entity -> Nat]
    BY DEF Types
  <2>7. \A d : Known(d)' <=> Known(d)
    BY <2>3 DEF Known
  <2>8. \A d : Announcing(d)' <=> Announcing(d)
    BY <2>4 DEF Announcing
  <2>9. /\ \A d \in Entity : d # e => pending_home_'[d] = pending_home_[d]
        /\ asked \subseteq asked'
        /\ \A m, d : <<m, d>> \in asked' =>
             <<m, d>> \in asked \/ m = "pending_"
        /\ ~Inline => pending_home_' = pending_home_
    BY <2>5, <2>6
  <2>10. \/ <<"pending_", e>> \in asked'
         \/ Announcing(e)
         \/ pending_home_'[e] > 0 /\ ~Known(e)
         \/ e \in HomeHere /\ ~Known(e)
    <3>1. CASE First("pending_", e) /\ e \in HomeHere
      BY <1>3, <3>1
    <3>2. CASE First("pending_", e) /\ e \notin HomeHere /\ Inline
      BY <1>3, <2>5, <2>6, <3>2
    <3>3. CASE First("pending_", e) /\ e \notin HomeHere /\ ~Inline
      BY <2>5, <3>3
    <3>4. CASE ~First("pending_", e)
      <4>1. waiters["pending_"][e] # <<>>
        BY <3>4 DEF First
      <4>2. asked' = asked /\ pending_home_' = pending_home_
        BY <2>5, <3>4
      <4> QED BY <2>2, <4>1, <4>2 DEF WaitersServed
    <3> QED BY <3>1, <3>2, <3>3, <3>4
  <2>11. ASSUME NEW d \in Entity
         PROVE  /\ waiters'["pending_"][d] # <<>> /\ ~Iterated(stack, "pending_", d) =>
                     \/ <<"pending_", d>> \in asked'
                     \/ Announcing(d)
                     \/ pending_home_'[d] > 0 /\ ~Known(d)
                     \/ d \in HomeHere /\ ~Known(d)
                /\ /\ waiters'["pending_exists_"][d] # <<>>
                   /\ ~Iterated(stack, "pending_exists_", d)
                   => <<"pending_exists_", d>> \in asked'
    <3>1. waiters'["pending_exists_"][d] = waiters["pending_exists_"][d]
      BY <2>3, OpsDiffer
    <3>2. CASE d = e
      BY <2>9, <2>10, <3>1, <3>2 DEF WaitersServed
    <3>3. CASE d # e
      <4>1. waiters'["pending_"][d] = waiters["pending_"][d]
        BY <2>3, <3>3, OpsDiffer
      <4> QED BY <2>9, <3>1, <3>3, <4>1 DEF WaitersServed
    <3> QED BY <3>2, <3>3
  <2>12. WaitersServed'
    BY <2>4, <2>7, <2>8, <2>11 DEF WaitersServed
  <2>13. Asking'
    BY <2>9 DEF Asking, Inline
  <2> QED BY <2>12, <2>13
<1> QED BY <1>2, <1>3 DEF getLocation

\* The first waiter sends a request or is flushed on the spot.
LEMMA entityExistsServed ==
  ASSUME Disciplined, Types, Shape, Asking, WaitersServed,
         NEW e \in Entity, entityExists(e), UNCHANGED backend
  PROVE  Asking' /\ WaitersServed'
<1>1. NewCallback /\ "pending_exists_" \in Map
  BY OpsDiffer DEF entityExists
<1>2. stack = <<>>
  BY WhenCalled DEF entityExists, Shape
<1>3. CASE AnsweredHere("pending_exists_", e)
  BY <1>1, <1>2, <1>3, AnsweredServed
<1>4. CASE /\ ~Known(e) /\ e \notin HomeHere
           /\ Waits("pending_exists_", e, Disturbs("pending_exists_", e))
  <2> DEFINE f == [Flush("pending_exists_", e) EXCEPT !.end = 1]
  <2>1. \A m, d : ~Iterated(stack, m, d)
    BY <1>2, EmptyStack
  <2>2. /\ \A m \in Map, d \in Entity :
             m # "pending_exists_" \/ d # e => waiters'[m][d] = waiters[m][d]
        /\ recs_' = recs_ /\ local_registered_' = local_registered_
    BY <1>1, <1>4, <2>1, OpsDiffer, WaitsProperties
  <2>3. pending_home_' = pending_home_
    BY <1>4 DEF entityExists
  <2>4. /\ First("pending_exists_", e) /\ Inline => asked' = asked /\ stack' = <<f>> \o stack
        /\ First("pending_exists_", e) /\ ~Inline =>
             /\ asked' = asked \cup {<<"pending_exists_", e>>}
             /\ stack' = stack
        /\ ~First("pending_exists_", e) => asked' = asked /\ stack' = stack
    BY <1>4 DEF entityExists
  <2>5. f \in Frame /\ f.op = "pending_exists_" /\ f.id = e /\ ~f.hit
    BY DEF Flush, Frame, Map
  <2> HIDE DEF f
  <2>6. \A d : Known(d)' <=> Known(d)
    BY <2>2 DEF Known
  <2>7. \A d : Announcing(d) => Announcing(d)'
    <3>1. DOMAIN <<>> = {}
      OBVIOUS
    <3> QED BY <1>2, <3>1 DEF Announcing
  <2>8. /\ asked \subseteq asked'
        /\ \A d \in Entity : <<"pending_exists_", d>> \in asked' =>
             <<"pending_exists_", d>> \in asked \/ d = e
    BY <2>4
  <2>9. <<"pending_exists_", e>> \in asked' \/ Iterated(stack', "pending_exists_", e)
    <3>1. CASE First("pending_exists_", e) /\ Inline
      <4>1. stack \in Seq(Frame)
        BY DEF Types
      <4> QED BY <2>4, <2>5, <3>1, <4>1, PushLoops
    <3>2. CASE First("pending_exists_", e) /\ ~Inline
      BY <2>4, <3>2
    <3>3. CASE ~First("pending_exists_", e)
      <4>1. waiters["pending_exists_"][e] # <<>>
        BY <3>3 DEF First
      <4> QED BY <2>1, <2>8, <4>1 DEF WaitersServed
    <3> QED BY <3>1, <3>2, <3>3
  <2>10. ASSUME NEW d \in Entity
         PROVE  /\ waiters'["pending_"][d] # <<>> /\ ~Iterated(stack', "pending_", d) =>
                     \/ <<"pending_", d>> \in asked'
                     \/ Announcing(d)'
                     \/ pending_home_'[d] > 0 /\ ~Known(d)'
                     \/ d \in HomeHere /\ ~Known(d)'
                /\ /\ waiters'["pending_exists_"][d] # <<>>
                   /\ ~Iterated(stack', "pending_exists_", d)
                   => <<"pending_exists_", d>> \in asked'
    <3>1. waiters'["pending_"][d] = waiters["pending_"][d]
      BY <2>2, OpsDiffer
    <3>2. CASE d = e
      BY <2>1, <2>3, <2>6, <2>7, <2>8, <2>9, <3>1, <3>2 DEF WaitersServed
    <3>3. CASE d # e
      <4>1. waiters'["pending_exists_"][d] = waiters["pending_exists_"][d]
        BY <1>1, <2>2, <3>3
      <4> QED BY <2>1, <2>3, <2>6, <2>7, <2>8, <3>1, <4>1 DEF WaitersServed
    <3> QED BY <3>2, <3>3
  <2>11. WaitersServed'
    BY <2>10 DEF WaitersServed
  <2>12. Asking'
    BY <1>4, <2>3, <2>8 DEF Asking, Inline
  <2> QED BY <2>11, <2>12
<1> QED BY <1>3, <1>4 DEF entityExists

\* updateHome announces the id it makes known.
LEMMA updateHomeServed ==
  ASSUME Types, Shape, Asking, WaitersServed, NEW e \in Entity, updateHome(e),
         UNCHANGED backend
  PROVE  Asking' /\ WaitersServed'
<1>1. /\ Outside /\ announceLocation(e, There)
      /\ UNCHANGED <<local_registered_, waiters, pending_home_, asked>>
  BY EmptyIsOutside DEF updateHome, Polls, askVars
<1>2. /\ WellFormed(recs_, Entity, Record)
      /\ recs_'.directory = [recs_.directory EXCEPT ![e] = makeRec(This, There)]
      /\ recs_'.cache = recs_.cache
      /\ \A m \in Map : \A d : Iterated(stack', m, d) <=> Iterated(stack, m, d)
      /\ \A d : Announced(stack', d) <=> d = e
  BY <1>1, AnnounceShape DEF Types
<1>3. recs_.directory \in [Entity -> Record \cup {Absent}]
  BY <1>2 DEF WellFormed, Lookup
<1>4. \A d \in Entity : Known(d)' => Known(d) \/ d = e
  BY <1>1, <1>2, <1>3 DEF Known, LookupExists, DirExists
<1>5. \A d \in Entity : ~Announced(stack, d)
  BY <1>1, OutsideProperties
<1> QED BY <1>1, <1>2, <1>4, <1>5, ServedSame

\* A response: the flush it starts takes the place of the request.
LEMMA ResponsesServed ==
  ASSUME Types, Shape, Asking, WaitersServed, UNCHANGED backend, NEW e \in Entity,
         resolveResponse(e) \/ \E exists \in BOOLEAN : existsResponse(e, exists)
  PROVE  Asking' /\ WaitersServed'
<1>1. /\ stack = <<>> /\ ~Inline
      /\ UNCHANGED <<local_registered_, waiters, pending_home_>>
  BY DEF resolveResponse, existsResponse, Polls
<1>2. WellFormed(recs_, Entity, Record) /\ makeRec(This, There) \in Record
  BY makeRecType DEF Types, Record
<1>3. ASSUME recs_' = LookupUpdate(recs_, e, makeRec(This, There)) \/ recs_' = recs_
      PROVE  \A d \in Entity : Known(d)' => Known(d) \/ d = e
  <2>1. CASE recs_' = recs_
    BY <1>1, <2>1 DEF Known
  <2>2. CASE recs_' = LookupUpdate(recs_, e, makeRec(This, There))
    <3>1. recs_.directory \in [Entity -> Record \cup {Absent}]
      BY <1>2 DEF WellFormed, Lookup
    <3>2. /\ DirExists(recs_.directory, e) =>
               /\ recs_'.directory = [recs_.directory EXCEPT ![e] = makeRec(This, There)]
               /\ recs_'.cache = recs_.cache
          /\ ~DirExists(recs_.directory, e) =>
               /\ recs_'.directory = recs_.directory
               /\ CacheKeys(recs_'.cache) \subseteq CacheKeys(recs_.cache) \cup {e}
      BY <1>2, <2>2, LookupUpdateProperties
    <3>3. \A d \in Entity : LookupExists(recs_', d) => LookupExists(recs_, d) \/ d = e
      BY <3>1, <3>2 DEF LookupExists, DirExists, CacheExists
    <3> QED BY <1>1, <3>3 DEF Known
  <2> QED BY <1>3, <2>1, <2>2
<1>4. \A m, d : ~Iterated(stack, m, d) /\ ~Announced(stack, d)
  BY <1>1, EmptyStack
<1>5. ASSUME NEW map \in Map, stack' = StartFlush(map, e, stack)
      PROVE  Iterated(stack', map, e) \/ waiters'[map][e] = <<>>
  <2>1. stack \in Seq(Frame)
    BY DEF Types
  <2>2. \A m, d : Iterated(stack', m, d) <=>
          \/ Iterated(stack, m, d)
          \/ m = map /\ d = e /\ waiters[map][e] # <<>>
    BY <1>5, <2>1, StartFlushProperties
  <2> QED BY <1>1, <2>2
<1>6. CASE resolveResponse(e)
  <2>1. /\ recs_' = LookupUpdate(recs_, e, makeRec(This, There))
        /\ stack' = StartFlush("pending_", e, stack)
        /\ asked' = asked \/ asked' = asked \ {<<"pending_", e>>}
    BY <1>6 DEF resolveResponse
  <2>2. Iterated(stack', "pending_", e) \/ waiters'["pending_"][e] = <<>>
    BY <1>5, <2>1, OpsDiffer
  <2>3. \A d \in Entity : Known(d)' => Known(d) \/ d = e
    BY <1>3, <2>1
  <2>4. \A m \in Map, d \in Entity : <<m, d>> \in asked =>
          <<m, d>> \in asked' \/ (m = "pending_" /\ d = e)
    BY <2>1
  <2>5. WaitersServed'
    BY <1>1, <1>4, <2>2, <2>3, <2>4, ServedKept
  <2>6. Asking'
    BY <1>1, <2>1 DEF Asking, Inline
  <2> QED BY <2>5, <2>6
<1>7. ASSUME NEW exists \in BOOLEAN, existsResponse(e, exists)
      PROVE  Asking' /\ WaitersServed'
  <2>1. /\ <<"pending_exists_", e>> \in asked
        /\ recs_' = LookupUpdate(recs_, e, makeRec(This, There)) \/ recs_' = recs_
        /\ stack' = StartFlush("pending_exists_", e, stack)
        /\ asked' = asked \ {<<"pending_exists_", e>>}
    BY <1>7 DEF existsResponse
  <2>2. Iterated(stack', "pending_exists_", e) \/ waiters'["pending_exists_"][e] = <<>>
    BY <1>5, <2>1, OpsDiffer
  <2>3. \A d \in Entity : Known(d)' => Known(d) \/ d = e
    BY <1>3, <2>1
  <2>4. e \notin HomeHere
    BY <2>1 DEF Asking
  <2>5. \A m \in Map, d \in Entity : <<m, d>> \in asked =>
          <<m, d>> \in asked' \/ (m = "pending_exists_" /\ d = e)
    BY <2>1
  <2>6. WaitersServed'
    BY <1>1, <1>4, <2>2, <2>3, <2>4, <2>5, ServedKept
  <2>7. Asking'
    BY <1>1, <2>1 DEF Asking, Inline
  <2> QED BY <2>6, <2>7
<1> QED BY <1>6, <1>7

\* That every vector is going to be served is inductive.
LEMMA StepServed ==
  ASSUME Disciplined, Types, Shape, Asking, WaitersServed, [Next]_vars
  PROVE  Asking' /\ WaitersServed'
<1>1. CASE UNCHANGED vars
  BY <1>1 DEF vars, recVars, askVars, cbVars, Asking, Inline, WaitersServed,
              Announcing, Known
<1>2. CASE Next
  <2>1. UNCHANGED backend
    BY <1>2 DEF Next
  <2>2. CASE CallNext \/ Return \/ AnnounceStep \/ AnnounceReturn \/ clearCache
    BY <2>1, <2>2, CallNextServed, ReturnServed, AnnounceStepServed,
       AnnounceReturnServed, OwnCallsServed
  <2>3. ASSUME NEW e \in Entity,
               \/ registerEntity(e) \/ entityEmigrated(e) \/ unregisterEntity(e)
               \/ getLocation(e) \/ entityExists(e)
               \/ updateHome(e) \/ resolveResponse(e)
               \/ \E exists \in BOOLEAN : existsResponse(e, exists)
        PROVE  Asking' /\ WaitersServed'
    BY <2>1, <2>3, registerEntityServed, OwnCallsServed, getLocationServed,
       entityExistsServed, updateHomeServed, ResponsesServed
  <2> QED BY <1>2, <2>2, <2>3 DEF Next
<1> QED BY <1>1, <1>2

\* Nobody waits.
LEMMA InitServed == Init => Asking /\ WaitersServed
BY DEF Init, Asking, WaitersServed, Map

\* If callbacks keep the discipline, each vector of pending_ and pending_exists_
\* with waiters is being flushed or is going to be: a request of getLocation or
\* entityExists is unanswered or buffered, announceLocation is under way, or
\* this is the home and does not know the entity.
THEOREM WaitersAreServed ==
  ASSUME Disciplined
  PROVE  Spec => []WaitersServed
<1> DEFINE I == Types /\ Shape /\ Asking /\ WaitersServed
<1>1. Init => I
  BY InitShape, InitServed
<1>2. I /\ [Next]_vars => I'
  BY StepShape, StepServed
<1> QED BY <1>1, <1>2, PTL DEF Spec

=============================================================================
