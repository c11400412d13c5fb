--------------------------- MODULE AcpRuntimeProofs ---------------------------
(***************************************************************************)
(* What the ACP runtime promises, for any number of sessions, turns and    *)
(* permissions and for any limits: no permission the agent asks for is     *)
(* forgotten (AsksAreKept), and what the loop of a run service hears of a  *)
(* session is a stream of turns (StreamIsInOrder).                         *)
(*                                                                         *)
(* The first rests on one object alone (Coherent).  The second compares    *)
(* the object with what its loop has heard: the events in the queue can    *)
(* be heard one after the other (Hearable), and once they are heard the    *)
(* loop knows the turn that is on and its requests (Linked).               *)
(***************************************************************************)
EXTENDS AcpRuntime, SequenceTheorems, TLAPS

\* The stages of a session object.
Stage == {"none", "creating", "resuming", "open", "closed"}

\* What the agent tells the loop of a run service.
Events == [type : {"started", "update", "asked", "expired", "ended"}, of : Nat]

\* A stop of a turn: the permissions it expires, and whether it replaces the session.
Stops == [turn : Nat, expired : Seq(Nat), replace : BOOLEAN]

\* A session object.
ObjectType ==
    [stage : Stage, id : Id \cup {NoId}, turn : Nat, generation : Nat,
     terminalEmitted : BOOLEAN, stopping : BOOLEAN, overflowed : BOOLEAN,
     count : Nat, pending : Seq(Nat), unanswered : SUBSET Nat, prompts : SUBSET Nat,
     queue : Seq(Events), shut : BOOLEAN, eviction : BOOLEAN, stop : Stops]

\* What a loop has heard.
HeardType == [current : Nat, last : Nat, asking : SUBSET Nat, sound : BOOLEAN]

\* The type of the state.
TypeInv ==
    /\ sessions \in [Id -> Object \cup {NoObject}]
    /\ object \in [Object -> ObjectType]
    /\ heard \in [Object -> HeardType]
    /\ turns \in Nat /\ asks \in Nat

\* The permissions that are pending or held by a stop.
Held(s) == {a \in Nat : Contains(s.pending, a) \/ Contains(s.stop.expired, a)}

\* A permission the agent waits for is pending or held by a stop, and the map of
\* pending ones is empty unless a turn is on that is neither stopping nor
\* overflowed.
Coherent(s) ==
    /\ s.pending # <<>> => s.turn # 0 /\ ~s.shut
    /\ s.turn # 0 => ~s.stopping /\ ~s.overflowed
    /\ ~s.stopping => s.stop = NoStop
    /\ s.stop # NoStop => s.stop.turn # 0
    /\ s.turn # 0 \/ s.terminalEmitted \/ s.prompts = {}
    /\ s.shut => s.stage = "closed"
    /\ s.eviction => s.turn = 0
    /\ s.unanswered \subseteq Held(s)

\* What a registered object looks like.
Known ==
    \A i \in Id : sessions[i] # NoObject =>
        object[sessions[i]].stage = "open" /\ object[sessions[i]].id = i

\* The expiry of a is in the queue q before position n.
Expires(q, n, a) == \E k \in 1 .. Len(q) : k < n /\ q[k] = Event("expired", a)

\* A loop that has heard h can hear event n of the queue q when it gets there.
Hears1(h, q, n) ==
    /\ q[n].type = "started" => Len(q) = 1 /\ h.current = 0 /\ q[n].of > h.last
    /\ q[n].type = "asked" => Len(q) = 1 /\ h.current # 0
    /\ q[n].type = "update" => h.current # 0 /\ q[n].of = h.current
    /\ q[n].type = "ended" =>
        /\ n = Len(q) /\ h.current # 0 /\ q[n].of = h.current
        /\ \A a \in h.asking : Expires(q, n, a)

\* A loop that has heard h can hear the whole queue.
Hearable(h, q) ==
    /\ h.current # 0 => h.last = h.current
    /\ \A n \in 1 .. Len(q) : Hears1(h, q, n)

\* The event is about a turn and a permission there has been, up to the newest.
NamedEvent(e, turn, ask) ==
    /\ e.type \in {"started", "update", "ended"} => e.of <= turn
    /\ e.type \in {"asked", "expired"} => e.of \in 1 .. ask

\* Every event of the queue is about a known turn and a known permission.
AllNamed(q, turn, ask) == \A n \in 1 .. Len(q) : NamedEvent(q[n], turn, ask)

\* The turn that is on, or that is being stopped.
OnTurn(s) == IF s.turn # 0 THEN s.turn ELSE s.stop.turn

\* The queue ends the turn.
Ends(q) == q # <<>> /\ q[Len(q)].type = "ended"

\* What h knows of the turn of s, once it has heard the queue.
Linked(h, s) ==
    /\ IF OnTurn(s) = 0
       THEN Ends(s.queue) \/ (s.queue = <<>> /\ h.current = 0 /\ h.asking = {})
       ELSE \/ s.queue = <<Event("started", OnTurn(s))>> /\ h.current = 0 /\ h.asking = {}
            \/ h.current = OnTurn(s) /\ ~Ends(s.queue)
    /\ \A a \in h.asking : a \in Held(s) \/ Expires(s.queue, Len(s.queue) + 1, a)
    /\ \A n \in 1 .. Len(s.queue) : s.queue[n].type = "asked" => s.queue[n].of \in Held(s)

\* The names known to a loop that has heard h and to its object s.
Names(h, s, turn, ask) ==
    /\ h.last <= turn /\ h.current <= turn /\ OnTurn(s) <= turn
    /\ h.asking \cup Held(s) \subseteq 1 .. ask
    /\ AllNamed(s.queue, turn, ask)

\* The record h is kept until an event cannot be persisted, and it is compared
\* with the object until its queue is shut.
Tracks(h, s, turn, ask) ==
    /\ Names(h, s, turn, ask)
    /\ h.sound => Hearable(h, s.queue) /\ (s.shut \/ Linked(h, s))

\* Nothing to hear and no turn.
Idle(s) == s.queue = <<>> /\ OnTurn(s) = 0

\* The loop of o follows its object, as long as it is sound.
Follows(o) ==
    /\ Tracks(heard[o], object[o], turns, asks)
    /\ heard[o].sound => object[o].shut \/ o \in listening \/ Idle(object[o])

\* t is s with its stage, its turn and its permissions.
Keeps(s, t) ==
    /\ t.stage = s.stage /\ t.id = s.id /\ t.shut = s.shut
    /\ OnTurn(t) = OnTurn(s) /\ Held(t) = Held(s)
    /\ t.turn = s.turn \/ t.turn = 0
    /\ s.pending = <<>> => t.pending = <<>>
    /\ s.terminalEmitted => t.terminalEmitted

\* Every object is coherent.
CoherentInv == \A o \in Object : Coherent(object[o])

\* Every loop follows its object.
FollowsInv == \A o \in Object : Follows(o)

\* The inductive invariant.
RuntimeInv == TypeInv /\ CoherentInv /\ Known /\ FollowsInv
-----------------------------------------------------------------------------
(***************************************************************************)
(* The helpers of a session object keep its type and are coherent.         *)
(***************************************************************************)
\* Events of the runtime are events.
LEMMA EventIsOne ==
    ASSUME NEW type \in {"started", "update", "asked", "expired", "ended"}, NEW of \in Nat
    PROVE  Event(type, of) \in Events
BY DEF Event, Events

\* No permissions are a sequence of them.
LEMMA EmptyIsSeq == <<>> \in Seq(Nat)
BY EmptySeq

\* #overflow empties the map of permissions into the stop it begins.
LEMMA OverflowKeeps ==
    ASSUME NEW s \in ObjectType, Coherent(s), NEW g
    PROVE  LET t == Overflow(s, g)
           IN  /\ t \in ObjectType /\ Coherent(t) /\ Keeps(s, t) /\ t.queue = s.queue
               /\ g = s.generation => t.turn = 0
<1>1. CASE g # s.generation \/ s.overflowed \/ s.stopping
  BY <1>1 DEF Overflow, Keeps, Coherent
<1>2. CASE ~(g # s.generation \/ s.overflowed \/ s.stopping)
  <2> DEFINE t == [s EXCEPT !.overflowed = TRUE, !.pending = <<>>]
  <2>1. t \in ObjectType
    BY EmptyIsSeq DEF ObjectType
  <2>2. /\ t.stage = s.stage /\ t.id = s.id /\ t.shut = s.shut /\ t.turn = s.turn
        /\ t.stop = s.stop /\ t.unanswered = s.unanswered /\ t.queue = s.queue
        /\ t.stopping = s.stopping /\ t.prompts = s.prompts
        /\ t.terminalEmitted = s.terminalEmitted /\ t.eviction = s.eviction
    BY DEF ObjectType
  <2>3. CASE s.turn = 0
    <3>1. Overflow(s, g) = t
      BY <1>2, <2>3 DEF Overflow
    <3>2. s.pending = <<>> /\ t.pending = <<>>
      BY <2>3 DEF Coherent, ObjectType
    <3>3. Held(t) = Held(s)
      BY <2>2, <3>2 DEF Held
    <3>4. Coherent(t)
      <4> HIDE DEF t
      <4> QED BY <2>2, <2>3, <3>2, <3>3 DEF Coherent
    <3>5. Keeps(s, t)
      <4> HIDE DEF t
      <4> QED BY <2>2, <3>2, <3>3 DEF Keeps, OnTurn
    <3> QED BY <2>1, <2>2, <2>3, <3>1, <3>4, <3>5
  <2>4. CASE s.turn # 0
    <3>1. Overflow(s, g) = BeginStop(t, s.pending, TRUE)
      BY <1>2, <2>4 DEF Overflow
    <3>2. PICK n \in Nat : n = s.generation + 1
      BY DEF ObjectType
    <3> DEFINE stop == [turn |-> s.turn, expired |-> s.pending, replace |-> TRUE]
    <3>3. stop \in Stops /\ stop.expired = s.pending /\ stop.turn = s.turn
      BY DEF ObjectType, Stops
    <3> DEFINE u == [t EXCEPT !.pending = <<>>, !.stopping = TRUE, !.generation = n,
                        !.terminalEmitted = TRUE, !.turn = 0, !.stop = stop]
    <3>4. Overflow(s, g) = u
      BY <1>2, <3>1, <3>2 DEF BeginStop, ObjectType
    <3> HIDE DEF stop, t
    <3>5. u \in ObjectType
      BY <2>1, <3>2, <3>3, EmptyIsSeq DEF ObjectType
    <3>6. s.stop.expired = <<>>
      BY <1>2 DEF Coherent, NoStop
    <3>7. /\ u.pending = <<>> /\ u.stopping /\ u.terminalEmitted /\ u.turn = 0
          /\ u.stop = stop /\ u.unanswered = s.unanswered /\ u.queue = s.queue
          /\ u.shut = s.shut /\ u.stage = s.stage /\ u.id = s.id
      BY <2>1, <2>2 DEF ObjectType
    <3> HIDE DEF u
    <3>8. Held(u) = Held(s)
      BY <3>3, <3>6, <3>7 DEF Held, Contains
    <3>9. Coherent(u)
      BY <1>2, <2>4, <3>3, <3>7, <3>8 DEF Coherent
    <3>10. Keeps(s, u)
      BY <2>4, <3>3, <3>7, <3>8 DEF Keeps, OnTurn
    <3> QED BY <3>4, <3>5, <3>7, <3>9, <3>10
  <2> QED BY <2>3, <2>4
<1> QED BY <1>1, <1>2

\* #emit puts the event in the queue, overflows or does nothing.
LEMMA EmitKeeps ==
    ASSUME NEW s \in ObjectType, Coherent(s), NEW e \in Events, NEW g
    PROVE  LET t == Emit(s, e, g)
           IN  /\ t \in ObjectType /\ Coherent(t) /\ Keeps(s, t)
               /\ t.queue = s.queue \/ (~s.shut /\ t.queue = Append(s.queue, e))
<1>1. CASE g # s.generation \/ s.overflowed
  BY <1>1 DEF Emit, Keeps
<1>2. CASE ~(g # s.generation \/ s.overflowed) /\ Full(s)
  BY <1>2, OverflowKeeps DEF Emit
<1>3. CASE ~(g # s.generation \/ s.overflowed) /\ ~Full(s)
  <2>1. PICK n \in Nat : n = s.count + 1
    BY DEF ObjectType
  <2>2. Append(s.queue, e) \in Seq(Events)
    BY DEF ObjectType
  <2>3. PICK q \in Seq(Events) : q = Append(s.queue, e)
    BY <2>2
  <2> DEFINE t == [s EXCEPT !.count = n]
             u == [s EXCEPT !.count = n, !.queue = q]
  <2>4. Emit(s, e, g) = IF s.shut THEN t ELSE u
    BY <1>3, <2>1, <2>3 DEF Emit, Push, ObjectType
  <2>5. t \in ObjectType /\ u \in ObjectType
    BY <2>1, <2>3 DEF ObjectType
  <2>6. Held(t) = Held(s) /\ Held(u) = Held(s)
    BY DEF Held, ObjectType
  <2>7. Coherent(t) /\ Coherent(u)
    BY <2>6 DEF Coherent, ObjectType
  <2>8. Keeps(s, t) /\ Keeps(s, u)
    BY <2>6 DEF Keeps, ObjectType, OnTurn
  <2>9. t.queue = s.queue /\ u.queue = q
    BY DEF ObjectType
  <2> QED BY <2>3, <2>4, <2>5, <2>7, <2>8, <2>9
<1> QED BY <1>1, <1>2, <1>3

\* interruptTurn empties the map of permissions into the stop it begins.
LEMMA InterruptedKeeps ==
    ASSUME NEW s \in ObjectType, Coherent(s), s.turn # 0
    PROVE  LET t == Interrupted(s)
           IN  t \in ObjectType /\ Coherent(t) /\ Keeps(s, t) /\ t.queue = s.queue
<1>1. ~s.stopping /\ s.stop.expired = <<>>
  BY DEF Coherent, NoStop
<1>2. PICK n \in Nat : n = s.generation + 1
  BY DEF ObjectType
<1> DEFINE stop == [turn |-> s.turn, expired |-> s.pending, replace |-> FALSE]
<1>3. stop \in Stops /\ stop.expired = s.pending /\ stop.turn = s.turn
  BY DEF ObjectType, Stops
<1> DEFINE u == [s EXCEPT !.pending = <<>>, !.stopping = TRUE, !.generation = n,
                    !.terminalEmitted = TRUE, !.turn = 0, !.stop = stop]
<1>4. Interrupted(s) = u
  BY <1>1, <1>2 DEF Interrupted, BeginStop, ObjectType
<1> HIDE DEF stop
<1>5. u \in ObjectType
  BY <1>2, <1>3, EmptyIsSeq DEF ObjectType
<1>6. /\ u.pending = <<>> /\ u.stopping /\ u.terminalEmitted /\ u.turn = 0
      /\ u.stop = stop /\ u.unanswered = s.unanswered /\ u.queue = s.queue
      /\ u.shut = s.shut /\ u.stage = s.stage /\ u.id = s.id
  BY DEF ObjectType
<1> HIDE DEF u
<1>7. Held(u) = Held(s)
  BY <1>1, <1>3, <1>6 DEF Held, Contains
<1>8. Coherent(u)
  BY <1>3, <1>6, <1>7 DEF Coherent
<1>9. Keeps(s, u)
  BY <1>3, <1>6, <1>7 DEF Keeps, OnTurn
<1> QED BY <1>4, <1>5, <1>6, <1>8, <1>9

\* Expiries are events, one for each permission.
LEMMA ExpiriesAre ==
    ASSUME NEW q \in Seq(Nat)
    PROVE  /\ Expiries(q) \in Seq(Events) /\ Len(Expiries(q)) = Len(q)
           /\ \A n \in 1 .. Len(q) : Expiries(q)[n] = Event("expired", q[n])
<1>1. \A n \in 1 .. Len(q) : q[n] \in Nat
  BY ElementOfSeq
<1>2. \A n \in 1 .. Len(q) : Event("expired", q[n]) \in Events
  BY <1>1 DEF Event, Events
<1>3. Len(q) \in Nat
  BY LenProperties
<1>4. Expiries(q) \in [1 .. Len(q) -> Events]
  BY <1>2 DEF Expiries
<1>5. Expiries(q) \in Seq(Events)
  BY <1>3, <1>4, SeqDef
<1> QED BY <1>3, <1>4, <1>5, LenProperties DEF Expiries

\* The events of #cancelPermissions that fit.
LEMMA FittingIs ==
    ASSUME NEW s \in ObjectType
    PROVE  Fitting(s) \in 0 .. Len(s.pending)
<1>1. Len(s.pending) \in Nat /\ Len(s.queue) \in Nat /\ s.count \in Nat
  BY DEF ObjectType
<1>2. QueueLimit \in Nat /\ EventLimit \in Nat
  BY RuntimeAssumption
<1> QED BY <1>1, <1>2 DEF Fitting, Full, Least

\* What #cancelPermissions makes of s: no request is pending, and each has
\* expired in the queue or is held by the stop of an overflow.
Cancelled(s, t) ==
    /\ t \in ObjectType /\ Coherent(t) /\ t.pending = <<>>
    /\ t.stage = s.stage /\ t.id = s.id /\ t.shut = s.shut
    /\ OnTurn(t) = OnTurn(s) /\ Held(t) \subseteq Held(s)
    /\ \E n \in 0 .. Len(s.pending) :
        /\ t.queue = s.queue \o Expiries(SubSeq(s.pending, 1, n))
        /\ Held(t) = Held(s) \/ n = Len(s.pending)
        /\ \/ /\ t.turn = s.turn /\ t.stop = s.stop /\ n = Len(s.pending)
              /\ t.generation = s.generation
           \/ t.turn = 0 /\ t.generation # s.generation

\* Cancelling the pending permissions expires each of them, or ends the turn.
LEMMA CancelPermissionsKeeps ==
    ASSUME NEW s \in ObjectType, Coherent(s)
    PROVE  Cancelled(s, CancelPermissions(s))
<1> DEFINE n == Fitting(s)
           first == SubSeq(s.pending, 1, n)
           R == {s.pending[k] : k \in 1 .. Least(Len(s.pending), n + 1)}
<1>1. n \in 0 .. Len(s.pending) /\ Len(s.pending) \in Nat
  BY FittingIs DEF ObjectType
<1>2. first \in Seq(Nat) /\ (n = Len(s.pending) => first = s.pending)
  BY <1>1, SubSeqFull, ElementOfSeq, SubSeqProperties DEF ObjectType
<1>3. PICK q \in Seq(Events) : q = s.queue \o Expiries(first)
  <2>1. Expiries(first) \in Seq(Events) /\ s.queue \in Seq(Events)
    BY <1>2, ExpiriesAre DEF ObjectType
  <2> QED BY <2>1, ConcatProperties
<1>4. PICK m \in Nat : m = s.count + n
  BY <1>1 DEF ObjectType
<1> DEFINE told == [s EXCEPT !.count = m, !.queue = q]
<1>5. ExpirePending(s) = IF n = Len(s.pending) THEN [told EXCEPT !.pending = <<>>]
                         ELSE Overflow(told, s.generation)
  BY <1>3, <1>4 DEF ExpirePending, ObjectType
<1>6. told \in ObjectType
  BY <1>3, <1>4 DEF ObjectType
<1>7. /\ told.stage = s.stage /\ told.id = s.id /\ told.shut = s.shut /\ told.turn = s.turn
      /\ told.stop = s.stop /\ told.unanswered = s.unanswered /\ told.queue = q
      /\ told.stopping = s.stopping /\ told.prompts = s.prompts /\ told.pending = s.pending
      /\ told.terminalEmitted = s.terminalEmitted /\ told.overflowed = s.overflowed
      /\ told.generation = s.generation /\ told.eviction = s.eviction
  BY DEF ObjectType
<1> HIDE DEF told, n, first
<1>8. Held(told) = Held(s) /\ OnTurn(told) = OnTurn(s)
  BY <1>7 DEF Held, OnTurn
<1>9. Coherent(told)
  BY <1>7, <1>8 DEF Coherent
<1>10. CASE n = Len(s.pending)
  <2> DEFINE t == [told EXCEPT !.pending = <<>>, !.unanswered = s.unanswered \ R]
  <2>1. CancelPermissions(s) = t
    BY <1>5, <1>6, <1>7, <1>10 DEF CancelPermissions, ObjectType, n
  <2>2. s.unanswered \ R \in SUBSET Nat
    BY DEF ObjectType
  <2> HIDE DEF R
  <2>3. t \in ObjectType
    BY <1>6, <2>2, EmptyIsSeq DEF ObjectType
  <2>4. /\ t.pending = <<>> /\ t.stage = s.stage /\ t.id = s.id /\ t.shut = s.shut
        /\ t.turn = s.turn /\ t.stop = s.stop /\ t.unanswered = s.unanswered \ R
        /\ t.queue = q /\ t.stopping = s.stopping /\ t.prompts = s.prompts
        /\ t.terminalEmitted = s.terminalEmitted /\ t.overflowed = s.overflowed
        /\ t.generation = s.generation /\ t.eviction = s.eviction
    BY <1>6, <1>7 DEF ObjectType
  <2> HIDE DEF t
  <2>5. \A a \in Nat : Contains(s.pending, a) => a \in R
    BY <1>1, <1>10 DEF R, Least, Contains
  <2>6. Held(t) \subseteq Held(s) /\ Held(s) \ R \subseteq Held(t)
    BY <2>4, <2>5 DEF Held, Contains
  <2>7. Coherent(t)
    BY <2>4, <2>6 DEF Coherent
  <2> QED BY <1>1, <1>3, <1>10, <2>1, <2>3, <2>4, <2>6, <2>7 DEF Cancelled, OnTurn, first
<1>11. CASE n # Len(s.pending)
  <2> DEFINE u == Overflow(told, s.generation)
             t == [u EXCEPT !.unanswered = u.unanswered \ R]
  <2>1. CancelPermissions(s) = t
    BY <1>5, <1>11 DEF CancelPermissions, n
  <2>2. u \in ObjectType /\ Coherent(u) /\ Keeps(told, u) /\ u.queue = q /\ u.turn = 0
    BY <1>6, <1>7, <1>9, OverflowKeeps
  <2>3. u.generation # s.generation
    <3>1. s.turn # 0
      BY <1>1, <1>11 DEF Coherent
    <3>2. ~s.stopping /\ ~s.overflowed
      BY <3>1 DEF Coherent
    <3>3. u = BeginStop([told EXCEPT !.overflowed = TRUE, !.pending = <<>>], s.pending, TRUE)
      BY <1>7, <3>1, <3>2 DEF Overflow
    <3>4. u.generation = s.generation + 1
      BY <1>6, <1>7, <3>2, <3>3 DEF BeginStop, ObjectType
    <3> QED BY <3>4 DEF ObjectType
  <2> HIDE DEF u
  <2>4. u.unanswered \ R \in SUBSET Nat
    BY <2>2 DEF ObjectType
  <2> HIDE DEF R
  <2>5. t \in ObjectType
    BY <2>2, <2>4 DEF ObjectType
  <2>6. /\ t.pending = u.pending /\ t.stage = u.stage /\ t.id = u.id /\ t.shut = u.shut
        /\ t.turn = u.turn /\ t.stop = u.stop /\ t.unanswered = u.unanswered \ R
        /\ t.queue = u.queue /\ t.stopping = u.stopping /\ t.prompts = u.prompts
        /\ t.terminalEmitted = u.terminalEmitted /\ t.overflowed = u.overflowed
        /\ t.generation = u.generation /\ t.eviction = u.eviction
    BY <2>2 DEF ObjectType
  <2> HIDE DEF t
  <2>7. Held(t) = Held(u) /\ OnTurn(t) = OnTurn(u)
    BY <2>6 DEF Held, OnTurn
  <2>8. Coherent(t)
    BY <2>2, <2>6, <2>7 DEF Coherent
  <2>9. t.pending = <<>>
    BY <2>2, <2>6, <2>8 DEF Coherent
  <2> QED BY <1>1, <1>3, <1>7, <1>8, <2>1, <2>2, <2>3, <2>5, <2>6, <2>7, <2>8, <2>9
          DEF Cancelled, Keeps, first
<1> QED BY <1>10, <1>11

\* While a turn is on, #emit puts the event in the queue or begins to stop the turn.
LEMMA EmitOnTurn ==
    ASSUME NEW s \in ObjectType, Coherent(s), NEW e \in Events, s.turn # 0, ~s.shut
    PROVE  LET t == Emit(s, e, s.generation)
           IN  \/ /\ t.turn = s.turn /\ t.stop = s.stop /\ t.generation = s.generation
                  /\ t.queue = Append(s.queue, e)
               \/ t.turn = 0 /\ t.queue = s.queue /\ t.generation # s.generation
<1>1. ~s.overflowed /\ ~s.stopping
  BY DEF Coherent
<1>2. CASE Full(s)
  <2>1. Emit(s, e, s.generation)
          = BeginStop([s EXCEPT !.overflowed = TRUE, !.pending = <<>>], s.pending, TRUE)
    BY <1>1, <1>2 DEF Emit, Overflow
  <2>2. s.generation + 1 # s.generation
    BY DEF ObjectType
  <2> QED BY <1>1, <2>1, <2>2 DEF BeginStop, ObjectType
<1>3. CASE ~Full(s)
  BY <1>1, <1>3 DEF Emit, Push, ObjectType
<1> QED BY <1>2, <1>3

\* The event u, or nothing.
Maybe(u) == {<<>>, <<u>>}

\* What the end of a prompt makes of s: the expiries of its permissions, the end
\* of the last message, and the end of the turn, unless one of them overflows.
Answers(s, r) ==
    /\ r.stage = s.stage /\ r.id = s.id /\ r.shut = s.shut /\ r.turn = 0
    /\ Held(r) \subseteq Held(s)
    /\ \E n \in 0 .. Len(s.pending) : \E mid \in Maybe(Event("update", s.turn)) :
        LET told == (s.queue \o Expiries(SubSeq(s.pending, 1, n))) \o mid
        IN  /\ Held(r) = Held(s) \/ n = Len(s.pending)
            /\ \/ r.queue = told /\ OnTurn(r) = OnTurn(s)
               \/ r.queue = Append(told, Event("ended", s.turn)) /\ OnTurn(r) = 0
                    /\ n = Len(s.pending)

\* The end of a prompt that is the current one ends its turn.
LEMMA AnsweredKeeps ==
    ASSUME NEW s \in ObjectType, Coherent(s), NEW completes \in BOOLEAN,
           s.turn # 0, ~s.shut, ~s.terminalEmitted
    PROVE  LET r == Answered(s, s.generation, completes)
           IN  r \in ObjectType /\ Coherent(r) /\ Answers(s, r)
<1> DEFINE g == s.generation
           t == CancelPermissions(s)
           update == Event("update", s.turn)
           ended == Event("ended", s.turn)
           u == IF completes THEN Emit(t, update, g) ELSE t
           v == [u EXCEPT !.terminalEmitted = TRUE]
           w == Emit(v, ended, g)
           r == [w EXCEPT !.turn = 0, !.eviction = TRUE]
<1>1. Answered(s, g, completes) = r
  BY DEF Answered
<1>2. update \in Events /\ ended \in Events
  BY DEF Event, Events, ObjectType
<1>3. Cancelled(s, t)
  BY CancelPermissionsKeeps
<1> HIDE DEF t, update, ended
<1>4. /\ u \in ObjectType /\ Coherent(u) /\ Keeps(t, u)
      /\ \/ u.turn = s.turn /\ u.generation = g /\ t.turn = s.turn /\ t.generation = g
            /\ u.queue \in {t.queue, Append(t.queue, update)} /\ u.stop = t.stop
         \/ u.generation # g /\ u.turn = 0 /\ u.queue = t.queue
  <2>1. CASE ~completes
    <3>1. u = t
      BY <2>1
    <3> HIDE DEF u
    <3>2. Keeps(t, t)
      BY DEF Keeps
    <3> QED BY <1>3, <3>1, <3>2 DEF Cancelled
  <2>2. CASE completes
    <3>1. u = Emit(t, update, g)
      BY <2>2
    <3> HIDE DEF u
    <3>2. u \in ObjectType /\ Coherent(u) /\ Keeps(t, u)
      BY <1>2, <1>3, <3>1, EmitKeeps DEF Cancelled
    <3>3. CASE t.generation # g
      <4>1. u = t
        BY <3>1, <3>3 DEF Emit
      <4> QED BY <1>3, <3>2, <3>3, <4>1 DEF Cancelled
    <3>4. CASE t.generation = g
      <4>1. t.turn = s.turn
        BY <1>3, <3>4 DEF Cancelled
      <4>2. \/ /\ u.turn = t.turn /\ u.stop = t.stop /\ u.generation = t.generation
               /\ u.queue = Append(t.queue, update)
            \/ u.turn = 0 /\ u.queue = t.queue /\ u.generation # t.generation
        BY <1>2, <1>3, <3>1, <3>4, <4>1, EmitOnTurn DEF Cancelled
      <4> QED BY <3>2, <3>4, <4>1, <4>2
    <3> QED BY <3>3, <3>4
  <2> QED BY <2>1, <2>2
<1> HIDE DEF u
<1>5. /\ v \in ObjectType /\ v.turn = u.turn /\ v.generation = u.generation /\ v.shut = u.shut
      /\ v.queue = u.queue /\ v.stop = u.stop /\ v.pending = u.pending
      /\ v.stage = u.stage /\ v.id = u.id /\ v.unanswered = u.unanswered
      /\ v.stopping = u.stopping /\ v.overflowed = u.overflowed /\ v.terminalEmitted
      /\ v.eviction = u.eviction
  BY <1>4 DEF ObjectType
<1> HIDE DEF v
<1>6. Held(v) = Held(u) /\ OnTurn(v) = OnTurn(u)
  BY <1>5 DEF Held, OnTurn
<1>7. Coherent(v)
  BY <1>4, <1>5, <1>6 DEF Coherent
<1>8. /\ w \in ObjectType /\ Coherent(w) /\ Keeps(v, w)
  BY <1>2, <1>5, <1>7, EmitKeeps
<1>9. \/ /\ w.turn = s.turn /\ w.stop = v.stop /\ v.turn = s.turn
         /\ w.queue = Append(v.queue, ended)
         /\ u.turn = s.turn /\ t.turn = s.turn /\ u.stop = t.stop
      \/ w.queue = v.queue /\ w.turn = 0
  <2>1. CASE v.generation # g
    <3>1. w = v
      BY <2>1 DEF Emit
    <3> QED BY <1>3, <1>4, <1>5, <2>1, <3>1 DEF Cancelled, Keeps
  <2>2. CASE v.generation = g
    <3>1. v.turn = s.turn /\ t.turn = s.turn /\ u.turn = s.turn /\ u.stop = t.stop
      BY <1>4, <1>5, <2>2
    <3>2. ~v.shut
      BY <1>3, <1>4, <1>5 DEF Cancelled, Keeps
    <3> QED BY <1>2, <1>5, <1>7, <2>2, <3>1, <3>2, EmitOnTurn
  <2> QED BY <2>1, <2>2
<1> HIDE DEF w
<1>10. /\ r \in ObjectType /\ r.turn = 0 /\ r.stage = w.stage /\ r.id = w.id
       /\ r.queue = w.queue /\ r.stop = w.stop /\ r.pending = w.pending
       /\ r.unanswered = w.unanswered /\ r.stopping = w.stopping /\ r.shut = w.shut
       /\ r.overflowed = w.overflowed /\ r.terminalEmitted = w.terminalEmitted
  BY <1>8 DEF ObjectType
<1> HIDE DEF r
<1>11. Held(r) = Held(w)
  BY <1>10 DEF Held
<1>12. r.pending = <<>> /\ r.terminalEmitted
  BY <1>3, <1>4, <1>5, <1>8, <1>10 DEF Cancelled, Keeps
<1>13. Coherent(r)
  BY <1>8, <1>10, <1>11, <1>12 DEF Coherent
<1>14. PICK n \in 0 .. Len(s.pending) :
        /\ t.queue = s.queue \o Expiries(SubSeq(s.pending, 1, n))
        /\ Held(t) = Held(s) \/ n = Len(s.pending)
        /\ \/ /\ t.turn = s.turn /\ t.stop = s.stop /\ n = Len(s.pending)
              /\ t.generation = s.generation
           \/ t.turn = 0 /\ t.generation # s.generation
  BY <1>3 DEF Cancelled
<1>15. PICK mid \in {<<>>, <<update>>} : u.queue = t.queue \o mid
  <2>1. t.queue \in Seq(Events)
    BY <1>3 DEF Cancelled, ObjectType
  <2>2. t.queue \o <<>> = t.queue /\ t.queue \o <<update>> = Append(t.queue, update)
    BY <1>2, <2>1
  <2> QED BY <1>4, <2>2
<1> DEFINE told == (s.queue \o Expiries(SubSeq(s.pending, 1, n))) \o mid
<1>16. u.queue = told /\ mid \in Maybe(Event("update", s.turn))
  BY <1>14, <1>15 DEF update, Maybe
<1>17. Held(r) = Held(t) /\ Held(t) \subseteq Held(s)
  BY <1>3, <1>4, <1>6, <1>8, <1>11 DEF Keeps, Cancelled
<1>18. r.stage = s.stage /\ r.id = s.id /\ r.shut = s.shut
  BY <1>3, <1>4, <1>5, <1>8, <1>10 DEF Keeps, Cancelled
<1>19. \/ r.queue = told /\ OnTurn(r) = OnTurn(s)
       \/ r.queue = Append(told, ended) /\ OnTurn(r) = 0 /\ n = Len(s.pending)
  <2>1. CASE w.queue = v.queue /\ w.turn = 0
    <3>1. OnTurn(r) = OnTurn(w)
      BY <1>10, <2>1 DEF OnTurn
    <3>2. OnTurn(w) = OnTurn(s)
      BY <1>3, <1>4, <1>6, <1>8 DEF Keeps, Cancelled
    <3> QED BY <1>5, <1>10, <1>16, <2>1, <3>1, <3>2
  <2>2. CASE /\ w.turn = s.turn /\ w.stop = v.stop /\ v.turn = s.turn
             /\ w.queue = Append(v.queue, ended)
             /\ u.turn = s.turn /\ t.turn = s.turn /\ u.stop = t.stop
    <3>1. s.stop.turn = 0
      BY DEF Coherent, NoStop
    <3>2. n = Len(s.pending) /\ t.stop = s.stop
      BY <1>14, <2>2
    <3>3. OnTurn(r) = 0
      BY <1>5, <1>10, <2>2, <3>1, <3>2 DEF OnTurn
    <3> QED BY <1>5, <1>10, <1>16, <2>2, <3>2, <3>3
  <2> QED BY <1>9, <2>1, <2>2
<1> HIDE DEF told
<1>20. Answers(s, r)
  <2>1. Held(r) = Held(s) \/ n = Len(s.pending)
    BY <1>14, <1>17
  <2> QED BY <1>10, <1>14, <1>16, <1>17, <1>18, <1>19, <2>1 DEF Answers, told, ended
<1> QED BY <1>1, <1>10, <1>13, <1>20

\* The events of #stopTurn: the expiries, then the end.
LEMMA StopEventsAre ==
    ASSUME NEW s \in ObjectType
    PROVE  /\ StopEvents(s) \in Seq(Events)
           /\ Len(StopEvents(s)) = Len(s.stop.expired) + 1
           /\ StopEvents(s) = Append(Expiries(s.stop.expired), Event("ended", s.stop.turn))
<1>1. s.stop.expired \in Seq(Nat) /\ s.stop.turn \in Nat
  BY DEF ObjectType, Stops
<1>2. /\ Expiries(s.stop.expired) \in Seq(Events)
      /\ Len(Expiries(s.stop.expired)) = Len(s.stop.expired)
  BY <1>1, ExpiriesAre
<1>3. Event("ended", s.stop.turn) \in Events
  BY <1>1, EventIsOne
<1> QED BY <1>2, <1>3 DEF StopEvents

\* What the end of #stopTurn makes of s.
LEMMA EndStopKeeps ==
    ASSUME NEW s \in ObjectType, Coherent(s), s.stop # NoStop
    PROVE  LET t == EndStop(s)
           IN  /\ t \in ObjectType /\ Coherent(t)
               /\ t.stage = "closed" /\ t.id = s.id /\ t.shut = s.shut
               /\ s.turn = 0 /\ OnTurn(t) = 0 /\ Held(t) = {}
               /\ LET kept == IF s.stop.replace THEN <<>> ELSE s.queue
                  IN  t.queue = IF s.shut THEN kept ELSE kept \o StopEvents(s)
<1>1. s.stopping /\ s.turn = 0 /\ s.pending = <<>>
  BY DEF Coherent
<1> DEFINE kept == IF s.stop.replace THEN <<>> ELSE s.queue
<1>2. kept \in Seq(Events) /\ kept \o StopEvents(s) \in Seq(Events)
  <2>1. kept \in Seq(Events)
    BY EmptySeq DEF ObjectType
  <2> QED BY <2>1, StopEventsAre, ConcatProperties
<1>3. PICK q \in Seq(Events) : q = IF s.shut THEN kept ELSE kept \o StopEvents(s)
  BY <1>2
<1> DEFINE t == [s EXCEPT !.stage = "closed", !.prompts = {}, !.generation = 0, !.count = 0,
                    !.stop = NoStop, !.unanswered = {}, !.eviction = TRUE, !.queue = q]
<1>4. EndStop(s) = t
  BY <1>3 DEF EndStop, Hangup, ObjectType
<1>5. NoStop \in Stops
  BY EmptyIsSeq DEF NoStop, Stops
<1>6. t \in ObjectType
  BY <1>3, <1>5, ZenonT(40) DEF ObjectType, Stage
<1>7. /\ t.stage = "closed" /\ t.id = s.id /\ t.shut = s.shut /\ t.turn = 0
      /\ t.stop = NoStop /\ t.pending = <<>> /\ t.queue = q /\ t.unanswered = {}
      /\ t.prompts = {}
  BY <1>1 DEF ObjectType
<1> HIDE DEF t
<1>8. Held(t) = {} /\ OnTurn(t) = 0
  BY <1>7 DEF Held, OnTurn, NoStop, Contains
<1>9. Coherent(t)
  BY <1>7 DEF Coherent
<1> QED BY <1>1, <1>3, <1>4, <1>6, <1>7, <1>8, <1>9

\* Closing the connection and the queue of an object with no pending request.
Shut(s) == [Hangup(s) EXCEPT !.eviction = FALSE, !.shut = TRUE]

\* A session that is shut keeps the turn and the queue it had.
LEMMA ShutKeeps ==
    ASSUME NEW s \in ObjectType, Coherent(s), s.pending = <<>>
    PROVE  LET t == Shut(s)
           IN  /\ t \in ObjectType /\ Coherent(t)
               /\ t.stage = "closed" /\ t.id = s.id /\ t.shut /\ t.turn = s.turn
               /\ t.stop = s.stop /\ Held(t) = Held(s) /\ t.queue = s.queue
<1> DEFINE t == [s EXCEPT !.stage = "closed", !.prompts = {}, !.generation = 0, !.count = 0,
                    !.eviction = FALSE, !.shut = TRUE]
<1>1. Shut(s) = t
  BY DEF Shut, Hangup, ObjectType
<1>2. t \in ObjectType
  BY DEF ObjectType, Stage
<1>3. /\ t.stage = "closed" /\ t.id = s.id /\ t.shut /\ t.turn = s.turn
      /\ t.stop = s.stop /\ t.pending = s.pending /\ t.queue = s.queue
      /\ t.unanswered = s.unanswered /\ t.stopping = s.stopping
      /\ t.overflowed = s.overflowed /\ t.prompts = {} /\ ~t.eviction
  BY DEF ObjectType
<1> HIDE DEF t
<1>4. Held(t) = Held(s)
  BY <1>3 DEF Held
<1>5. Coherent(t)
  BY <1>3, <1>4 DEF Coherent
<1> QED BY <1>1, <1>2, <1>3, <1>4, <1>5

\* The other permissions stay pending when one is resolved.
LEMMA RemoveAtKeeps ==
    ASSUME NEW q \in Seq(Nat), NEW n \in 1 .. Len(q)
    PROVE  LET r == RemoveAt(q, n)
           IN  /\ r \in Seq(Nat)
               /\ \A a : Contains(r, a) => Contains(q, a)
               /\ \A a : Contains(q, a) /\ a # q[n] => Contains(r, a)
<1> DEFINE first == SubSeq(q, 1, n - 1)
           rest == SubSeq(q, n + 1, Len(q))
<1>1. Len(q) \in Nat /\ n \in Nat /\ \A k \in 1 .. Len(q) : q[k] \in Nat
  BY ElementOfSeq
<1>2. /\ first \in Seq(Nat) /\ Len(first) = n - 1
      /\ \A k \in 1 .. n - 1 : first[k] = q[k]
  BY <1>1, SubSeqProperties
<1>3. /\ rest \in Seq(Nat) /\ Len(rest) = Len(q) - n
      /\ \A k \in 1 .. Len(q) - n : rest[k] = q[n + k]
  <2>1. \A k \in (n + 1) .. Len(q) : q[k] \in Nat
    BY <1>1
  <2>2. /\ rest \in Seq(Nat)
        /\ Len(rest) = IF n + 1 <= Len(q) THEN Len(q) - (n + 1) + 1 ELSE 0
        /\ \A k \in 1 .. Len(q) - (n + 1) + 1 : rest[k] = q[(n + 1) + k - 1]
    BY <1>1, <2>1, SubSeqProperties
  <2> QED BY <1>1, <2>2
<1>4. RemoveAt(q, n) = first \o rest
  BY DEF RemoveAt
<1> HIDE DEF first, rest
<1> DEFINE r == first \o rest
<1>5. /\ r \in Seq(Nat) /\ Len(r) = Len(q) - 1
      /\ \A k \in 1 .. Len(q) - 1 : r[k] = IF k <= n - 1 THEN first[k] ELSE rest[k - (n - 1)]
  <2>1. /\ r \in Seq(Nat) /\ Len(r) = Len(first) + Len(rest)
        /\ \A k \in 1 .. Len(first) + Len(rest) :
              r[k] = IF k <= Len(first) THEN first[k] ELSE rest[k - Len(first)]
    BY <1>2, <1>3, ConcatProperties
  <2>2. Len(first) + Len(rest) = Len(q) - 1
    BY <1>1, <1>2, <1>3
  <2> HIDE DEF r
  <2> QED BY <1>2, <2>1, <2>2
<1> HIDE DEF r
<1>6. \A k \in 1 .. Len(q) - 1 : r[k] = IF k <= n - 1 THEN q[k] ELSE q[k + 1]
  <2> SUFFICES ASSUME NEW k \in 1 .. Len(q) - 1
               PROVE  r[k] = IF k <= n - 1 THEN q[k] ELSE q[k + 1]
    OBVIOUS
  <2>1. CASE k <= n - 1
    BY <1>1, <1>2, <1>5, <2>1
  <2>2. CASE k > n - 1
    <3>1. k - (n - 1) \in 1 .. Len(q) - n /\ n + (k - (n - 1)) = k + 1
      BY <1>1, <2>2
    <3> QED BY <1>1, <1>3, <1>5, <2>2, <3>1
  <2> QED BY <1>1, <2>1, <2>2
<1>7. ASSUME NEW a, Contains(r, a)
      PROVE  Contains(q, a)
  <2>1. PICK k \in 1 .. Len(q) - 1 : r[k] = a
    BY <1>5, <1>7 DEF Contains
  <2> QED BY <1>1, <1>6, <2>1, SMTT(30) DEF Contains
<1>8. ASSUME NEW a, Contains(q, a), a # q[n]
      PROVE  Contains(r, a)
  <2>1. PICK k \in 1 .. Len(q) : q[k] = a
    BY <1>8 DEF Contains
  <2>2. k # n
    BY <1>8, <2>1
  <2>3. CASE k < n
    <3>1. k \in 1 .. Len(q) - 1 /\ k <= n - 1
      BY <1>1, <2>3
    <3>2. r[k] = a
      BY <1>6, <2>1, <3>1
    <3> QED BY <1>5, <3>1, <3>2 DEF Contains
  <2>4. CASE k > n
    <3>1. k - 1 \in 1 .. Len(q) - 1 /\ ~(k - 1 <= n - 1) /\ (k - 1) + 1 = k
      BY <1>1, <2>4
    <3>2. r[k - 1] = a
      BY <1>6, <2>1, <3>1
    <3> QED BY <1>5, <3>1, <3>2 DEF Contains
  <2> QED BY <1>1, <2>2, <2>3, <2>4
<1> QED BY <1>4, <1>5, <1>7, <1>8 DEF r

\* The user decides on the permission at position n.
Resolved(s, n) == [s EXCEPT !.pending = RemoveAt(@, n), !.unanswered = @ \ {s.pending[n]}]

\* A permission that is resolved is no longer held, and the others still are.
LEMMA ResolvedKeeps ==
    ASSUME NEW s \in ObjectType, Coherent(s), NEW n \in 1 .. Len(s.pending),
           NEW a, a = s.pending[n]
    PROVE  LET t == Resolved(s, n)
           IN  /\ t \in ObjectType /\ Coherent(t)
               /\ t.stage = s.stage /\ t.id = s.id /\ t.shut = s.shut /\ t.turn = s.turn
               /\ t.stop = s.stop /\ t.queue = s.queue
               /\ Held(t) \subseteq Held(s) /\ Held(s) \ {a} \subseteq Held(t)
<1>1. PICK r \in Seq(Nat) :
        /\ r = RemoveAt(s.pending, n)
        /\ \A b : Contains(r, b) => Contains(s.pending, b)
        /\ \A b : Contains(s.pending, b) /\ b # a => Contains(r, b)
  <2>1. s.pending \in Seq(Nat)
    BY DEF ObjectType
  <2> QED BY <2>1, RemoveAtKeeps
<1>2. PICK left \in SUBSET Nat : left = s.unanswered \ {a}
  <2>1. s.unanswered \ {a} \in SUBSET Nat
    BY DEF ObjectType
  <2> QED BY <2>1
<1> DEFINE t == [s EXCEPT !.pending = r, !.unanswered = left]
<1>3. Resolved(s, n) = t
  BY <1>1, <1>2 DEF Resolved
<1>4. t \in ObjectType
  BY DEF ObjectType
<1>5. /\ t.stage = s.stage /\ t.id = s.id /\ t.shut = s.shut /\ t.turn = s.turn
      /\ t.stop = s.stop /\ t.queue = s.queue /\ t.pending = r /\ t.unanswered = left
      /\ t.stopping = s.stopping /\ t.overflowed = s.overflowed
      /\ t.terminalEmitted = s.terminalEmitted /\ t.prompts = s.prompts
      /\ t.eviction = s.eviction
  BY DEF ObjectType
<1> HIDE DEF t
<1>6. Held(t) \subseteq Held(s) /\ Held(s) \ {a} \subseteq Held(t)
  BY <1>1, <1>5 DEF Held
<1>7. s.pending # <<>>
  OBVIOUS
<1>8. Coherent(t)
  BY <1>2, <1>5, <1>6, <1>7 DEF Coherent
<1> QED BY <1>3, <1>4, <1>5, <1>6, <1>8
-----------------------------------------------------------------------------
(***************************************************************************)
(* What a loop hears.                                                      *)
(***************************************************************************)
\* The record of a loop after each kind of event.
LEMMA HearsIs ==
    ASSUME NEW h \in HeardType, NEW e \in Events
    PROVE  LET k == Hears(h, e)
           IN  /\ k \in HeardType /\ k.sound = h.sound
               /\ e.type \in {"started", "update"} =>
                    k.current = e.of /\ k.last = e.of /\ k.asking = h.asking
               /\ e.type = "asked" =>
                    /\ k.current = h.current /\ k.last = h.last
                    /\ k.asking = h.asking \cup {e.of}
               /\ e.type = "expired" =>
                    /\ k.current = h.current /\ k.last = h.last
                    /\ k.asking = h.asking \ {e.of}
               /\ e.type = "ended" => k.current = 0 /\ k.last = e.of /\ k.asking = h.asking
<1>1. e.type \in {"started", "update", "asked", "expired", "ended"} /\ e.of \in Nat
  BY DEF Events
<1>2. CASE e.type \in {"started", "update"}
  BY <1>1, <1>2 DEF Hears, HeardType
<1>3. CASE e.type = "asked"
  BY <1>1, <1>3 DEF Hears, HeardType
<1>4. CASE e.type = "expired"
  BY <1>1, <1>4 DEF Hears, HeardType
<1>5. CASE e.type = "ended"
  BY <1>1, <1>5 DEF Hears, HeardType
<1> QED BY <1>1, <1>2, <1>3, <1>4, <1>5

\* The next event of a queue that can be heard makes a step of the stream.
LEMMA HearsInOrder ==
    ASSUME NEW h \in HeardType, NEW q \in Seq(Events), q # <<>>, Hearable(h, q)
    PROVE  LET k == Hears(h, Head(q))
           IN  /\ Hearable(k, Tail(q))
               /\ \/ /\ h.current = 0 /\ k.current > h.last /\ k.last = k.current
                     /\ k.current = Head(q).of /\ k.asking = h.asking
                  \/ /\ k.current = h.current /\ k.last = h.last /\ k.asking = h.asking
                  \/ /\ h.current # 0 /\ k.asking = h.asking \cup {Head(q).of}
                     /\ k.current = h.current /\ k.last = h.last /\ Head(q).type = "asked"
                  \/ /\ k.asking = h.asking \ {Head(q).of} /\ Head(q).type = "expired"
                     /\ k.current = h.current /\ k.last = h.last
                  \/ /\ h.current # 0 /\ h.asking = {} /\ k.current = 0
                     /\ k.last = h.last /\ k.asking = h.asking
<1> DEFINE e == Head(q)
           r == Tail(q)
           k == Hears(h, e)
<1>1. /\ e \in Events /\ e = q[1] /\ Len(q) \in Nat /\ Len(q) >= 1
      /\ r \in Seq(Events) /\ Len(r) = Len(q) - 1
      /\ \A n \in 1 .. Len(r) : r[n] = q[n + 1]
  BY HeadTailProperties
<1> HIDE DEF e, r
<1>2. /\ k \in HeardType /\ k.sound = h.sound
      /\ e.type \in {"started", "update"} =>
           k.current = e.of /\ k.last = e.of /\ k.asking = h.asking
      /\ e.type = "asked" =>
           k.current = h.current /\ k.last = h.last /\ k.asking = h.asking \cup {e.of}
      /\ e.type = "expired" =>
           k.current = h.current /\ k.last = h.last /\ k.asking = h.asking \ {e.of}
      /\ e.type = "ended" => k.current = 0 /\ k.last = e.of /\ k.asking = h.asking
  BY <1>1, HearsIs
<1> HIDE DEF k
<1>3. Hears1(h, q, 1) /\ (h.current # 0 => h.last = h.current)
  BY <1>1 DEF Hearable
<1>4. e.type \in {"started", "update", "asked", "expired", "ended"}
  BY <1>1 DEF Events
<1>5. CASE e.type \in {"started", "asked", "ended"}
  <2>1. Len(q) = 1
    BY <1>1, <1>3, <1>5 DEF Hears1
  <2>2. Hearable(k, r)
    BY <1>1, <1>2, <1>3, <1>5, <2>1 DEF Hearable
  <2>3. e.type = "ended" => h.asking = {}
    <3>1. \A a : ~Expires(q, 1, a)
      BY <1>1 DEF Expires
    <3> QED BY <1>1, <1>3, <3>1 DEF Hears1
  <2> QED BY <1>1, <1>2, <1>3, <1>5, <2>2, <2>3 DEF Hears1, e, r, k
<1>6. CASE e.type = "update"
  <2>1. k.current = h.current /\ k.last = h.last /\ k.asking = h.asking /\ h.current # 0
    BY <1>1, <1>2, <1>3, <1>6 DEF Hears1
  <2>2. ASSUME NEW n \in 1 .. Len(r)
        PROVE  Hears1(k, r, n)
    <3>1. Hears1(h, q, n + 1) /\ r[n] = q[n + 1] /\ n + 1 \in 1 .. Len(q)
      BY <1>1 DEF Hearable
    <3>2. \A a : Expires(q, n + 1, a) => Expires(r, n, a)
      <4> SUFFICES ASSUME NEW a, NEW m \in 1 .. Len(q), m < n + 1, q[m] = Event("expired", a)
                   PROVE  Expires(r, n, a)
        BY DEF Expires
      <4>1. m # 1
        BY <1>1, <1>6 DEF Event
      <4>2. m - 1 \in 1 .. Len(r) /\ m - 1 < n /\ (m - 1) + 1 = m
        BY <1>1, <4>1
      <4>3. r[m - 1] = Event("expired", a)
        BY <1>1, <4>2
      <4> QED BY <4>2, <4>3 DEF Expires
    <3> QED BY <1>1, <2>1, <3>1, <3>2 DEF Hears1
  <2>3. Hearable(k, r)
    BY <1>3, <2>1, <2>2 DEF Hearable
  <2> QED BY <2>1, <2>3 DEF e, r, k
<1>7. CASE e.type = "expired"
  <2>1. k.current = h.current /\ k.last = h.last /\ k.asking = h.asking \ {e.of}
    BY <1>2, <1>7
  <2>2. ASSUME NEW n \in 1 .. Len(r)
        PROVE  Hears1(k, r, n)
    <3>1. Hears1(h, q, n + 1) /\ r[n] = q[n + 1] /\ n + 1 \in 1 .. Len(q)
      BY <1>1 DEF Hearable
    <3>2. \A a \in k.asking : Expires(q, n + 1, a) => Expires(r, n, a)
      <4> SUFFICES ASSUME NEW a \in k.asking,
                          NEW m \in 1 .. Len(q), m < n + 1, q[m] = Event("expired", a)
                   PROVE  Expires(r, n, a)
        BY DEF Expires
      <4>1. m # 1
        BY <1>1, <2>1 DEF Event
      <4>2. m - 1 \in 1 .. Len(r) /\ m - 1 < n /\ (m - 1) + 1 = m
        BY <1>1, <4>1
      <4>3. r[m - 1] = Event("expired", a)
        BY <1>1, <4>2
      <4> QED BY <4>2, <4>3 DEF Expires
    <3> QED BY <1>1, <2>1, <3>1, <3>2 DEF Hears1
  <2>3. Hearable(k, r)
    BY <1>3, <2>1, <2>2 DEF Hearable
  <2> QED BY <1>7, <2>1, <2>3 DEF e, r, k
<1> QED BY <1>4, <1>5, <1>6, <1>7

\* Once an event is heard, the loop knows the turn of what is left of the queue.
LEMMA LinkedAfter ==
    ASSUME NEW h \in HeardType, NEW s \in ObjectType, NEW t \in ObjectType,
           s.queue # <<>>, Hearable(h, s.queue), Linked(h, s),
           t.queue = Tail(s.queue), Held(t) = Held(s), OnTurn(t) = OnTurn(s)
    PROVE  /\ Linked(Hears(h, Head(s.queue)), t)
           /\ Head(s.queue).type = "ended" => Idle(t)
<1> DEFINE q == s.queue
           e == Head(q)
           r == Tail(q)
           k == Hears(h, e)
<1>1. q \in Seq(Events) /\ q # <<>>
  BY DEF ObjectType
<1>2. /\ e \in Events /\ e = q[1] /\ Len(q) \in Nat /\ Len(q) >= 1
      /\ r \in Seq(Events) /\ Len(r) = Len(q) - 1
      /\ \A n \in 1 .. Len(r) : r[n] = q[n + 1]
  <2> HIDE DEF q
  <2> QED BY <1>1, HeadTailProperties
<1>3. Linked(h, s) /\ Hearable(h, q) /\ s.queue = q /\ t.queue = r
  OBVIOUS
<1> HIDE DEF e, r, q
<1>4. /\ e.type \in {"started", "update"} =>
           k.current = e.of /\ k.last = e.of /\ k.asking = h.asking
      /\ e.type = "asked" =>
           k.current = h.current /\ k.last = h.last /\ k.asking = h.asking \cup {e.of}
      /\ e.type = "expired" =>
           k.current = h.current /\ k.last = h.last /\ k.asking = h.asking \ {e.of}
      /\ e.type = "ended" => k.current = 0 /\ k.last = e.of /\ k.asking = h.asking
  BY <1>2, HearsIs
<1> HIDE DEF k
<1>5. Hears1(h, q, 1)
  BY <1>2, <1>3 DEF Hearable
<1>6. e.type \in {"started", "update", "asked", "expired", "ended"}
  BY <1>2 DEF Events
<1>7. e.type = "ended" => Len(q) = 1 /\ h.asking = {} /\ h.current # 0
  <2>1. \A a : ~Expires(q, 1, a)
    BY <1>2 DEF Expires
  <2> QED BY <1>2, <1>5, <2>1 DEF Hears1
<1>8. e.type = "ended" => OnTurn(s) = 0
  <2> SUFFICES ASSUME e.type = "ended", OnTurn(s) # 0
               PROVE  FALSE
    OBVIOUS
  <2>1. Ends(q)
    BY <1>1, <1>2, <1>7 DEF Ends
  <2>2. h.current # 0
    BY <1>7
  <2> QED BY <1>3, <2>1, <2>2 DEF Linked
<1>9. Len(r) = 0 => r = <<>>
  BY <1>2, EmptySeq
<1>10. Ends(q) /\ e.type # "ended" => Ends(r)
  <2> SUFFICES ASSUME Ends(q), e.type # "ended"
               PROVE  Ends(r)
    OBVIOUS
  <2>1. Len(q) # 1
    BY <1>2 DEF Ends
  <2>2. Len(r) \in 1 .. Len(r) /\ Len(r) + 1 = Len(q)
    BY <1>2, <2>1
  <2>3. r[Len(r)] = q[Len(q)]
    BY <1>2, <2>2
  <2> QED BY <1>2, <2>2, <2>3 DEF Ends
<1>11. Ends(r) => Ends(q)
  <2> SUFFICES ASSUME Ends(r)
               PROVE  Ends(q)
    OBVIOUS
  <2>1. Len(r) # 0
    BY <1>9 DEF Ends
  <2>2. Len(r) \in 1 .. Len(r) /\ Len(r) + 1 = Len(q)
    BY <1>2, <2>1
  <2>3. r[Len(r)] = q[Len(q)]
    BY <1>2, <2>2
  <2> QED BY <1>1, <2>3 DEF Ends
<1>12. /\ IF OnTurn(t) = 0
          THEN Ends(r) \/ (r = <<>> /\ k.current = 0 /\ k.asking = {})
          ELSE \/ r = <<Event("started", OnTurn(t))>> /\ k.current = 0 /\ k.asking = {}
               \/ k.current = OnTurn(t) /\ ~Ends(r)
  <2>1. CASE OnTurn(s) = 0
    <3>1. Ends(q)
      BY <1>1, <1>3, <2>1 DEF Linked
    <3>2. CASE e.type = "ended"
      BY <1>2, <1>4, <1>7, <1>9, <2>1, <3>2
    <3>3. CASE e.type # "ended"
      BY <1>10, <2>1, <3>1, <3>3
    <3> QED BY <3>2, <3>3
  <2>2. CASE OnTurn(s) # 0
    <3>1. e.type # "ended"
      BY <1>8, <2>2
    <3>2. CASE q = <<Event("started", OnTurn(s))>>
      <4>1. e.type = "started" /\ e.of = OnTurn(s) /\ Len(q) = 1
        BY <1>2, <3>2 DEF Event
      <4>2. r = <<>>
        BY <1>2, <1>9, <4>1
      <4>3. ~Ends(r)
        BY <4>2 DEF Ends
      <4> QED BY <1>4, <2>2, <4>1, <4>3
    <3>3. CASE q # <<Event("started", OnTurn(s))>>
      <4>1. h.current = OnTurn(s) /\ ~Ends(q)
        BY <1>3, <2>2, <3>3 DEF Linked
      <4>2. k.current = h.current
        BY <1>2, <1>4, <1>5, <1>6, <2>2, <3>1, <4>1 DEF Hears1
      <4> QED BY <1>11, <2>2, <4>1, <4>2
    <3> QED BY <3>2, <3>3
  <2> QED BY <2>1, <2>2
<1>13. ASSUME NEW a \in k.asking
       PROVE  a \in Held(t) \/ Expires(r, Len(r) + 1, a)
  <2>1. CASE a \in h.asking
    <3>1. CASE a \in Held(s)
      BY <3>1
    <3>2. CASE Expires(q, Len(q) + 1, a)
      <4>1. PICK m \in 1 .. Len(q) : q[m] = Event("expired", a)
        BY <3>2 DEF Expires
      <4>2. m # 1
        BY <1>2, <1>4, <1>13, <4>1 DEF Event
      <4>3. m - 1 \in 1 .. Len(r) /\ m - 1 < Len(r) + 1 /\ (m - 1) + 1 = m
        BY <1>2, <4>2
      <4>4. r[m - 1] = Event("expired", a)
        BY <1>2, <4>1, <4>3
      <4> QED BY <4>3, <4>4 DEF Expires
    <3> QED BY <1>3, <2>1, <3>1, <3>2 DEF Linked
  <2>2. CASE a \notin h.asking
    <3>1. e.type = "asked" /\ a = e.of
      BY <1>4, <1>6, <1>13, <2>2
    <3>2. e.of \in Held(s)
      BY <1>2, <1>3, <3>1 DEF Linked
    <3> QED BY <3>1, <3>2
  <2> QED BY <2>1, <2>2
<1>14. ASSUME NEW n \in 1 .. Len(r), r[n].type = "asked"
       PROVE  r[n].of \in Held(t)
  <2>1. n + 1 \in 1 .. Len(q) /\ r[n] = q[n + 1]
    BY <1>2
  <2> QED BY <1>3, <1>14, <2>1 DEF Linked
<1>15. Linked(k, t)
  BY <1>3, <1>12, <1>13, <1>14 DEF Linked
<1>16. e.type = "ended" => Idle(t)
  BY <1>2, <1>3, <1>7, <1>8, <1>9 DEF Idle
<1> QED BY <1>15, <1>16 DEF e, k, q

\* Hearing an event keeps the names and what the loop knows.
LEMMA PersistTracks ==
    ASSUME NEW turn \in Nat, NEW ask \in Nat, NEW h \in HeardType,
           NEW s \in ObjectType, NEW t \in ObjectType,
           Tracks(h, s, turn, ask), s.queue # <<>>, t.queue = Tail(s.queue),
           t.turn = s.turn, t.stop = s.stop, t.pending = s.pending, t.shut = s.shut
    PROVE  LET k == IF h.sound THEN Hears(h, Head(s.queue)) ELSE h
           IN  /\ k \in HeardType /\ k.sound = h.sound /\ Tracks(k, t, turn, ask)
               /\ h.sound /\ Head(s.queue).type = "ended" => s.shut \/ Idle(t)
<1> DEFINE q == s.queue
           e == Head(q)
           k == IF h.sound THEN Hears(h, e) ELSE h
<1>1. /\ e \in Events /\ e = q[1] /\ Len(q) \in Nat /\ Len(q) >= 1
      /\ Tail(q) \in Seq(Events) /\ Len(Tail(q)) = Len(q) - 1
      /\ \A n \in 1 .. Len(Tail(q)) : Tail(q)[n] = q[n + 1]
  <2>1. q \in Seq(Events) /\ q # <<>>
    BY DEF ObjectType
  <2> HIDE DEF q
  <2> QED BY <2>1, HeadTailProperties
<1>2. Held(t) = Held(s) /\ OnTurn(t) = OnTurn(s)
  BY DEF Held, OnTurn
<1>3. k \in HeardType /\ k.sound = h.sound
  <2>1. CASE h.sound
    BY <1>1, <2>1, HearsIs
  <2>2. CASE ~h.sound
    BY <2>2
  <2> QED BY <2>1, <2>2
<1>4. NamedEvent(e, turn, ask)
  BY <1>1 DEF Tracks, Names, AllNamed
<1>5. k.last <= turn /\ k.current <= turn /\ k.asking \subseteq 1 .. ask
  <2>1. h.last <= turn /\ h.current <= turn /\ h.asking \subseteq 1 .. ask
    BY DEF Tracks, Names
  <2>2. CASE ~h.sound
    BY <2>1, <2>2
  <2>3. CASE h.sound
    <3>1. k = Hears(h, e)
      BY <2>3
    <3> HIDE DEF k, e
    <3>2. e.type \in {"started", "update", "asked", "expired", "ended"} /\ turn \in Nat
      BY <1>1 DEF Events
    <3>3. /\ e.type \in {"started", "update"} =>
               k.current = e.of /\ k.last = e.of /\ k.asking = h.asking
          /\ e.type = "asked" =>
               k.current = h.current /\ k.last = h.last /\ k.asking = h.asking \cup {e.of}
          /\ e.type = "expired" =>
               k.current = h.current /\ k.last = h.last /\ k.asking = h.asking \ {e.of}
          /\ e.type = "ended" => k.current = 0 /\ k.last = e.of /\ k.asking = h.asking
      BY <1>1, <3>1, HearsIs
    <3>4. 0 <= turn
      BY <3>2
    <3>5. CASE e.type \in {"started", "update"}
      BY <1>4, <2>1, <3>3, <3>5 DEF NamedEvent
    <3>6. CASE e.type = "asked"
      BY <1>4, <2>1, <3>3, <3>6 DEF NamedEvent
    <3>7. CASE e.type = "expired"
      BY <2>1, <3>3, <3>7
    <3>8. CASE e.type = "ended"
      BY <1>4, <2>1, <3>3, <3>4, <3>8 DEF NamedEvent
    <3> QED BY <3>2, <3>5, <3>6, <3>7, <3>8
  <2> QED BY <2>2, <2>3
<1>6. \A n \in 1 .. Len(Tail(q)) : NamedEvent(Tail(q)[n], turn, ask)
  <2> TAKE n \in 1 .. Len(Tail(q))
  <2>1. n + 1 \in 1 .. Len(q)
    BY <1>1
  <2> QED BY <1>1, <2>1 DEF Tracks, Names, AllNamed
<1>7. Names(k, t, turn, ask)
  BY <1>2, <1>5, <1>6 DEF Tracks, Names, AllNamed
<1>8. ASSUME h.sound
      PROVE  /\ Hearable(k, t.queue) /\ (t.shut \/ Linked(k, t))
             /\ e.type = "ended" => s.shut \/ Idle(t)
  <2>1. Hearable(h, q) /\ (s.shut \/ Linked(h, s)) /\ k = Hears(h, e)
    BY <1>8 DEF Tracks
  <2>2. Hearable(k, t.queue)
    BY <2>1, HearsInOrder DEF ObjectType
  <2>3. ASSUME ~s.shut
        PROVE  Linked(k, t) /\ (e.type = "ended" => Idle(t))
    BY <1>2, <2>1, <2>3, LinkedAfter
  <2> QED BY <2>2, <2>3
<1>9. Tracks(k, t, turn, ask)
  BY <1>3, <1>7, <1>8 DEF Tracks
<1> QED BY <1>3, <1>8, <1>9
-----------------------------------------------------------------------------
(***************************************************************************)
(* What a step of the runtime adds to the queue.                           *)
(***************************************************************************)

\* Two queues with known names make one.
LEMMA NamedConcat ==
    ASSUME NEW turn \in Nat, NEW ask \in Nat,
           NEW q \in Seq(Events), AllNamed(q, turn, ask),
           NEW r \in Seq(Events), AllNamed(r, turn, ask)
    PROVE  AllNamed(q \o r, turn, ask) /\ q \o r \in Seq(Events) /\ Len(q \o r) = Len(q) + Len(r)
<1>1. /\ q \o r \in Seq(Events) /\ Len(q \o r) = Len(q) + Len(r)
      /\ \A n \in 1 .. Len(q) + Len(r) : (q \o r)[n] = IF n <= Len(q) THEN q[n] ELSE r[n - Len(q)]
  BY ConcatProperties
<1>2. Len(q) \in Nat /\ Len(r) \in Nat
  OBVIOUS
<1>3. ASSUME NEW n \in 1 .. Len(q) + Len(r)
      PROVE  NamedEvent((q \o r)[n], turn, ask)
  <2>1. CASE n <= Len(q)
    <3>1. n \in 1 .. Len(q) /\ (q \o r)[n] = q[n]
      BY <1>1, <1>2, <2>1
    <3> QED BY <3>1 DEF AllNamed
  <2>2. CASE ~(n <= Len(q))
    <3>1. n - Len(q) \in 1 .. Len(r) /\ (q \o r)[n] = r[n - Len(q)]
      BY <1>1, <1>2, <2>2
    <3> QED BY <3>1 DEF AllNamed
  <2> QED BY <2>1, <2>2
<1> QED BY <1>1, <1>3 DEF AllNamed

\* No permission is held when no turn is on.
LEMMA NoneHeld ==
    ASSUME NEW s \in ObjectType, Coherent(s), OnTurn(s) = 0
    PROVE  Held(s) = {}
<1>1. s.pending = <<>> /\ s.stop = NoStop
  BY DEF Coherent, OnTurn
<1> QED BY <1>1 DEF Held, NoStop, Contains

\* A step that leaves the queue, the turn and the permissions alone.
LEMMA SameTracks ==
    ASSUME NEW turn, NEW ask, NEW h, NEW s, NEW t, Tracks(h, s, turn, ask),
           t.queue = s.queue, t.shut = s.shut, OnTurn(t) = OnTurn(s), Held(t) = Held(s)
    PROVE  Tracks(h, t, turn, ask)
BY DEF Tracks, Names, Linked

\* A step that shuts the queue.
LEMMA ShutTracks ==
    ASSUME NEW turn, NEW ask, NEW h, NEW s, NEW t, Tracks(h, s, turn, ask),
           t.queue = s.queue, t.shut, OnTurn(t) = OnTurn(s), Held(t) \subseteq Held(s)
    PROVE  Tracks(h, t, turn, ask)
BY DEF Tracks, Names

\* The events x are about the turn of s, which either goes on, or ends with the
\* last of them; the permissions t does not hold expire.
Continues(s, t, x) ==
    /\ \A n \in 1 .. Len(x) :
        \/ x[n].type = "expired"
        \/ x[n] = Event("update", OnTurn(s))
        \/ n = Len(x) /\ x[n] = Event("ended", OnTurn(s)) /\ OnTurn(t) = 0
    /\ (OnTurn(t) = OnTurn(s) /\ ~Ends(x)) \/ (OnTurn(t) = 0 /\ Ends(x))
    /\ \A a \in Held(s) : a \in Held(t) \/ Expires(x, Len(x) + 1, a)

\* A loop that has heard its queue tracks a turn that goes on.
LEMMA ContinuesTracks ==
    ASSUME NEW h \in HeardType, NEW s \in ObjectType, NEW t \in ObjectType,
           NEW x \in Seq(Events), Hearable(h, s.queue), Linked(h, s), s.queue = <<>>,
           OnTurn(s) # 0, Coherent(t), Continues(s, t, x), t.queue = x
    PROVE  Hearable(h, t.queue) /\ Linked(h, t) /\ h.asking \subseteq Held(s)
<1>1. \A a : ~Expires(s.queue, Len(s.queue) + 1, a)
  BY DEF Expires
<1>2. h.asking \subseteq Held(s)
  BY <1>1 DEF Linked
<1>3. h.current = OnTurn(s) /\ h.last = h.current
  <2>1. s.queue # <<Event("started", OnTurn(s))>>
    BY SMT
  <2>2. h.current = OnTurn(s)
    BY <2>1 DEF Linked
  <2> QED BY <2>2 DEF Hearable
<1>4. \A a \in h.asking : a \in Held(t) \/ Expires(x, Len(x) + 1, a)
  BY <1>2 DEF Continues
<1>5. Len(x) \in Nat
  OBVIOUS
<1>6. ASSUME NEW n \in 1 .. Len(x)
      PROVE  Hears1(h, x, n)
  <2>1. CASE x[n].type = "expired"
    BY <2>1 DEF Hears1
  <2>2. CASE x[n] = Event("update", OnTurn(s))
    BY <1>3, <2>2 DEF Hears1, Event
  <2>3. CASE n = Len(x) /\ x[n] = Event("ended", OnTurn(s)) /\ OnTurn(t) = 0
    <3>1. Held(t) = {}
      BY <2>3, NoneHeld
    <3>2. ASSUME NEW a \in h.asking
          PROVE  Expires(x, n, a)
      <4>1. PICK k \in 1 .. Len(x) : x[k] = Event("expired", a)
        BY <1>4, <3>1 DEF Expires
      <4>2. k # n
        BY <2>3, <4>1 DEF Event
      <4>3. k < n
        BY <1>5, <2>3, <4>2
      <4> QED BY <4>1, <4>3 DEF Expires
    <3>3. x[n].type = "ended" /\ x[n].of = OnTurn(s)
      BY <2>3 DEF Event
    <3> QED BY <1>3, <2>3, <3>2, <3>3 DEF Hears1
  <2> QED BY <2>1, <2>2, <2>3 DEF Continues
<1>7. Hearable(h, x)
  BY <1>3, <1>6 DEF Hearable
<1>8. \A n \in 1 .. Len(x) : x[n].type # "asked"
  BY DEF Continues, Event
<1>9. IF OnTurn(t) = 0 THEN Ends(x) ELSE h.current = OnTurn(t) /\ ~Ends(x)
  BY <1>3 DEF Continues
<1> QED BY <1>2, <1>4, <1>7, <1>8, <1>9 DEF Linked
\* A step that adds the events x to the queue of an object with a turn.
LEMMA AddedTracks ==
    ASSUME NEW turn \in Nat, NEW ask \in Nat, NEW h \in HeardType, NEW s \in ObjectType,
           NEW t \in ObjectType, NEW x \in Seq(Events), Tracks(h, s, turn, ask),
           h.sound => s.queue = <<>>, ~s.shut, OnTurn(s) # 0, Coherent(t),
           Held(t) \subseteq Held(s), AllNamed(x, turn, ask), Continues(s, t, x),
           t.queue = s.queue \o x
    PROVE  Tracks(h, t, turn, ask)
<1>1. s.queue \in Seq(Events)
  BY DEF ObjectType
<1>2. AllNamed(t.queue, turn, ask)
  BY <1>1, NamedConcat DEF Tracks, Names
<1>3. OnTurn(t) <= turn
  BY DEF Continues, Tracks, Names
<1>4. Names(h, t, turn, ask)
  BY <1>2, <1>3 DEF Tracks, Names
<1>5. ASSUME h.sound
      PROVE  Hearable(h, t.queue) /\ Linked(h, t)
  <2>1. s.queue = <<>> /\ t.queue = x
    BY <1>5, ConcatEmptySeq
  <2>2. Hearable(h, s.queue) /\ Linked(h, s)
    BY <1>5 DEF Tracks
  <2> QED BY <2>1, <2>2, ContinuesTracks
<1> QED BY <1>4, <1>5 DEF Tracks

\* The expiries of p and then, it may be, the event u.
LEMMA ExpiriesThen ==
    ASSUME NEW q \in Seq(Nat), NEW u \in Events, NEW mid \in Maybe(u)
    PROVE  LET x == Expiries(q) \o mid
           IN  /\ x \in Seq(Events) /\ Len(x) \in Len(q) .. Len(q) + 1
               /\ \A k \in 1 .. Len(q) : k \in 1 .. Len(x) /\ x[k] = Event("expired", q[k])
               /\ \A k \in 1 .. Len(x) : k > Len(q) => x[k] = u
               /\ mid \in Seq(Events)
<1> DEFINE ex == Expiries(q)
<1>1. /\ ex \in Seq(Events) /\ Len(ex) = Len(q) /\ Len(q) \in Nat
      /\ \A n \in 1 .. Len(q) : ex[n] = Event("expired", q[n])
  BY ExpiriesAre
<1> HIDE DEF ex
<1>2. CASE mid = <<>>
  <2>1. ex \o mid = ex
    BY <1>1, <1>2, ConcatEmptySeq
  <2> QED BY <1>1, <1>2, <2>1 DEF ex
<1>3. CASE mid = <<u>>
  <2>1. ex \o mid = Append(ex, u)
    BY <1>1, <1>3
  <2> QED BY <1>1, <1>3, <2>1 DEF ex
<1> QED BY <1>2, <1>3 DEF Maybe

\* The events x that follow the queue q.
Told(q, first, mid, u, e, x) ==
    /\ (q \o Expiries(first)) \o mid = q \o x
    /\ Append((q \o Expiries(first)) \o mid, e) = q \o Append(x, e)
    /\ Len(x) \in Len(first) .. Len(first) + 1
    /\ \A k \in 1 .. Len(first) : k \in 1 .. Len(x) /\ x[k] = Event("expired", first[k])
    /\ \A k \in 1 .. Len(x) : k > Len(first) => x[k] = u

\* What is told at the end of a prompt: the expiries, an update, and the end of the turn.
LEMMA AnswerEvents ==
    ASSUME NEW q \in Seq(Events), NEW first \in Seq(Nat), NEW u \in Events,
           NEW e \in Events, NEW mid \in Maybe(u)
    PROVE  \E x \in Seq(Events) : Told(q, first, mid, u, e, x)
<1> DEFINE ex == Expiries(first)
           x == ex \o mid
<1>1. /\ x \in Seq(Events) /\ Len(x) \in Len(first) .. Len(first) + 1
      /\ \A k \in 1 .. Len(first) : k \in 1 .. Len(x) /\ x[k] = Event("expired", first[k])
      /\ \A k \in 1 .. Len(x) : k > Len(first) => x[k] = u
  BY ExpiriesThen
<1>2. ex \in Seq(Events) /\ mid \in Seq(Events)
  BY ExpiriesAre, ExpiriesThen
<1> HIDE DEF ex
<1>3. (q \o ex) \o mid = q \o x
  BY <1>2, ConcatAssociative
<1> HIDE DEF x
<1>4. Append(q \o x, e) = q \o Append(x, e)
  <2> DEFINE last == <<e>>
  <2>1. last \in Seq(Events) /\ Append(x, e) = x \o last
    BY <1>1
  <2>2. PICK z \in Seq(Events) : z = q \o x
    BY <1>1, ConcatProperties
  <2>3. Append(z, e) = z \o last
    BY <2>2
  <2> HIDE DEF last
  <2>4. (q \o x) \o last = q \o (x \o last)
    BY <1>1, <2>1, ConcatAssociative, SMTT(30)
  <2> QED BY <2>1, <2>2, <2>3, <2>4
<1>5. Told(q, first, mid, u, e, x)
  BY <1>1, <1>3, <1>4 DEF Told, ex
<1> QED BY <1>1, <1>5

\* What the end of a prompt adds to the queue.
LEMMA AnswersTracks ==
    ASSUME NEW turn \in Nat, NEW ask \in Nat, NEW h \in HeardType, NEW s \in ObjectType,
           NEW t \in ObjectType, Coherent(s), Coherent(t), Tracks(h, s, turn, ask),
           h.sound => s.queue = <<>>, ~s.shut, s.turn # 0, Answers(s, t)
    PROVE  Tracks(h, t, turn, ask)
<1> DEFINE update == Event("update", s.turn)
           ended == Event("ended", s.turn)
<1>1. PICK n \in 0 .. Len(s.pending), mid \in Maybe(update) :
        /\ Held(t) = Held(s) \/ n = Len(s.pending)
        /\ LET told == (s.queue \o Expiries(SubSeq(s.pending, 1, n))) \o mid
           IN  \/ t.queue = told /\ OnTurn(t) = OnTurn(s)
               \/ t.queue = Append(told, ended) /\ OnTurn(t) = 0 /\ n = Len(s.pending)
  BY DEF Answers
<1> DEFINE first == SubSeq(s.pending, 1, n)
<1>2. /\ first \in Seq(Nat) /\ Len(first) = n /\ n \in Nat
      /\ \A k \in 1 .. n : first[k] = s.pending[k]
      /\ s.pending \in Seq(Nat) /\ s.queue \in Seq(Events) /\ s.turn \in Nat
  <2>1. s.pending \in Seq(Nat) /\ Len(s.pending) \in Nat
    BY DEF ObjectType
  <2>2. \A k \in 1 .. n : s.pending[k] \in Nat
    BY <2>1, ElementOfSeq
  <2> QED BY <2>1, <2>2, SubSeqProperties DEF ObjectType
<1>3. update \in Events /\ ended \in Events /\ OnTurn(s) = s.turn
  BY <1>2, EventIsOne DEF OnTurn
<1> HIDE DEF update, ended
<1>4. \/ t.queue = (s.queue \o Expiries(first)) \o mid /\ OnTurn(t) = OnTurn(s)
      \/ /\ t.queue = Append((s.queue \o Expiries(first)) \o mid, ended) /\ OnTurn(t) = 0
         /\ n = Len(s.pending)
  BY <1>1
<1> HIDE DEF first
<1>5. PICK x \in Seq(Events) :
        /\ (s.queue \o Expiries(first)) \o mid = s.queue \o x
        /\ Append((s.queue \o Expiries(first)) \o mid, ended) = s.queue \o Append(x, ended)
        /\ Len(x) \in n .. n + 1
        /\ \A k \in 1 .. n : k \in 1 .. Len(x) /\ x[k] = Event("expired", first[k])
        /\ \A k \in 1 .. Len(x) : k > n => x[k] = update
  <2>1. PICK x \in Seq(Events) : Told(s.queue, first, mid, update, ended, x)
    BY <1>2, <1>3, AnswerEvents
  <2> QED BY <1>2, <2>1 DEF Told
<1>6. \/ t.queue = s.queue \o x /\ OnTurn(t) = OnTurn(s)
      \/ t.queue = s.queue \o Append(x, ended) /\ OnTurn(t) = 0 /\ n = Len(s.pending)
  BY <1>4, <1>5
<1>7. \A k \in 1 .. n : s.pending[k] \in Held(s)
  <2> TAKE k \in 1 .. n
  <2>1. k \in 1 .. Len(s.pending)
    BY <1>2
  <2>2. s.pending[k] \in Nat
    BY <1>2, <2>1, ElementOfSeq
  <2> QED BY <2>1, <2>2 DEF Held, Contains
<1>8. Held(s) \subseteq 1 .. ask /\ s.turn <= turn
  BY <1>3 DEF Tracks, Names
<1>9. AllNamed(x, turn, ask)
  <2> SUFFICES ASSUME NEW k \in 1 .. Len(x)
               PROVE  NamedEvent(x[k], turn, ask)
    BY DEF AllNamed
  <2>1. CASE k \in 1 .. n
    <3>1. x[k] = Event("expired", s.pending[k])
      BY <1>2, <1>5, <2>1
    <3>2. s.pending[k] \in 1 .. ask
      BY <1>7, <1>8, <2>1
    <3> QED BY <3>1, <3>2 DEF NamedEvent, Event
  <2>2. CASE k \notin 1 .. n
    <3>1. x[k] = update
      BY <1>2, <1>5, <2>2
    <3> QED BY <1>8, <3>1 DEF NamedEvent, Event, update
  <2> QED BY <2>1, <2>2
<1>10. \A k \in 1 .. Len(x) : x[k].type = "expired" \/ x[k] = Event("update", OnTurn(s))
  <2> TAKE k \in 1 .. Len(x)
  <2>1. CASE k \in 1 .. n
    <3>1. x[k] = Event("expired", first[k])
      BY <1>5, <2>1
    <3> QED BY <3>1 DEF Event
  <2>2. CASE k \notin 1 .. n
    BY <1>2, <1>3, <1>5, <2>2 DEF update
  <2> QED BY <2>1, <2>2
<1>11. ASSUME n = Len(s.pending), NEW a \in Held(s)
       PROVE  Expires(x, n + 1, a)
  <2>1. s.stop.expired = <<>>
    BY DEF Coherent, NoStop
  <2>2. ~Contains(s.stop.expired, a)
    BY <2>1 DEF Contains
  <2>3. Contains(s.pending, a)
    BY <2>2 DEF Held
  <2>4. PICK k \in 1 .. n : s.pending[k] = a
    BY <1>11, <2>3 DEF Contains
  <2>5. first[k] = a
    BY <1>2, <2>4
  <2>6. k \in 1 .. Len(x) /\ x[k] = Event("expired", first[k])
    BY <1>5
  <2>7. k < n + 1
    BY <1>2
  <2> QED BY <2>5, <2>6, <2>7 DEF Expires
<1>12. Held(t) \subseteq Held(s)
  BY DEF Answers
<1>13. CASE t.queue = s.queue \o x /\ OnTurn(t) = OnTurn(s)
  <2>1. ~Ends(x)
    <3>1. x # <<>> => Len(x) \in 1 .. Len(x)
      BY <1>5, EmptySeq
    <3> QED BY <1>10, <3>1 DEF Ends, Event
  <2>2. ASSUME NEW a \in Held(s)
        PROVE  a \in Held(t) \/ Expires(x, Len(x) + 1, a)
    <3>1. CASE Held(t) = Held(s)
      BY <3>1
    <3>2. CASE n = Len(s.pending)
      <4>1. Expires(x, n + 1, a)
        BY <1>11, <3>2
      <4>2. n + 1 <= Len(x) + 1
        BY <1>2, <1>5
      <4> QED BY <1>2, <1>5, <4>1, <4>2 DEF Expires
    <3> QED BY <1>1, <3>1, <3>2
  <2>3. Continues(s, t, x)
    BY <1>10, <1>13, <2>1, <2>2 DEF Continues
  <2> QED BY <1>3, <1>5, <1>9, <1>12, <1>13, <2>3, AddedTracks
<1>14. CASE t.queue = s.queue \o Append(x, ended) /\ OnTurn(t) = 0 /\ n = Len(s.pending)
  <2> DEFINE y == Append(x, ended)
  <2>1. /\ y \in Seq(Events) /\ Len(y) = Len(x) + 1 /\ Len(x) \in Nat
        /\ \A k \in 1 .. Len(x) : y[k] = x[k]
        /\ y[Len(y)] = ended
    BY <1>3, <1>5
  <2>2. t.queue = s.queue \o y
    BY <1>14
  <2> HIDE DEF y
  <2>3. AllNamed(y, turn, ask)
    <3> SUFFICES ASSUME NEW k \in 1 .. Len(y)
                 PROVE  NamedEvent(y[k], turn, ask)
      BY DEF AllNamed
    <3>1. CASE k \in 1 .. Len(x)
      BY <1>9, <2>1, <3>1 DEF AllNamed
    <3>2. CASE k \notin 1 .. Len(x)
      <4>1. y[k] = ended
        BY <2>1, <3>2
      <4> QED BY <1>8, <4>1 DEF NamedEvent, Event, ended
    <3> QED BY <3>1, <3>2
  <2>4. Ends(y)
    BY <2>1 DEF Ends, Event, ended
  <2>5. ASSUME NEW a \in Held(s)
        PROVE  Expires(y, Len(y) + 1, a)
    <3>1. PICK k \in 1 .. Len(x) : k < n + 1 /\ x[k] = Event("expired", a)
      BY <1>11, <1>14 DEF Expires
    <3>2. k \in 1 .. Len(y) /\ k < Len(y) + 1 /\ y[k] = Event("expired", a)
      BY <2>1, <3>1
    <3> QED BY <3>2 DEF Expires
  <2>6. ASSUME NEW k \in 1 .. Len(y)
        PROVE  \/ y[k].type = "expired"
               \/ y[k] = Event("update", OnTurn(s))
               \/ k = Len(y) /\ y[k] = Event("ended", OnTurn(s)) /\ OnTurn(t) = 0
    <3>1. CASE k \in 1 .. Len(x)
      BY <1>10, <2>1, <3>1
    <3>2. CASE k \notin 1 .. Len(x)
      BY <1>3, <1>14, <2>1, <3>2 DEF ended
    <3> QED BY <3>1, <3>2
  <2>7. Continues(s, t, y)
    BY <1>14, <2>4, <2>5, <2>6 DEF Continues
  <2> QED BY <1>3, <1>12, <2>1, <2>2, <2>3, <2>7, AddedTracks
<1> QED BY <1>6, <1>13, <1>14
-----------------------------------------------------------------------------
(***************************************************************************)
(* One step per action.                                                    *)
(***************************************************************************)
\* What the invariant says of one object.
LEMMA AtObject ==
    ASSUME RuntimeInv, NEW o \in Object
    PROVE  /\ object[o] \in ObjectType /\ Coherent(object[o])
           /\ heard[o] \in HeardType /\ Follows(o)
           /\ Tracks(heard[o], object[o], turns, asks)
           /\ turns \in Nat /\ asks \in Nat
BY DEF RuntimeInv, TypeInv, CoherentInv, FollowsInv, Follows

\* When no listening loop has anything to hear, an object whose record is kept
\* has an empty queue, unless it is shut.
LEMMA QuietQueue ==
    ASSUME RuntimeInv, Quiet, NEW o \in Object, heard[o].sound, ~object[o].shut
    PROVE  object[o].queue = <<>>
BY AtObject DEF Quiet, Follows, Idle

\* The newer names include the older ones.
LEMMA TracksLater ==
    ASSUME NEW turn \in Nat, NEW ask \in Nat, NEW later \in Nat, NEW more \in Nat,
           turn <= later, ask <= more, NEW h \in HeardType, NEW s \in ObjectType,
           Tracks(h, s, turn, ask)
    PROVE  Tracks(h, s, later, more)
<1>1. h.last \in Nat /\ h.current \in Nat /\ OnTurn(s) \in Nat
  BY DEF HeardType, ObjectType, Stops, OnTurn
<1>2. 1 .. ask \subseteq 1 .. more
  OBVIOUS
<1>3. AllNamed(s.queue, later, more)
  <2> SUFFICES ASSUME NEW n \in 1 .. Len(s.queue)
               PROVE  NamedEvent(s.queue[n], later, more)
    BY DEF AllNamed
  <2>1. s.queue[n] \in Events
    BY ElementOfSeq DEF ObjectType
  <2>2. s.queue[n].of \in Nat
    BY <2>1 DEF Events
  <2>3. NamedEvent(s.queue[n], turn, ask)
    BY DEF Tracks, Names, AllNamed
  <2> QED BY <1>2, <2>2, <2>3 DEF NamedEvent
<1>4. Names(h, s, later, more)
  BY <1>1, <1>2, <1>3 DEF Tracks, Names
<1> QED BY <1>4 DEF Tracks

\* A step of the object o keeps the invariant when it keeps it of o.
LEMMA StepAt ==
    ASSUME RuntimeInv, NEW o \in Object, NEW t \in ObjectType, Becomes(o, t), Coherent(t),
           sessions' \in [Id -> Object \cup {NoObject}], Known',
           heard' \in [Object -> HeardType],
           \A p \in Object \ {o} : heard'[p] = heard[p] /\ (p \in listening => p \in listening'),
           turns' \in Nat, asks' \in Nat, turns <= turns', asks <= asks',
           Tracks(heard'[o], t, turns', asks'),
           heard'[o].sound => t.shut \/ o \in listening' \/ Idle(t)
    PROVE  RuntimeInv'
<1>1. /\ object' \in [Object -> ObjectType] /\ object'[o] = t
      /\ \A p \in Object \ {o} : object'[p] = object[p]
  BY DEF RuntimeInv, TypeInv, Becomes
<1>2. TypeInv'
  BY <1>1 DEF TypeInv
<1>3. CoherentInv'
  BY <1>1 DEF RuntimeInv, CoherentInv
<1>4. ASSUME NEW p \in Object \ {o}
      PROVE  Follows(p)'
  <2>1. /\ Tracks(heard[p], object[p], turns, asks)
        /\ heard[p].sound => object[p].shut \/ p \in listening \/ Idle(object[p])
    BY AtObject DEF Follows
  <2>2. Tracks(heard'[p], object'[p], turns', asks')
    BY <1>1, <2>1, AtObject, TracksLater
  <2> QED BY <1>1, <2>1, <2>2 DEF Follows
<1>5. Follows(o)'
  BY <1>1 DEF Follows
<1>6. FollowsInv'
  BY <1>4, <1>5 DEF FollowsInv
<1> QED BY <1>2, <1>3, <1>6 DEF RuntimeInv

\* A step that leaves the queue, the turn and the permissions of o alone.
LEMMA SameStep ==
    ASSUME RuntimeInv, NEW o \in Object, NEW t \in ObjectType, Becomes(o, t), Coherent(t),
           sessions' \in [Id -> Object \cup {NoObject}], Known',
           UNCHANGED <<heard, listening, turns>>, asks' \in Nat, asks <= asks',
           t.queue = object[o].queue, t.shut = object[o].shut,
           OnTurn(t) = OnTurn(object[o]), Held(t) = Held(object[o])
    PROVE  RuntimeInv'
<1>1. Tracks(heard[o], t, turns, asks)
  BY AtObject, SameTracks
<1>2. Tracks(heard'[o], t, turns', asks')
  BY <1>1, AtObject, TracksLater
<1>3. heard'[o].sound => t.shut \/ o \in listening' \/ Idle(t)
  BY AtObject DEF Follows, Idle
<1>4. heard' \in [Object -> HeardType] /\ turns' \in Nat /\ turns <= turns'
  BY DEF RuntimeInv, TypeInv
<1> QED BY <1>2, <1>3, <1>4, StepAt

\* A registered object stays registered under its name while it is open.
LEMMA KnownStill ==
    ASSUME RuntimeInv, NEW o \in Object, NEW t \in ObjectType, Becomes(o, t),
           UNCHANGED sessions, t.id = object[o].id,
           t.stage = object[o].stage \/ ~Registers(o)
    PROVE  Known' /\ sessions' \in [Id -> Object \cup {NoObject}]
<1>1. /\ object' \in [Object -> ObjectType] /\ object'[o] = t
      /\ \A p \in Object \ {o} : object'[p] = object[p]
  BY DEF RuntimeInv, TypeInv, Becomes
<1>2. ASSUME NEW i \in Id, sessions[i] # NoObject
      PROVE  object'[sessions[i]].stage = "open" /\ object'[sessions[i]].id = i
  <2>1. sessions[i] \in Object /\ object[sessions[i]].stage = "open" /\ object[sessions[i]].id = i
    BY <1>2 DEF RuntimeInv, TypeInv, Known
  <2>2. sessions[i] = o => Registers(o)
    BY <2>1 DEF Registers
  <2> QED BY <1>1, <2>1, <2>2
<1> QED BY <1>2 DEF Known, RuntimeInv, TypeInv

\* An object on its way to a session is not registered.
LEMMA NotOpen ==
    ASSUME RuntimeInv, NEW o \in Object, object[o].stage # "open"
    PROVE  ~Registers(o) /\ \A i \in Id : sessions[i] # o
<1>1. NoObject \notin Object
  BY RuntimeAssumption
<1> QED BY <1>1 DEF RuntimeInv, Known, Registers

\* A registered object is open, so it is not shut.
LEMMA RegisteredIs ==
    ASSUME RuntimeInv, NEW i \in Id, sessions[i] # NoObject
    PROVE  /\ sessions[i] \in Object /\ object[sessions[i]].stage = "open"
           /\ object[sessions[i]].id = i /\ ~object[sessions[i]].shut
<1>1. /\ sessions[i] \in Object /\ object[sessions[i]].stage = "open"
      /\ object[sessions[i]].id = i
  BY DEF RuntimeInv, TypeInv, Known
<1> QED BY <1>1, AtObject DEF Coherent

\* Giving a session object its stage and its name.
Staged(s, stage, i) == [s EXCEPT !.stage = stage, !.id = i]

\* A change of stage leaves the turn alone.
LEMMA StageKeeps ==
    ASSUME NEW s \in ObjectType, Coherent(s), NEW stage \in Stage, NEW i \in Id \cup {NoId},
           s.stage \notin {"open", "closed"}
    PROVE  LET t == Staged(s, stage, i)
           IN  /\ t \in ObjectType /\ Coherent(t) /\ t.stage = stage /\ t.id = i
               /\ t.queue = s.queue /\ t.shut = s.shut
               /\ OnTurn(t) = OnTurn(s) /\ Held(t) = Held(s)
<1> DEFINE t == [s EXCEPT !.stage = stage, !.id = i]
<1>1. t \in ObjectType
  BY DEF ObjectType
<1>2. /\ t.stage = stage /\ t.id = i /\ t.shut = s.shut /\ t.turn = s.turn
      /\ t.stop = s.stop /\ t.queue = s.queue /\ t.pending = s.pending
      /\ t.unanswered = s.unanswered /\ t.terminalEmitted = s.terminalEmitted
      /\ t.stopping = s.stopping /\ t.overflowed = s.overflowed /\ t.prompts = s.prompts
      /\ t.eviction = s.eviction
  BY DEF ObjectType
<1> HIDE DEF t
<1>3. Held(t) = Held(s) /\ OnTurn(t) = OnTurn(s)
  BY <1>2 DEF Held, OnTurn
<1>4. Coherent(t)
  BY <1>2, <1>3 DEF Coherent
<1> QED BY <1>1, <1>2, <1>3, <1>4 DEF t, Staged

\* Opening: the first call, the answer to it, a failure.
LEMMA OpensKeep ==
    ASSUME RuntimeInv, NEW o \in Object, Opens(o)
    PROVE  RuntimeInv'
<1> DEFINE s == object[o]
<1>1. /\ s \in ObjectType /\ Coherent(s) /\ asks \in Nat /\ s.id \in Id \cup {NoId}
      /\ sessions \in [Id -> Object \cup {NoObject}]
  BY AtObject DEF ObjectType, RuntimeInv, TypeInv
<1>2. ASSUME NEW stage \in {"creating", "open", "closed"},
             s.stage \in {"none", "creating", "resuming"},
             Becomes(o, [s EXCEPT !.stage = stage]),
             UNCHANGED <<sessions, heard, listening, turns, asks>>
      PROVE  RuntimeInv'
  <2> DEFINE t == Staged(s, stage, s.id)
  <2>1. [s EXCEPT !.stage = stage] = t
    BY <1>1 DEF ObjectType, Staged
  <2> HIDE DEF s
  <2>2. /\ t \in ObjectType /\ Coherent(t) /\ t.stage = stage /\ t.id = s.id
        /\ t.queue = s.queue /\ t.shut = s.shut
        /\ OnTurn(t) = OnTurn(s) /\ Held(t) = Held(s)
    <3>1. stage \in Stage /\ s.stage \notin {"open", "closed"}
      BY <1>2 DEF Stage
    <3> QED BY <1>1, <3>1, StageKeeps
  <2>3. Becomes(o, t)
    BY <1>2, <2>1
  <2> HIDE DEF t
  <2>4. Known' /\ sessions' \in [Id -> Object \cup {NoObject}]
    BY <1>2, <2>2, <2>3, KnownStill, NotOpen DEF s
  <2>5. asks' \in Nat /\ asks <= asks'
    BY <1>1, <1>2
  <2>6. UNCHANGED <<heard, listening, turns>>
    BY <1>2
  <2> QED BY <2>2, <2>3, <2>4, <2>5, <2>6, SameStep DEF s
<1>3. ASSUME NEW i \in Id, NEW stage \in {"resuming", "open"},
             s.stage \in {"none", "creating", "resuming"},
             Becomes(o, [s EXCEPT !.stage = stage, !.id = i]),
             sessions' = IF stage = "open" THEN [sessions EXCEPT ![i] = o] ELSE sessions,
             UNCHANGED <<heard, listening, turns, asks>>
      PROVE  RuntimeInv'
  <2> DEFINE t == Staged(s, stage, i)
  <2> HIDE DEF s
  <2>2. /\ t \in ObjectType /\ Coherent(t) /\ t.stage = stage /\ t.id = i
        /\ t.queue = s.queue /\ t.shut = s.shut
        /\ OnTurn(t) = OnTurn(s) /\ Held(t) = Held(s)
    <3>1. stage \in Stage /\ s.stage \notin {"open", "closed"}
      BY <1>3 DEF Stage
    <3> QED BY <1>1, <3>1, StageKeeps
  <2>3. Becomes(o, t)
    BY <1>3 DEF Staged
  <2> HIDE DEF t
  <2>4. /\ object'[o] = t /\ \A p \in Object \ {o} : object'[p] = object[p]
    BY <2>3 DEF Becomes, RuntimeInv, TypeInv
  <2>5. sessions' \in [Id -> Object \cup {NoObject}]
    BY <1>1, <1>3
  <2>6. \A j \in Id : sessions[j] # o
    BY <1>3, NotOpen DEF s
  <2>7. ASSUME NEW j \in Id, sessions'[j] # NoObject
        PROVE  object'[sessions'[j]].stage = "open" /\ object'[sessions'[j]].id = j
    <3>1. CASE stage = "open" /\ j = i
      BY <1>1, <1>3, <2>2, <2>4, <3>1
    <3>2. CASE ~(stage = "open" /\ j = i)
      <4>1. sessions'[j] = sessions[j]
        BY <1>1, <1>3, <3>2
      <4>2. sessions[j] \in Object \ {o}
        BY <1>1, <2>6, <2>7, <4>1
      <4> QED BY <2>4, <2>7, <4>1, <4>2 DEF RuntimeInv, Known
    <3> QED BY <3>1, <3>2
  <2>8. Known'
    BY <2>7 DEF Known
  <2>9. asks' \in Nat /\ asks <= asks'
    BY <1>1, <1>3
  <2>10. UNCHANGED <<heard, listening, turns>>
    BY <1>3
  <2> QED BY <2>2, <2>3, <2>5, <2>8, <2>9, <2>10, SameStep DEF s
<1>4. CASE CreateSession(o)
  BY <1>2, <1>4 DEF CreateSession
<1>5. CASE OpeningFails(o)
  BY <1>2, <1>5 DEF OpeningFails
<1>6. CASE \E i \in Id : SessionCreated(o, i)
  BY <1>3, <1>6 DEF SessionCreated
<1>7. CASE \E i \in Id : ResumeSession(o, i)
  BY <1>3, <1>7 DEF ResumeSession
<1>8. CASE SessionResumed(o)
  <2>1. s.stage = "resuming" /\ UNCHANGED <<heard, listening, turns, asks>>
    BY <1>8 DEF SessionResumed
  <2>2. CASE s.id \in Id
    <3>1. [s EXCEPT !.stage = "open"] = [s EXCEPT !.stage = "open", !.id = s.id]
      BY <1>1 DEF ObjectType
    <3>2. /\ Becomes(o, [s EXCEPT !.stage = "open", !.id = s.id])
          /\ sessions' = [sessions EXCEPT ![s.id] = o]
      BY <1>8, <3>1 DEF SessionResumed
    <3> HIDE DEF s
    <3> QED BY <1>3, <2>1, <2>2, <3>2
  <2>3. CASE s.id \notin Id
    <3>1. Becomes(o, [s EXCEPT !.stage = "open"]) /\ sessions' = [sessions EXCEPT ![s.id] = o]
      BY <1>8 DEF SessionResumed
    <3>2. sessions' = sessions
      BY <1>1, <2>3, <3>1
    <3> HIDE DEF s
    <3> QED BY <1>2, <2>1, <3>1, <3>2
  <2> QED BY <2>2, <2>3
<1> QED BY <1>4, <1>5, <1>6, <1>7, <1>8 DEF Opens

\* A step of the agent's side of o, which keeps its stage and its name.
LEMMA AgentStep ==
    ASSUME RuntimeInv, NEW o \in Object, NEW t \in ObjectType, Becomes(o, t), Coherent(t),
           UNCHANGED <<sessions, heard, listening, turns>>, asks' \in Nat, asks <= asks',
           t.stage = object[o].stage, t.id = object[o].id,
           Tracks(heard[o], t, turns, asks'),
           t.shut \/ (~object[o].shut /\ (OnTurn(object[o]) # 0 \/ Idle(t)))
    PROVE  RuntimeInv'
<1>1. Known' /\ sessions' \in [Id -> Object \cup {NoObject}]
  BY KnownStill
<1>2. heard' \in [Object -> HeardType] /\ turns' \in Nat /\ turns <= turns'
  BY DEF RuntimeInv, TypeInv
<1>3. heard'[o].sound => t.shut \/ o \in listening' \/ Idle(t)
  BY AtObject DEF Follows, Idle
<1>4. Tracks(heard'[o], t, turns', asks')
  OBVIOUS
<1>5. \A p \in Object \ {o} : heard'[p] = heard[p] /\ (p \in listening => p \in listening')
  OBVIOUS
<1> QED BY <1>1, <1>2, <1>3, <1>4, <1>5, StepAt

\* A turn is on or not.
LEMMA TurnIs ==
    ASSUME NEW s \in ObjectType, s.turn # 0
    PROVE  OnTurn(s) = s.turn /\ s.turn \in Nat
BY DEF OnTurn, ObjectType

\* #mapUpdate emits an event of the turn.
LEMMA UpdateKeeps ==
    ASSUME RuntimeInv, Quiet, NEW o \in Object, Update(o)
    PROVE  RuntimeInv'
<1> DEFINE s == object[o]
           e == Event("update", s.turn)
           t == Emit(s, e, s.generation)
           x == <<e>>
<1>1. /\ s \in ObjectType /\ Coherent(s) /\ Tracks(heard[o], s, turns, asks)
      /\ turns \in Nat /\ asks \in Nat /\ heard[o] \in HeardType
      /\ s.stage = "open" /\ s.turn # 0 /\ Becomes(o, t)
      /\ UNCHANGED <<sessions, heard, listening, turns, asks>>
  BY AtObject DEF Update, Fenced
<1>2. ~s.shut
  BY <1>1 DEF Coherent
<1>3. heard[o].sound => s.queue = <<>>
  BY <1>2, QuietQueue
<1> HIDE DEF s
<1>4. e \in Events /\ OnTurn(s) = s.turn /\ s.turn \in Nat /\ e = Event("update", OnTurn(s))
  BY <1>1, EventIsOne, TurnIs
<1> HIDE DEF e
<1>5. t \in ObjectType /\ Coherent(t) /\ Keeps(s, t)
  BY <1>1, <1>4, EmitKeeps
<1>6. \/ /\ t.turn = s.turn /\ t.stop = s.stop /\ t.generation = s.generation
         /\ t.queue = Append(s.queue, e)
      \/ t.turn = 0 /\ t.queue = s.queue /\ t.generation # s.generation
  BY <1>1, <1>2, <1>4, EmitOnTurn
<1> HIDE DEF t
<1>7. CASE t.queue = s.queue
  <2>1. Tracks(heard[o], t, turns, asks)
    BY <1>1, <1>5, <1>7, SameTracks DEF Keeps
  <2> QED BY <1>1, <1>2, <1>4, <1>5, <2>1, AgentStep DEF Keeps, s
<1>8. CASE t.queue = Append(s.queue, e)
  <2>1. x \in Seq(Events) /\ t.queue = s.queue \o x
    BY <1>1, <1>4, <1>8 DEF ObjectType
  <2>2. Len(x) = 1 /\ x[1] = e /\ e.type = "update" /\ e.of = OnTurn(s)
    BY <1>4 DEF Event
  <2> HIDE DEF x
  <2>3. AllNamed(x, turns, asks)
    <3>1. OnTurn(s) <= turns
      BY <1>1 DEF Tracks, Names
    <3> QED BY <2>2, <3>1 DEF AllNamed, NamedEvent
  <2>4. Continues(s, t, x)
    BY <1>4, <1>5, <2>2 DEF Continues, Keeps, Ends
  <2>5. Tracks(heard[o], t, turns, asks)
    BY <1>1, <1>2, <1>3, <1>4, <1>5, <2>1, <2>3, <2>4, AddedTracks DEF Keeps
  <2> QED BY <1>1, <1>2, <1>4, <1>5, <2>5, AgentStep DEF Keeps, s
<1> QED BY <1>6, <1>7, <1>8

\* An update that cannot be kept overflows.
LEMMA UnfitUpdateKeeps ==
    ASSUME RuntimeInv, NEW o \in Object, UnfitUpdate(o)
    PROVE  RuntimeInv'
<1> DEFINE s == object[o]
           t == Overflow(s, s.generation)
<1>1. /\ s \in ObjectType /\ Coherent(s) /\ Tracks(heard[o], s, turns, asks)
      /\ turns \in Nat /\ asks \in Nat
      /\ s.stage = "open" /\ s.turn # 0 /\ Becomes(o, t)
      /\ UNCHANGED <<sessions, heard, listening, turns, asks>>
  BY AtObject DEF UnfitUpdate, Fenced
<1>2. ~s.shut
  BY <1>1 DEF Coherent
<1> HIDE DEF s
<1>3. t \in ObjectType /\ Coherent(t) /\ Keeps(s, t) /\ t.queue = s.queue
  BY <1>1, OverflowKeeps
<1>4. OnTurn(s) # 0
  BY <1>1, TurnIs
<1> HIDE DEF t
<1>5. Tracks(heard[o], t, turns, asks)
  BY <1>1, <1>3, SameTracks DEF Keeps
<1> QED BY <1>1, <1>2, <1>3, <1>4, <1>5, AgentStep DEF Keeps, s

\* A prompt is answered.
LEMMA PromptAnsweredKeeps ==
    ASSUME RuntimeInv, Quiet, NEW o \in Object, NEW g \in object[o].prompts,
           PromptAnswered(o, g)
    PROVE  RuntimeInv'
<1> DEFINE s == object[o]
<1>1. PICK completes \in BOOLEAN :
        Becomes(o, [Answered(s, g, completes) EXCEPT !.prompts = @ \ {g}])
  BY DEF PromptAnswered
<1> DEFINE r == Answered(s, g, completes)
<1>2. /\ s \in ObjectType /\ Coherent(s) /\ Tracks(heard[o], s, turns, asks)
      /\ turns \in Nat /\ asks \in Nat /\ heard[o] \in HeardType
      /\ s.stage = "open" /\ UNCHANGED <<sessions, heard, listening, turns, asks>>
  BY AtObject DEF PromptAnswered
<1>3. ~s.shut
  BY <1>2 DEF Coherent
<1>4. heard[o].sound => s.queue = <<>>
  BY <1>3, QuietQueue
<1>5. g \in s.prompts
  OBVIOUS
<1> HIDE DEF s
<1>6. /\ r \in ObjectType /\ Coherent(r) /\ Tracks(heard[o], r, turns, asks)
      /\ r.stage = s.stage /\ r.id = s.id /\ r.shut = s.shut
      /\ OnTurn(s) # 0 \/ r = s
  <2>1. CASE g # s.generation \/ s.terminalEmitted
    BY <1>2, <2>1 DEF Answered
  <2>2. CASE ~(g # s.generation \/ s.terminalEmitted)
    <3>1. s.turn # 0
      BY <1>2, <1>5, <2>2 DEF Coherent
    <3>2. r \in ObjectType /\ Coherent(r) /\ Answers(s, r)
      BY <1>2, <1>3, <2>2, <3>1, AnsweredKeeps
    <3> HIDE DEF r
    <3>3. Tracks(heard[o], r, turns, asks)
      BY <1>2, <1>3, <1>4, <3>1, <3>2, AnswersTracks
    <3> QED BY <1>2, <3>1, <3>2, <3>3, TurnIs DEF Answers
  <2> QED BY <2>1, <2>2
<1> HIDE DEF r
<1>7. PICK left \in SUBSET Nat : left = r.prompts \ {g}
  <2>1. r.prompts \ {g} \in SUBSET Nat
    BY <1>6 DEF ObjectType
  <2> QED BY <2>1
<1> DEFINE t == [r EXCEPT !.prompts = left]
<1>8. Becomes(o, t)
  BY <1>1, <1>7 DEF r
<1>9. /\ t \in ObjectType /\ t.stage = r.stage /\ t.id = r.id /\ t.shut = r.shut
      /\ t.turn = r.turn /\ t.stop = r.stop /\ t.queue = r.queue /\ t.pending = r.pending
      /\ t.unanswered = r.unanswered /\ t.terminalEmitted = r.terminalEmitted
      /\ t.stopping = r.stopping /\ t.overflowed = r.overflowed /\ t.prompts = left
      /\ t.eviction = r.eviction
  BY <1>6 DEF ObjectType
<1> HIDE DEF t
<1>10. Held(t) = Held(r) /\ OnTurn(t) = OnTurn(r)
  BY <1>9 DEF Held, OnTurn
<1>11. Coherent(t)
  BY <1>6, <1>7, <1>9, <1>10 DEF Coherent
<1>12. CASE OnTurn(s) # 0
  <2>1. Tracks(heard[o], t, turns, asks)
    BY <1>6, <1>9, <1>10, SameTracks
  <2> QED BY <1>2, <1>3, <1>6, <1>8, <1>9, <1>11, <1>12, <2>1, AgentStep DEF s
<1>13. CASE r = s
  <2>1. Known' /\ sessions' \in [Id -> Object \cup {NoObject}]
    BY <1>2, <1>8, <1>9, <1>13, KnownStill DEF s
  <2> QED BY <1>2, <1>8, <1>9, <1>10, <1>11, <1>13, <2>1, SameStep DEF s
<1> QED BY <1>6, <1>12, <1>13

\* A request of the agent that the queue takes is pending from then on.
Requested(s, a) ==
    [Emit(s, Event("asked", a), s.generation)
        EXCEPT !.pending = Append(@, a), !.unanswered = @ \cup {a}]

\* A requested permission is pending, unless it overflows the queue.
LEMMA RequestedKeeps ==
    ASSUME NEW s \in ObjectType, Coherent(s), NEW a \in Nat, s.turn # 0, ~s.shut
    PROVE  LET told == Emit(s, Event("asked", a), s.generation)
               t == Requested(s, a)
           IN  IF told.count = s.count
               THEN told \in ObjectType /\ Coherent(told) /\ Keeps(s, told) /\ told.queue = s.queue
               ELSE /\ t \in ObjectType /\ Coherent(t)
                    /\ t.stage = s.stage /\ t.id = s.id /\ t.shut = s.shut
                    /\ OnTurn(t) = OnTurn(s) /\ Held(t) = Held(s) \cup {a}
                    /\ t.queue = Append(s.queue, Event("asked", a))
<1> DEFINE e == Event("asked", a)
           told == Emit(s, e, s.generation)
<1>1. ~s.overflowed /\ ~s.stopping /\ e \in Events
  BY EventIsOne DEF Coherent
<1> HIDE DEF e
<1>2. told \in ObjectType /\ Coherent(told) /\ Keeps(s, told)
  BY <1>1, EmitKeeps
<1>3. CASE Full(s)
  <2>1. told = BeginStop([s EXCEPT !.overflowed = TRUE, !.pending = <<>>], s.pending, TRUE)
    BY <1>1, <1>3 DEF Emit, Overflow
  <2>2. told.count = s.count /\ told.queue = s.queue
    BY <1>1, <2>1 DEF BeginStop, ObjectType
  <2> QED BY <1>2, <2>2 DEF e
<1>4. CASE ~Full(s)
  <2>1. PICK n \in Nat : n = s.count + 1 /\ n # s.count
    BY DEF ObjectType
  <2>2. PICK q \in Seq(Events) : q = Append(s.queue, e)
    <3>1. Append(s.queue, e) \in Seq(Events)
      BY <1>1 DEF ObjectType
    <3> QED BY <3>1
  <2>3. PICK p \in Seq(Nat) : p = Append(s.pending, a)
    <3>1. Append(s.pending, a) \in Seq(Nat)
      BY DEF ObjectType
    <3> QED BY <3>1
  <2>4. PICK left \in SUBSET Nat : left = s.unanswered \cup {a}
    <3>1. s.unanswered \cup {a} \in SUBSET Nat
      BY DEF ObjectType
    <3> QED BY <3>1
  <2>5. told = [s EXCEPT !.count = n, !.queue = q]
    BY <1>1, <1>4, <2>1, <2>2 DEF Emit, Push, ObjectType
  <2>6. told.count # s.count
    BY <2>1, <2>5 DEF ObjectType
  <2> DEFINE t == [s EXCEPT !.count = n, !.queue = q, !.pending = p, !.unanswered = left]
  <2>7. Requested(s, a) = t
    BY <2>3, <2>4, <2>5 DEF Requested, ObjectType, e
  <2>8. t \in ObjectType
    BY DEF ObjectType
  <2>9. /\ t.stage = s.stage /\ t.id = s.id /\ t.shut = s.shut /\ t.turn = s.turn
        /\ t.stop = s.stop /\ t.queue = q /\ t.pending = p /\ t.unanswered = left
        /\ t.stopping = s.stopping /\ t.overflowed = s.overflowed
        /\ t.terminalEmitted = s.terminalEmitted /\ t.prompts = s.prompts
        /\ t.eviction = s.eviction
    BY DEF ObjectType
  <2> HIDE DEF t, told
  <2>10. \A b : Contains(p, b) <=> Contains(s.pending, b) \/ b = a
    <3>1. /\ Len(p) = Len(s.pending) + 1 /\ Len(s.pending) \in Nat /\ p[Len(p)] = a
          /\ \A k \in 1 .. Len(s.pending) : p[k] = s.pending[k]
      BY <2>3 DEF ObjectType
    <3>2. \A k \in 1 .. Len(p) : k = Len(p) \/ k \in 1 .. Len(s.pending)
      BY <3>1
    <3>3. \A k \in 1 .. Len(s.pending) : k \in 1 .. Len(p)
      BY <3>1
    <3>4. Len(p) \in 1 .. Len(p)
      BY <3>1
    <3> QED BY <3>1, <3>2, <3>3, <3>4 DEF Contains
  <2>11. Held(t) = Held(s) \cup {a} /\ OnTurn(t) = OnTurn(s)
    BY <2>9, <2>10 DEF Held, OnTurn
  <2>12. Coherent(t)
    BY <2>4, <2>9, <2>11 DEF Coherent
  <2> QED BY <2>2, <2>6, <2>7, <2>8, <2>9, <2>11, <2>12 DEF e, told
<1> QED BY <1>3, <1>4

\* The agent asks for a permission.
LEMMA RequestKeeps ==
    ASSUME RuntimeInv, Quiet, NEW o \in Object, RequestPermission(o)
    PROVE  RuntimeInv'
<1> DEFINE s == object[o]
           a == asks + 1
           e == Event("asked", a)
           told == Emit(s, e, s.generation)
<1>1. /\ s \in ObjectType /\ Coherent(s) /\ Tracks(heard[o], s, turns, asks)
      /\ turns \in Nat /\ asks \in Nat /\ heard[o] \in HeardType
      /\ s.stage = "open" /\ s.turn # 0 /\ asks' = a
      /\ UNCHANGED <<sessions, heard, listening, turns>>
  BY AtObject DEF RequestPermission, Fenced
<1>2. \/ Becomes(o, Overflow(s, s.generation))
      \/ told.count = s.count /\ Becomes(o, told)
      \/ told.count # s.count /\ Becomes(o, Requested(s, a))
  BY DEF RequestPermission, Requested
<1>3. ~s.shut
  BY <1>1 DEF Coherent
<1>4. heard[o].sound => s.queue = <<>>
  BY <1>3, QuietQueue
<1> HIDE DEF s
<1>5. a \in Nat /\ asks <= a /\ a \in 1 .. a /\ OnTurn(s) # 0
  BY <1>1, TurnIs
<1> HIDE DEF a
<1>6. e \in Events /\ e.type = "asked" /\ e.of = a
  BY <1>5, EventIsOne DEF Event
<1>7. Tracks(heard[o], s, turns, a)
  BY <1>1, <1>5, TracksLater
<1>8. ASSUME NEW t \in ObjectType, Coherent(t), Keeps(s, t), t.queue = s.queue, Becomes(o, t)
      PROVE  RuntimeInv'
  <2>1. Tracks(heard[o], t, turns, a)
    BY <1>7, <1>8, SameTracks DEF Keeps
  <2> QED BY <1>1, <1>3, <1>5, <1>8, <2>1, AgentStep DEF Keeps, s
<1>9. CASE Becomes(o, Overflow(s, s.generation))
  BY <1>1, <1>8, <1>9, OverflowKeeps
<1>10. CASE told.count = s.count /\ Becomes(o, told)
  BY <1>1, <1>3, <1>5, <1>8, <1>10, RequestedKeeps
<1>11. CASE told.count # s.count /\ Becomes(o, Requested(s, a))
  <2> DEFINE t == Requested(s, a)
  <2>1. /\ t \in ObjectType /\ Coherent(t)
        /\ t.stage = s.stage /\ t.id = s.id /\ t.shut = s.shut
        /\ OnTurn(t) = OnTurn(s) /\ Held(t) = Held(s) \cup {a}
        /\ t.queue = Append(s.queue, e)
    BY <1>1, <1>3, <1>5, <1>11, RequestedKeeps
  <2>2. Becomes(o, t)
    BY <1>11
  <2> HIDE DEF t, e, told
  <2>3. Names(heard[o], t, turns, a)
    <3>1. <<e>> \in Seq(Events) /\ s.queue \in Seq(Events) /\ t.queue = s.queue \o <<e>>
      BY <1>1, <1>6, <2>1 DEF ObjectType
    <3>2. AllNamed(<<e>>, turns, a)
      BY <1>5, <1>6 DEF AllNamed, NamedEvent
    <3>3. AllNamed(t.queue, turns, a)
      BY <1>1, <1>5, <1>7, <3>1, <3>2, NamedConcat DEF Tracks, Names
    <3> QED BY <1>5, <1>7, <2>1, <3>3 DEF Tracks, Names
  <2>4. ASSUME heard[o].sound
        PROVE  Hearable(heard[o], t.queue) /\ Linked(heard[o], t)
    <3>1. s.queue = <<>> /\ Hearable(heard[o], s.queue) /\ Linked(heard[o], s)
      BY <1>3, <1>4, <1>7, <2>4 DEF Tracks
    <3>2. Len(t.queue) = 1 /\ t.queue[1] = e
      BY <1>6, <2>1, <3>1
    <3>3. ~Ends(t.queue)
      BY <1>6, <3>2 DEF Ends
    <3>4. s.queue # <<Event("started", OnTurn(s))>>
      BY <3>1
    <3>5. heard[o].current = OnTurn(s)
      BY <1>5, <3>1, <3>4 DEF Linked
    <3>6. \A b : ~Expires(s.queue, Len(s.queue) + 1, b)
      BY <3>1 DEF Expires
    <3>7. heard[o].asking \subseteq Held(s)
      BY <3>1, <3>6 DEF Linked
    <3>8. Hearable(heard[o], t.queue)
      BY <1>5, <1>6, <3>1, <3>2, <3>5 DEF Hearable, Hears1
    <3> QED BY <1>5, <1>6, <2>1, <3>2, <3>3, <3>5, <3>7, <3>8 DEF Linked
  <2>5. Tracks(heard[o], t, turns, a)
    BY <2>3, <2>4 DEF Tracks
  <2> QED BY <1>1, <1>3, <1>5, <2>1, <2>2, <2>5, AgentStep DEF s
<1> QED BY <1>2, <1>9, <1>10, <1>11

\* The object s with the turn t begun, before its first event.
Begun(s, t) ==
    [s EXCEPT !.eviction = FALSE, !.generation = @ + 1, !.terminalEmitted = FALSE,
              !.count = 0, !.overflowed = FALSE, !.turn = t,
              !.prompts = @ \cup {s.generation + 1}]

\* A turn that begins is announced, or it overflows the queue at once.
LEMMA BegunKeeps ==
    ASSUME NEW s \in ObjectType, Coherent(s), NEW t \in Nat \ {0}, s.turn = 0, ~s.stopping,
           ~s.shut
    PROVE  LET b == Begun(s, t)
               r == Emit(b, Event("started", t), b.generation)
           IN  /\ r \in ObjectType /\ Coherent(r)
               /\ r.stage = s.stage /\ r.id = s.id /\ r.shut = s.shut
               /\ OnTurn(s) = 0 /\ OnTurn(r) = t /\ Held(r) = {}
               /\ r.queue \in {s.queue, Append(s.queue, Event("started", t))}
               /\ s.queue = <<>> => r.queue = <<Event("started", t)>>
<1>1. s.pending = <<>> /\ s.stop = NoStop
  BY DEF Coherent
<1>2. PICK g \in Nat : g = s.generation + 1
  BY DEF ObjectType
<1>3. PICK ps \in SUBSET Nat : ps = s.prompts \cup {g}
  <2>1. s.prompts \cup {g} \in SUBSET Nat
    BY DEF ObjectType
  <2> QED BY <2>1
<1> DEFINE b == [s EXCEPT !.eviction = FALSE, !.generation = g, !.terminalEmitted = FALSE,
                    !.count = 0, !.overflowed = FALSE, !.turn = t, !.prompts = ps]
<1>4. Begun(s, t) = b
  BY <1>2, <1>3 DEF Begun
<1>5. b \in ObjectType
  BY DEF ObjectType
<1>6. /\ b.stage = s.stage /\ b.id = s.id /\ b.shut = s.shut /\ b.turn = t
      /\ b.stop = s.stop /\ b.queue = s.queue /\ b.pending = s.pending
      /\ b.unanswered = s.unanswered /\ b.stopping = s.stopping /\ ~b.overflowed
      /\ ~b.terminalEmitted /\ ~b.eviction /\ b.generation = g /\ b.count = 0
  BY DEF ObjectType
<1> HIDE DEF b
<1>7. OnTurn(s) = 0 /\ OnTurn(b) = t /\ Held(b) = Held(s) /\ Held(s) = {}
  <2>1. OnTurn(s) = 0
    BY <1>1 DEF OnTurn, NoStop
  <2> QED BY <1>6, <2>1, NoneHeld DEF OnTurn, Held
<1>8. Coherent(b)
  BY <1>1, <1>6, <1>7 DEF Coherent
<1> DEFINE e == Event("started", t)
           r == Emit(b, e, b.generation)
<1>9. e \in Events
  BY EventIsOne
<1>10. /\ r \in ObjectType /\ Coherent(r) /\ Keeps(b, r)
       /\ r.queue = b.queue \/ r.queue = Append(b.queue, e)
  BY <1>5, <1>8, <1>9, EmitKeeps
<1>11. ASSUME s.queue = <<>>
       PROVE  r.queue = <<e>>
  <2>1. ~Full(b)
    <3>1. Len(b.queue) = 0 /\ QueueLimit >= 1 /\ EventLimit >= 1
      BY <1>6, <1>11, RuntimeAssumption
    <3> QED BY <1>6, <3>1, RuntimeAssumption DEF Full
  <2> HIDE DEF e
  <2>2. r.queue = Append(b.queue, e)
    BY <1>5, <1>6, <2>1 DEF Emit, Push, ObjectType
  <2>3. Append(b.queue, e) = <<e>>
    BY <1>6, <1>9, <1>11
  <2> QED BY <2>2, <2>3
<1> QED BY <1>4, <1>6, <1>7, <1>10, <1>11 DEF Keeps

\* The user starts a turn.
LEMMA StartTurnKeeps ==
    ASSUME RuntimeInv, Quiet, NEW i \in Id, StartTurn(i)
    PROVE  RuntimeInv'
<1> DEFINE o == sessions[i]
           s == object[o]
           t == turns + 1
           e == Event("started", t)
           b == Begun(s, t)
           r == Emit(b, e, b.generation)
<1>1. /\ o \in Object /\ s.stage = "open" /\ s.id = i /\ ~s.shut
      /\ ~s.stopping /\ s.turn = 0 /\ Becomes(o, r)
      /\ turns' = t /\ listening' = listening \cup {o} /\ UNCHANGED <<sessions, heard, asks>>
  BY RegisteredIs DEF StartTurn, Begun
<1> HIDE DEF o
<1>2. /\ s \in ObjectType /\ Coherent(s) /\ Tracks(heard[o], s, turns, asks)
      /\ turns \in Nat /\ asks \in Nat /\ heard[o] \in HeardType
  BY <1>1, AtObject
<1>3. heard[o].sound => s.queue = <<>>
  BY <1>1, QuietQueue
<1> HIDE DEF s
<1>4. t \in Nat \ {0} /\ turns <= t /\ turns < t
  BY <1>2
<1>5. Tracks(heard[o], s, t, asks)
  BY <1>2, <1>4, TracksLater
<1> HIDE DEF b, t
<1>6. /\ r \in ObjectType /\ Coherent(r)
      /\ r.stage = s.stage /\ r.id = s.id /\ r.shut = s.shut
      /\ OnTurn(s) = 0 /\ OnTurn(r) = t /\ Held(r) = {}
      /\ r.queue \in {s.queue, Append(s.queue, e)}
      /\ s.queue = <<>> => r.queue = <<e>>
  BY <1>1, <1>2, <1>4, BegunKeeps DEF b
<1>7. e \in Events /\ e.type = "started" /\ e.of = t
  BY <1>4, EventIsOne DEF Event
<1> HIDE DEF r
<1>8. Names(heard[o], r, t, asks)
  <2>1. AllNamed(r.queue, t, asks)
    <3>1. AllNamed(s.queue, t, asks)
      BY <1>5 DEF Tracks, Names
    <3>2. <<e>> \in Seq(Events) /\ s.queue \in Seq(Events) /\ Append(s.queue, e) = s.queue \o <<e>>
      BY <1>2, <1>7 DEF ObjectType
    <3>3. AllNamed(<<e>>, t, asks)
      BY <1>4, <1>7 DEF AllNamed, NamedEvent
    <3>4. AllNamed(s.queue \o <<e>>, t, asks)
      BY <1>2, <1>4, <3>1, <3>2, <3>3, NamedConcat
    <3> QED BY <1>6, <3>1, <3>2, <3>4
  <2> QED BY <1>4, <1>5, <1>6, <2>1 DEF Tracks, Names
<1>9. ASSUME heard[o].sound
      PROVE  Hearable(heard[o], r.queue) /\ Linked(heard[o], r)
  <2>1. s.queue = <<>> /\ Linked(heard[o], s)
    BY <1>1, <1>3, <1>5, <1>9 DEF Tracks
  <2>2. heard[o].current = 0 /\ heard[o].asking = {}
    BY <1>6, <2>1 DEF Linked, Ends
  <2>3. heard[o].last < t
    BY <1>2, <1>4 DEF Tracks, Names, HeardType
  <2>4. r.queue = <<e>>
    BY <1>6, <2>1
  <2>5. Len(r.queue) = 1 /\ r.queue[1] = e
    BY <2>4
  <2>6. Hearable(heard[o], r.queue)
    BY <1>2, <1>4, <1>7, <2>2, <2>3, <2>5 DEF Hearable, Hears1, HeardType
  <2> QED BY <1>4, <1>6, <1>7, <2>2, <2>4, <2>5, <2>6 DEF Linked
<1>10. Tracks(heard[o], r, t, asks)
  BY <1>8, <1>9 DEF Tracks
<1>11. Known' /\ sessions' \in [Id -> Object \cup {NoObject}]
  BY <1>1, <1>6, KnownStill DEF s
<1>12. heard' \in [Object -> HeardType]
  BY <1>1 DEF RuntimeInv, TypeInv
<1>13. Tracks(heard'[o], r, turns', asks') /\ (heard'[o].sound => o \in listening')
  BY <1>1, <1>10
<1>14. turns' \in Nat /\ asks' \in Nat /\ turns <= turns' /\ asks <= asks'
  BY <1>1, <1>2, <1>4
<1>15. \A p \in Object \ {o} : heard'[p] = heard[p] /\ (p \in listening => p \in listening')
  BY <1>1
<1> QED BY <1>1, <1>6, <1>11, <1>12, <1>13, <1>14, <1>15, StepAt

\* A step of the object o that keeps its turn, its permissions and its queue.
LEMMA KeepsStep ==
    ASSUME RuntimeInv, NEW o \in Object, NEW t \in ObjectType, Becomes(o, t), Coherent(t),
           UNCHANGED <<sessions, heard, listening, turns, asks>>,
           Keeps(object[o], t), t.queue = object[o].queue
    PROVE  RuntimeInv'
<1>1. Known' /\ sessions' \in [Id -> Object \cup {NoObject}]
  BY KnownStill DEF Keeps
<1>2. asks' \in Nat /\ asks <= asks'
  BY AtObject
<1>3. /\ t.shut = object[o].shut /\ OnTurn(t) = OnTurn(object[o])
      /\ Held(t) = Held(object[o])
  BY DEF Keeps
<1> QED BY <1>1, <1>2, <1>3, SameStep

\* The user interrupts the turn.
LEMMA InterruptTurnKeeps ==
    ASSUME RuntimeInv, NEW i \in Id, InterruptTurn(i)
    PROVE  RuntimeInv'
<1> DEFINE o == sessions[i]
<1>1. /\ o \in Object /\ object[o].turn # 0 /\ Becomes(o, Interrupted(object[o]))
      /\ UNCHANGED <<sessions, heard, listening, turns, asks>>
  BY RegisteredIs DEF InterruptTurn
<1> HIDE DEF o
<1> DEFINE t == Interrupted(object[o])
<1>2. /\ t \in ObjectType /\ Coherent(t) /\ Keeps(object[o], t)
      /\ t.queue = object[o].queue
  BY <1>1, AtObject, InterruptedKeeps
<1> HIDE DEF t
<1>3. Becomes(o, t)
  BY <1>1 DEF t
<1> QED BY <1>1, <1>2, <1>3, KeepsStep

\* The user decides on a permission; the agent may have no such option.
LEMMA ResolveApprovalKeeps ==
    ASSUME RuntimeInv, Quiet, NEW i \in Id, NEW a \in Nat, ResolveApproval(i, a)
    PROVE  RuntimeInv'
<1> DEFINE o == sessions[i]
           s == object[o]
           n == CHOOSE m \in 1 .. Len(s.pending) : s.pending[m] = a
           t == Resolved(s, n)
           e == Event("expired", a)
           x == <<e>>
           h == heard[o]
           k == [h EXCEPT !.asking = @ \ {a}]
<1>1. /\ o \in Object /\ s.stage = "open" /\ s.id = i /\ ~s.shut
      /\ Contains(s.pending, a) /\ a \in h.asking
      /\ UNCHANGED <<sessions, listening, turns, asks>>
  BY RegisteredIs DEF ResolveApproval
<1>2. n \in 1 .. Len(s.pending) /\ s.pending[n] = a
  BY <1>1 DEF Contains
<1>3. Becomes(o, t) \/ Becomes(o, Push(t, e))
  BY <1>2 DEF ResolveApproval, Resolved
<1>4. heard' = [heard EXCEPT ![o] = k]
  BY DEF ResolveApproval, Decided
<1> HIDE DEF o
<1>5. /\ s \in ObjectType /\ Coherent(s) /\ Tracks(h, s, turns, asks)
      /\ turns \in Nat /\ asks \in Nat /\ h \in HeardType
      /\ heard \in [Object -> HeardType] /\ Follows(o)
  BY <1>1, AtObject DEF RuntimeInv, TypeInv
<1>6. heard[o].sound => s.queue = <<>>
  BY <1>1, QuietQueue
<1>7. heard'[o] = k /\ \A p \in Object \ {o} : heard'[p] = heard[p]
  BY <1>1, <1>4, <1>5
<1> HIDE DEF s, n
<1>8. /\ t \in ObjectType /\ Coherent(t)
      /\ t.stage = s.stage /\ t.id = s.id /\ t.shut = s.shut /\ t.turn = s.turn
      /\ t.stop = s.stop /\ t.queue = s.queue
      /\ Held(t) \subseteq Held(s) /\ Held(s) \ {a} \subseteq Held(t)
  BY <1>2, <1>5, ResolvedKeeps
<1> HIDE DEF h
<1>9. /\ k \in HeardType /\ k.current = h.current /\ k.last = h.last
      /\ k.asking = h.asking \ {a} /\ k.sound = h.sound
  <2>1. PICK left \in SUBSET Nat : left = h.asking \ {a}
    <3>1. h.asking \ {a} \in SUBSET Nat
      BY <1>5 DEF HeardType
    <3> QED BY <3>1
  <2> QED BY <1>5, <2>1 DEF HeardType
<1> HIDE DEF t, k
<1>10. OnTurn(t) = OnTurn(s) /\ OnTurn(s) # 0 /\ a \in 1 .. asks
  <2>1. s.pending # <<>>
    BY <1>2
  <2>2. s.turn # 0
    BY <1>5, <2>1 DEF Coherent
  <2> QED BY <1>1, <1>5, <1>8, <2>2 DEF OnTurn, Tracks, Names
<1>11. h.sound => h.current = OnTurn(s) /\ h.last = h.current
  <2> SUFFICES ASSUME h.sound
               PROVE  h.current = OnTurn(s) /\ h.last = h.current
    OBVIOUS
  <2>1. s.queue = <<>> /\ Hearable(h, s.queue) /\ Linked(h, s)
    BY <1>1, <1>5, <1>6 DEF Tracks, h
  <2>2. s.queue # <<Event("started", OnTurn(s))>>
    BY <2>1
  <2>3. h.current # 0
    BY <1>10, <2>1, <2>2 DEF Linked
  <2> QED BY <1>10, <2>1, <2>2, <2>3 DEF Linked, Hearable
<1>12. ASSUME NEW u \in ObjectType, Coherent(u), Becomes(o, u),
              u.stage = s.stage, u.id = s.id, u.shut = s.shut, OnTurn(u) = OnTurn(s),
              Held(u) = Held(t), NEW q \in Maybe(e), u.queue = s.queue \o q
       PROVE  RuntimeInv'
  <2>1. q \in Seq(Events) /\ ~Ends(q) /\ AllNamed(q, turns, asks)
        /\ \A m \in 1 .. Len(q) : q[m].type = "expired"
    <3>1. e \in Events /\ e.type = "expired" /\ e.of = a
      BY EventIsOne DEF Event
    <3>2. CASE q = <<>>
      BY <3>2 DEF Ends, AllNamed
    <3>3. CASE q = <<e>>
      <4> HIDE DEF e
      <4> QED BY <1>10, <3>1, <3>3 DEF Ends, AllNamed, NamedEvent
    <3> QED BY <3>2, <3>3 DEF Maybe
  <2>2. s.queue \in Seq(Events)
    BY <1>5 DEF ObjectType
  <2>3. AllNamed(u.queue, turns, asks)
    BY <1>5, <1>12, <2>1, <2>2, NamedConcat DEF Tracks, Names
  <2>4. Names(k, u, turns, asks)
    BY <1>5, <1>8, <1>9, <1>12, <2>3 DEF Tracks, Names
  <2>5. ASSUME h.sound
        PROVE  Hearable(k, u.queue) /\ Linked(k, u)
    <3>1. s.queue = <<>> /\ Linked(h, s)
      BY <1>1, <1>5, <1>6, <2>5 DEF Tracks, h
    <3>2. u.queue = q
      BY <1>12, <2>1, <3>1, ConcatEmptySeq
    <3>3. \A b : ~Expires(s.queue, Len(s.queue) + 1, b)
      BY <3>1 DEF Expires
    <3>4. h.asking \subseteq Held(s)
      BY <3>1, <3>3 DEF Linked
    <3>5. k.asking \subseteq Held(u)
      BY <1>8, <1>9, <1>12, <3>4
    <3>6. Hearable(k, u.queue)
      BY <1>9, <1>11, <2>1, <2>5, <3>2 DEF Hearable, Hears1
    <3> QED BY <1>9, <1>10, <1>11, <1>12, <2>1, <2>5, <3>2, <3>5, <3>6 DEF Linked
  <2>6. Tracks(k, u, turns, asks)
    BY <1>9, <2>4, <2>5 DEF Tracks
  <2>7. heard' \in [Object -> HeardType]
    BY <1>4, <1>5, <1>9
  <2>8. Known' /\ sessions' \in [Id -> Object \cup {NoObject}]
    BY <1>1, <1>12, KnownStill DEF s
  <2>9. heard'[o].sound => u.shut \/ o \in listening' \/ Idle(u)
    BY <1>1, <1>5, <1>7, <1>9, <1>10 DEF Follows, Idle, h, s
  <2>10. turns' \in Nat /\ asks' \in Nat /\ turns <= turns' /\ asks <= asks'
    BY <1>1, <1>5
  <2>11. \A p \in Object \ {o} : heard'[p] = heard[p] /\ (p \in listening => p \in listening')
    BY <1>1, <1>7
  <2>12. Tracks(heard'[o], u, turns', asks')
    BY <1>1, <1>7, <2>6
  <2> QED BY <1>1, <1>12, <2>7, <2>8, <2>9, <2>10, <2>11, <2>12, StepAt
<1>13. CASE Becomes(o, t)
  <2>1. <<>> \in Maybe(e) /\ t.queue = s.queue \o <<>>
    BY <1>5, <1>8 DEF Maybe, ObjectType
  <2> QED BY <1>8, <1>10, <1>12, <1>13, <2>1
<1>14. CASE Becomes(o, Push(t, e))
  <2>1. PICK q \in Seq(Events) : q = s.queue \o <<e>>
    <3>1. e \in Events /\ s.queue \in Seq(Events)
      BY <1>5, EventIsOne DEF ObjectType
    <3> HIDE DEF e
    <3>2. <<e>> \in Seq(Events)
      BY <3>1
    <3> QED BY <3>1, <3>2, ConcatProperties
  <2> DEFINE u == [t EXCEPT !.queue = q]
  <2>2. Push(t, e) = u
    <3>1. e \in Events
      BY EventIsOne
    <3>2. Append(t.queue, e) = q
      BY <1>5, <1>8, <2>1, <3>1 DEF ObjectType
    <3> HIDE DEF e
    <3> QED BY <1>1, <1>8, <3>2 DEF Push
  <2>3. u \in ObjectType
    BY <1>8 DEF ObjectType
  <2>4. /\ u.stage = t.stage /\ u.id = t.id /\ u.shut = t.shut /\ u.turn = t.turn
        /\ u.stop = t.stop /\ u.queue = q /\ u.pending = t.pending
        /\ u.unanswered = t.unanswered /\ u.stopping = t.stopping
        /\ u.overflowed = t.overflowed /\ u.terminalEmitted = t.terminalEmitted
        /\ u.prompts = t.prompts /\ u.eviction = t.eviction
    BY <1>8 DEF ObjectType
  <2>5. Becomes(o, u)
    BY <1>14, <2>2
  <2> HIDE DEF u
  <2>6. Held(u) = Held(t) /\ OnTurn(u) = OnTurn(t)
    BY <2>4 DEF Held, OnTurn
  <2>7. Coherent(u)
    BY <1>8, <2>4, <2>6 DEF Coherent
  <2>8. <<e>> \in Maybe(e)
    BY DEF Maybe
  <2> QED BY <1>8, <1>10, <1>12, <2>1, <2>3, <2>4, <2>5, <2>6, <2>7, <2>8
<1> QED BY <1>3, <1>13, <1>14

\* An object that leaves the map leaves no name behind.
LEMMA UnregisterKeeps ==
    ASSUME RuntimeInv, NEW o \in Object, NEW t \in ObjectType, Becomes(o, t),
           sessions' = Unregister(o)
    PROVE  Known' /\ sessions' \in [Id -> Object \cup {NoObject}]
<1>1. /\ sessions \in [Id -> Object \cup {NoObject}] /\ object \in [Object -> ObjectType]
      /\ object' = [object EXCEPT ![o] = t]
  BY DEF RuntimeInv, TypeInv, Becomes
<1>2. sessions' \in [Id -> Object \cup {NoObject}]
  BY <1>1 DEF Unregister
<1>3. ASSUME NEW j \in Id, sessions'[j] # NoObject
      PROVE  object'[sessions'[j]].stage = "open" /\ object'[sessions'[j]].id = j
  <2>1. sessions'[j] = sessions[j]
    BY <1>1, <1>3 DEF Unregister, Registers
  <2>2. sessions[j] \in Object /\ object[sessions[j]].stage = "open" /\ object[sessions[j]].id = j
    BY <1>1, <1>3, <2>1 DEF RuntimeInv, Known
  <2>3. sessions[j] # o
    <3> SUFFICES ASSUME sessions[j] = o
                 PROVE  FALSE
      OBVIOUS
    <3>1. object[o].id = j /\ Registers(o)
      BY <2>2 DEF Registers
    <3> QED BY <1>1, <1>3, <3>1 DEF Unregister
  <2>4. object'[sessions[j]] = object[sessions[j]]
    BY <1>1, <2>2, <2>3
  <2> QED BY <2>1, <2>2, <2>4
<1> QED BY <1>2, <1>3 DEF Known

\* The events of #stopTurn end the turn.
LEMMA StopContinues ==
    ASSUME NEW turn \in Nat, NEW ask \in Nat, NEW h \in HeardType, NEW s \in ObjectType,
           NEW t \in ObjectType, Coherent(s), s.stop # NoStop, Names(h, s, turn, ask),
           OnTurn(t) = 0
    PROVE  /\ OnTurn(s) # 0 /\ AllNamed(StopEvents(s), turn, ask)
           /\ Continues(s, t, StopEvents(s))
<1> DEFINE p == s.stop.expired
           ended == Event("ended", s.stop.turn)
           x == StopEvents(s)
           ex == Expiries(p)
<1>1. s.turn = 0 /\ s.pending = <<>> /\ s.stop.turn # 0
  BY DEF Coherent
<1>2. OnTurn(s) = s.stop.turn /\ OnTurn(s) # 0
  BY <1>1 DEF OnTurn
<1>3. p \in Seq(Nat) /\ s.stop.turn \in Nat /\ Len(p) \in Nat
  BY SMTT(30) DEF ObjectType, Stops
<1>4. Held(s) = {a \in Nat : Contains(p, a)}
  BY <1>1 DEF Held, Contains
<1>5. ended \in Events /\ ended.type = "ended" /\ ended.of = OnTurn(s)
  BY <1>2, <1>3, EventIsOne DEF Event
<1> HIDE DEF p
<1>6. /\ ex \in Seq(Events) /\ Len(ex) = Len(p)
      /\ \A n \in 1 .. Len(p) : ex[n] = Event("expired", p[n])
  BY <1>3, ExpiriesAre
<1>7. x = Append(ex, ended)
  BY DEF StopEvents, p
<1>8. ended = Event("ended", OnTurn(s))
  BY <1>2
<1> HIDE DEF x, ex, ended
<1>9. /\ Len(x) = Len(p) + 1 /\ x[Len(x)] = ended /\ x \in Seq(Events)
      /\ \A n \in 1 .. Len(p) : x[n] = Event("expired", p[n])
  BY <1>3, <1>5, <1>6, <1>7
<1>10. \A n \in 1 .. Len(x) : n \in 1 .. Len(p) \/ n = Len(x)
  BY <1>3, <1>9
<1>11. \A n \in 1 .. Len(p) : p[n] \in 1 .. ask
  <2> TAKE n \in 1 .. Len(p)
  <2>1. p[n] \in Nat
    BY <1>3, ElementOfSeq
  <2>2. p[n] \in Held(s)
    BY <1>4, <2>1 DEF Contains
  <2> QED BY <2>2 DEF Names
<1>12. OnTurn(s) <= turn
  BY DEF Names
<1>13. ASSUME NEW n \in 1 .. Len(x)
       PROVE  NamedEvent(x[n], turn, ask)
  <2>1. CASE n \in 1 .. Len(p)
    <3>1. x[n] = Event("expired", p[n])
      BY <1>9, <2>1
    <3> QED BY <1>11, <2>1, <3>1 DEF NamedEvent, Event
  <2>2. CASE n = Len(x)
    BY <1>5, <1>9, <1>12, <2>2 DEF NamedEvent
  <2> QED BY <1>10, <2>1, <2>2
<1>14. ASSUME NEW n \in 1 .. Len(x)
       PROVE  \/ x[n].type = "expired"
              \/ x[n] = Event("update", OnTurn(s))
              \/ n = Len(x) /\ x[n] = Event("ended", OnTurn(s)) /\ OnTurn(t) = 0
  <2>1. CASE n \in 1 .. Len(p)
    <3>1. x[n] = Event("expired", p[n])
      BY <1>9, <2>1
    <3> QED BY <3>1 DEF Event
  <2>2. CASE n = Len(x)
    BY <1>8, <1>9, <2>2
  <2> QED BY <1>10, <2>1, <2>2
<1>15. Ends(x)
  <2>1. x # <<>>
    BY <1>3, <1>9
  <2> QED BY <1>5, <1>9, <2>1 DEF Ends
<1>16. ASSUME NEW a \in Held(s)
       PROVE  Expires(x, Len(x) + 1, a)
  <2>1. PICK n \in 1 .. Len(p) : p[n] = a
    BY <1>4 DEF Contains
  <2>2. n \in 1 .. Len(x) /\ n < Len(x) + 1 /\ x[n] = Event("expired", a)
    BY <1>3, <1>9, <2>1
  <2> QED BY <2>2 DEF Expires
<1>17. Continues(s, t, x)
  BY <1>14, <1>15, <1>16 DEF Continues
<1> QED BY <1>2, <1>13, <1>17 DEF AllNamed, x

\* The stop of a turn ends.
LEMMA StopEndsKeeps ==
    ASSUME RuntimeInv, Quiet, NEW o \in Object, StopEnds(o)
    PROVE  RuntimeInv'
<1> DEFINE s == object[o]
           t == EndStop(s)
           h == heard[o]
           x == StopEvents(s)
           kept == IF s.stop.replace THEN <<>> ELSE s.queue
<1>1. /\ s.stop # NoStop /\ Becomes(o, t) /\ sessions' = Unregister(o)
      /\ UNCHANGED <<heard, listening, turns, asks>>
  BY DEF StopEnds
<1>2. /\ s \in ObjectType /\ Coherent(s) /\ Tracks(h, s, turns, asks)
      /\ turns \in Nat /\ asks \in Nat /\ h \in HeardType /\ Follows(o)
  BY AtObject
<1>3. h.sound /\ ~s.shut => s.queue = <<>>
  BY QuietQueue
<1> HIDE DEF s
<1>4. /\ t \in ObjectType /\ Coherent(t) /\ t.shut = s.shut
      /\ OnTurn(t) = 0 /\ Held(t) = {}
      /\ t.queue = IF s.shut THEN kept ELSE kept \o x
  BY <1>1, <1>2, EndStopKeeps
<1>5. /\ OnTurn(s) # 0 /\ AllNamed(x, turns, asks)
      /\ Continues(s, t, x) /\ x \in Seq(Events)
  BY <1>1, <1>2, <1>4, StopContinues, StopEventsAre DEF Tracks
<1> HIDE DEF h, x, t
<1>6. kept \in Seq(Events) /\ AllNamed(kept, turns, asks)
  <2>1. CASE s.stop.replace
    BY <2>1, EmptySeq DEF AllNamed
  <2>2. CASE ~s.stop.replace
    BY <1>2, <2>2 DEF Tracks, Names, ObjectType
  <2> QED BY <2>1, <2>2
<1>7. ASSUME h.sound
      PROVE  Hearable(h, t.queue) /\ (t.shut \/ Linked(h, t))
  <2>1. Hearable(h, s.queue) /\ (s.shut \/ Linked(h, s))
    BY <1>2, <1>7 DEF Tracks
  <2>2. CASE s.shut
    <3>1. t.queue = <<>> \/ t.queue = s.queue
      BY <1>4, <2>2
    <3>2. Hearable(h, <<>>)
      BY <2>1 DEF Hearable
    <3> QED BY <1>4, <2>1, <2>2, <3>1, <3>2
  <2>3. CASE ~s.shut
    <3>1. s.queue = <<>> /\ kept = <<>>
      BY <1>3, <1>7, <2>3
    <3>2. t.queue = x
      BY <1>4, <1>5, <2>3, <3>1, ConcatEmptySeq
    <3> HIDE DEF kept
    <3> QED BY <1>2, <1>4, <1>5, <2>1, <2>3, <3>1, <3>2, ContinuesTracks
  <2> QED BY <2>2, <2>3
<1> HIDE DEF kept
<1>8. Names(h, t, turns, asks)
  <2>1. AllNamed(t.queue, turns, asks)
    BY <1>2, <1>4, <1>5, <1>6, NamedConcat
  <2> QED BY <1>2, <1>4, <2>1 DEF Tracks, Names
<1>9. Tracks(h, t, turns, asks)
  BY <1>7, <1>8 DEF Tracks
<1>10. Becomes(o, t)
  BY <1>1 DEF t
<1>11. Known' /\ sessions' \in [Id -> Object \cup {NoObject}]
  BY <1>1, <1>4, <1>10, UnregisterKeeps
<1>12. heard' \in [Object -> HeardType]
  BY <1>1 DEF RuntimeInv, TypeInv
<1>13. heard'[o].sound => t.shut \/ o \in listening' \/ Idle(t)
  BY <1>1, <1>2, <1>4, <1>5 DEF Follows, Idle, s
<1>14. /\ turns' \in Nat /\ asks' \in Nat /\ turns <= turns' /\ asks <= asks'
       /\ Tracks(heard'[o], t, turns', asks')
       /\ \A p \in Object \ {o} : heard'[p] = heard[p] /\ (p \in listening => p \in listening')
  BY <1>1, <1>2, <1>9 DEF h
<1> QED BY <1>4, <1>10, <1>11, <1>12, <1>13, <1>14, StepAt

\* The eviction timer.
LEMMA EvictKeeps ==
    ASSUME RuntimeInv, NEW o \in Object, Evict(o)
    PROVE  RuntimeInv'
<1> DEFINE s == object[o]
<1>1. /\ s.eviction /\ UNCHANGED <<heard, listening, turns, asks>>
      /\ \/ Becomes(o, Shut(s)) /\ sessions' = Unregister(o)
         \/ Becomes(o, [s EXCEPT !.eviction = FALSE]) /\ UNCHANGED sessions
  BY DEF Evict, Shut
<1>2. /\ s \in ObjectType /\ Coherent(s) /\ Tracks(heard[o], s, turns, asks)
      /\ turns \in Nat /\ asks \in Nat
  BY AtObject
<1> HIDE DEF s
<1>3. s.pending = <<>>
  BY <1>1, <1>2 DEF Coherent
<1>4. CASE Becomes(o, Shut(s)) /\ sessions' = Unregister(o)
  <2> DEFINE t == Shut(s)
  <2>1. /\ t \in ObjectType /\ Coherent(t)
        /\ t.shut /\ t.turn = s.turn /\ t.stop = s.stop
        /\ Held(t) = Held(s) /\ t.queue = s.queue
    BY <1>2, <1>3, ShutKeeps
  <2>2. Becomes(o, t)
    BY <1>4
  <2> HIDE DEF t
  <2>3. Tracks(heard[o], t, turns, asks)
    BY <1>2, <2>1, ShutTracks DEF OnTurn
  <2>4. Known' /\ sessions' \in [Id -> Object \cup {NoObject}]
    BY <1>4, <2>1, <2>2, UnregisterKeeps
  <2>5. heard' \in [Object -> HeardType]
    BY <1>1 DEF RuntimeInv, TypeInv
  <2>6. /\ turns' \in Nat /\ asks' \in Nat /\ turns <= turns' /\ asks <= asks'
        /\ Tracks(heard'[o], t, turns', asks')
        /\ \A p \in Object \ {o} : heard'[p] = heard[p] /\ (p \in listening => p \in listening')
    BY <1>1, <1>2, <2>3
  <2> QED BY <2>1, <2>2, <2>4, <2>5, <2>6, StepAt
<1>5. CASE Becomes(o, [s EXCEPT !.eviction = FALSE]) /\ UNCHANGED sessions
  <2> DEFINE t == [s EXCEPT !.eviction = FALSE]
  <2>1. /\ t \in ObjectType /\ t.stage = s.stage /\ t.id = s.id /\ t.shut = s.shut
        /\ t.turn = s.turn /\ t.stop = s.stop /\ t.queue = s.queue /\ t.pending = s.pending
        /\ t.unanswered = s.unanswered /\ t.terminalEmitted = s.terminalEmitted
        /\ t.stopping = s.stopping /\ t.overflowed = s.overflowed
        /\ t.prompts = s.prompts /\ ~t.eviction
    BY <1>2 DEF ObjectType
  <2>2. Becomes(o, t)
    BY <1>5
  <2> HIDE DEF t
  <2>3. Held(t) = Held(s) /\ OnTurn(t) = OnTurn(s)
    BY <2>1 DEF Held, OnTurn
  <2>4. Coherent(t)
    BY <1>2, <2>1, <2>3 DEF Coherent
  <2>5. Keeps(s, t)
    BY <2>1, <2>3 DEF Keeps
  <2> QED BY <1>1, <1>5, <2>1, <2>2, <2>4, <2>5, KeepsStep DEF s
<1> QED BY <1>1, <1>4, <1>5

\* The object s as the shutdown of the runtime leaves it.
Down(s) == Shut(CancelPermissions([s EXCEPT !.generation = @ + 1]))

\* The session of an agent that is gone is shut, and what was heard of it stays in order.
LEMMA DownKeeps ==
    ASSUME NEW turn \in Nat, NEW ask \in Nat, NEW h \in HeardType, NEW s \in ObjectType,
           Coherent(s), Tracks(h, s, turn, ask), h.sound => s.queue = <<>>
    PROVE  LET t == Down(s)
           IN  t \in ObjectType /\ Coherent(t) /\ t.shut /\ Tracks(h, t, turn, ask)
<1>1. PICK g \in Nat : g = s.generation + 1
  BY DEF ObjectType
<1> DEFINE b == [s EXCEPT !.generation = g]
           c == CancelPermissions(b)
           t == Shut(c)
<1>2. Down(s) = t
  BY <1>1 DEF Down
<1>3. /\ b \in ObjectType /\ b.stage = s.stage /\ b.id = s.id /\ b.shut = s.shut
      /\ b.turn = s.turn /\ b.stop = s.stop /\ b.queue = s.queue /\ b.pending = s.pending
      /\ b.unanswered = s.unanswered /\ b.terminalEmitted = s.terminalEmitted
      /\ b.stopping = s.stopping /\ b.overflowed = s.overflowed
      /\ b.prompts = s.prompts /\ b.eviction = s.eviction
  BY DEF ObjectType
<1> HIDE DEF b
<1>4. Held(b) = Held(s) /\ OnTurn(b) = OnTurn(s)
  BY <1>3 DEF Held, OnTurn
<1>5. Coherent(b)
  BY <1>3, <1>4 DEF Coherent
<1>6. Cancelled(b, c)
  BY <1>3, <1>5, CancelPermissionsKeeps
<1> HIDE DEF c
<1>7. /\ t \in ObjectType /\ Coherent(t) /\ t.shut /\ t.turn = c.turn /\ t.stop = c.stop
      /\ Held(t) = Held(c) /\ t.queue = c.queue
  BY <1>6, ShutKeeps DEF Cancelled
<1> HIDE DEF t
<1>8. OnTurn(t) = OnTurn(s) /\ Held(t) \subseteq Held(s)
  BY <1>4, <1>6, <1>7 DEF Cancelled, OnTurn
<1>9. PICK n \in 0 .. Len(s.pending) : t.queue = s.queue \o Expiries(SubSeq(s.pending, 1, n))
  BY <1>3, <1>6, <1>7 DEF Cancelled
<1> DEFINE first == SubSeq(s.pending, 1, n)
           x == Expiries(first)
<1>10. /\ first \in Seq(Nat) /\ Len(first) = n /\ n \in Nat
       /\ \A k \in 1 .. n : first[k] \in Held(s)
  <2>1. s.pending \in Seq(Nat) /\ Len(s.pending) \in Nat
    BY DEF ObjectType
  <2>2. \A k \in 1 .. Len(s.pending) : s.pending[k] \in Nat
    BY <2>1, ElementOfSeq
  <2>3. /\ first \in Seq(Nat) /\ Len(first) = n /\ n \in Nat
        /\ \A k \in 1 .. n : first[k] = s.pending[k]
    BY <2>1, <2>2, SubSeqProperties
  <2> HIDE DEF first
  <2>4. \A k \in 1 .. n : s.pending[k] \in Held(s)
    BY <2>1, <2>2, <2>3 DEF Held, Contains
  <2> QED BY <2>3, <2>4
<1>11. t.queue = s.queue \o x
  BY <1>9
<1> HIDE DEF first
<1>12. /\ x \in Seq(Events) /\ Len(x) = n
       /\ \A k \in 1 .. n : x[k] = Event("expired", first[k])
  BY <1>10, ExpiriesAre
<1> HIDE DEF x
<1>13. AllNamed(x, turn, ask)
  BY <1>10, <1>12 DEF AllNamed, NamedEvent, Event, Tracks, Names
<1>14. s.queue \in Seq(Events) /\ AllNamed(s.queue, turn, ask)
  BY DEF ObjectType, Tracks, Names
<1>15. Names(h, t, turn, ask)
  <2>1. AllNamed(t.queue, turn, ask)
    BY <1>11, <1>12, <1>13, <1>14, NamedConcat
  <2> QED BY <1>8, <2>1 DEF Tracks, Names
<1>16. ASSUME h.sound
       PROVE  Hearable(h, t.queue)
  <2>1. t.queue = x /\ Hearable(h, s.queue)
    BY <1>11, <1>12, <1>16, ConcatEmptySeq DEF Tracks
  <2>2. \A k \in 1 .. n : x[k].type = "expired"
    BY <1>12 DEF Event
  <2> QED BY <1>12, <2>1, <2>2 DEF Hearable, Hears1
<1> QED BY <1>2, <1>7, <1>15, <1>16 DEF Tracks

\* The runtime is closed.
LEMMA CloseKeeps ==
    ASSUME RuntimeInv, Quiet, Close
    PROVE  RuntimeInv'
<1> DEFINE open == {o \in Object : Registers(o)}
<1>1. /\ sessions' = [i \in Id |-> NoObject]
      /\ object' = [o \in Object |-> IF o \in open THEN Down(object[o]) ELSE object[o]]
      /\ UNCHANGED <<heard, listening, turns, asks>>
  BY DEF Close, Down, Shut
<1>2. ASSUME NEW o \in Object
      PROVE  object'[o] \in ObjectType /\ Coherent(object'[o]) /\ Follows(o)'
  <2>1. /\ object[o] \in ObjectType /\ Coherent(object[o]) /\ heard[o] \in HeardType
        /\ Follows(o) /\ Tracks(heard[o], object[o], turns, asks)
        /\ turns \in Nat /\ asks \in Nat
    BY AtObject
  <2>2. CASE o \in open
    <3>1. ~object[o].shut
      <4>1. object[o].id \in Id /\ sessions[object[o].id] = o /\ o # NoObject
        BY <2>2, RuntimeAssumption DEF Registers
      <4> QED BY <4>1, RegisteredIs
    <3>2. heard[o].sound => object[o].queue = <<>>
      BY <3>1, QuietQueue
    <3> DEFINE t == Down(object[o])
    <3>3. t \in ObjectType /\ Coherent(t) /\ t.shut /\ Tracks(heard[o], t, turns, asks)
      BY <2>1, <3>2, DownKeeps
    <3>4. object'[o] = t
      BY <1>1, <2>2
    <3> HIDE DEF t
    <3> QED BY <1>1, <3>3, <3>4 DEF Follows
  <2>3. CASE o \notin open
    <3>1. object'[o] = object[o]
      BY <1>1, <2>3
    <3> QED BY <1>1, <2>1, <3>1 DEF Follows
  <2> QED BY <2>2, <2>3
<1> HIDE DEF open
<1>3. object' \in [Object -> ObjectType]
  BY <1>1, <1>2
<1>4. sessions' \in [Id -> Object \cup {NoObject}] /\ Known'
  BY <1>1 DEF Known
<1>5. TypeInv'
  BY <1>1, <1>3, <1>4 DEF TypeInv, RuntimeInv
<1> QED BY <1>2, <1>4, <1>5 DEF RuntimeInv, CoherentInv, FollowsInv

\* The object s once the first event is taken out of its queue.
Taken(s) == [s EXCEPT !.queue = Tail(@)]

\* An event taken from the queue leaves the turn and the permissions alone.
LEMMA TakenKeeps ==
    ASSUME NEW s \in ObjectType, Coherent(s), s.queue # <<>>
    PROVE  LET t == Taken(s)
           IN  /\ t \in ObjectType /\ Coherent(t) /\ t.queue = Tail(s.queue)
               /\ t.stage = s.stage /\ t.id = s.id /\ t.shut = s.shut
               /\ t.turn = s.turn /\ t.stop = s.stop /\ t.pending = s.pending
               /\ Held(t) = Held(s) /\ OnTurn(t) = OnTurn(s)
<1>1. PICK q \in Seq(Events) : q = Tail(s.queue)
  <2>1. Tail(s.queue) \in Seq(Events)
    BY DEF ObjectType
  <2> QED BY <2>1
<1> DEFINE t == [s EXCEPT !.queue = q]
<1>2. Taken(s) = t
  BY <1>1 DEF Taken
<1>3. /\ t \in ObjectType /\ t.stage = s.stage /\ t.id = s.id /\ t.shut = s.shut
      /\ t.turn = s.turn /\ t.stop = s.stop /\ t.queue = q /\ t.pending = s.pending
      /\ t.unanswered = s.unanswered /\ t.terminalEmitted = s.terminalEmitted
      /\ t.stopping = s.stopping /\ t.overflowed = s.overflowed
      /\ t.prompts = s.prompts /\ t.eviction = s.eviction
  BY DEF ObjectType
<1> HIDE DEF t
<1>4. Held(t) = Held(s) /\ OnTurn(t) = OnTurn(s)
  BY <1>3 DEF Held, OnTurn
<1>5. Coherent(t)
  BY <1>3, <1>4 DEF Coherent
<1> QED BY <1>1, <1>2, <1>3, <1>4, <1>5

\* A loop persists an event.
LEMMA PersistKeeps ==
    ASSUME RuntimeInv, NEW o \in Object, Persist(o)
    PROVE  RuntimeInv'
<1> DEFINE s == object[o]
           t == Taken(s)
           h == heard[o]
           e == Head(s.queue)
           k == IF h.sound THEN Hears(h, e) ELSE h
<1>1. /\ o \in listening /\ s.queue # <<>> /\ Becomes(o, t)
      /\ heard' = [heard EXCEPT ![o] = k]
      /\ listening' = IF e.type = "ended" THEN listening \ {o} ELSE listening
      /\ UNCHANGED <<sessions, turns, asks>>
  BY DEF Persist, Taken
<1>2. /\ s \in ObjectType /\ Coherent(s) /\ Tracks(h, s, turns, asks)
      /\ turns \in Nat /\ asks \in Nat /\ h \in HeardType
      /\ heard \in [Object -> HeardType]
  BY AtObject DEF RuntimeInv, TypeInv
<1>3. /\ t \in ObjectType /\ Coherent(t) /\ t.queue = Tail(s.queue)
      /\ t.stage = s.stage /\ t.id = s.id /\ t.shut = s.shut
      /\ t.turn = s.turn /\ t.stop = s.stop /\ t.pending = s.pending
  BY <1>1, <1>2, TakenKeeps
<1> HIDE DEF s, t, h
<1>4. /\ k \in HeardType /\ k.sound = h.sound /\ Tracks(k, t, turns, asks)
      /\ h.sound /\ e.type = "ended" => s.shut \/ Idle(t)
  BY <1>1, <1>2, <1>3, PersistTracks
<1> HIDE DEF k
<1>5. heard' \in [Object -> HeardType] /\ heard'[o] = k
      /\ \A p \in Object \ {o} : heard'[p] = heard[p]
  BY <1>1, <1>2, <1>4
<1>6. Known' /\ sessions' \in [Id -> Object \cup {NoObject}]
  BY <1>1, <1>3, KnownStill DEF s
<1>7. heard'[o].sound => t.shut \/ o \in listening' \/ Idle(t)
  BY <1>1, <1>3, <1>4, <1>5
<1>8. /\ turns' \in Nat /\ asks' \in Nat /\ turns <= turns' /\ asks <= asks'
      /\ Tracks(heard'[o], t, turns', asks')
  BY <1>1, <1>2, <1>4, <1>5
<1>9. \A p \in Object \ {o} : heard'[p] = heard[p] /\ (p \in listening => p \in listening')
  BY <1>1, <1>5
<1> QED BY <1>1, <1>3, <1>5, <1>6, <1>7, <1>8, <1>9, StepAt

\* An event cannot be persisted.
LEMMA PersistFailsKeeps ==
    ASSUME RuntimeInv, NEW o \in Object, PersistFails(o)
    PROVE  RuntimeInv'
<1> DEFINE s == object[o]
           t == Taken(s)
           h == heard[o]
           k == [h EXCEPT !.sound = FALSE]
<1>1. /\ s.queue # <<>> /\ heard' = [heard EXCEPT ![o] = k]
      /\ Becomes(o, IF Registers(o) /\ t.turn # 0 THEN Interrupted(t) ELSE t)
      /\ listening' = listening \ {o} /\ UNCHANGED <<sessions, turns, asks>>
  BY DEF PersistFails, Taken
<1>2. /\ s \in ObjectType /\ Coherent(s) /\ Tracks(h, s, turns, asks)
      /\ turns \in Nat /\ asks \in Nat /\ h \in HeardType
      /\ heard \in [Object -> HeardType]
  BY AtObject DEF RuntimeInv, TypeInv
<1>3. /\ t \in ObjectType /\ Coherent(t) /\ t.queue = Tail(s.queue)
      /\ t.stage = s.stage /\ t.id = s.id /\ t.shut = s.shut
      /\ Held(t) = Held(s) /\ OnTurn(t) = OnTurn(s)
  BY <1>1, <1>2, TakenKeeps
<1> HIDE DEF s, t, h
<1>4. /\ k \in HeardType /\ ~k.sound /\ k.last = h.last /\ k.current = h.current
      /\ k.asking = h.asking
  BY <1>2 DEF HeardType
<1> HIDE DEF k
<1>5. PICK u : /\ u \in ObjectType /\ Coherent(u) /\ Becomes(o, u) /\ u.queue = t.queue
               /\ u.stage = t.stage /\ u.id = t.id
               /\ Held(u) = Held(t) /\ OnTurn(u) = OnTurn(t)
  <2>1. CASE Registers(o) /\ t.turn # 0
    <3> DEFINE u == Interrupted(t)
    <3>1. u \in ObjectType /\ Coherent(u) /\ Keeps(t, u) /\ u.queue = t.queue
      BY <1>3, <2>1, InterruptedKeeps
    <3>2. Becomes(o, u)
      BY <1>1, <2>1
    <3> HIDE DEF u
    <3> QED BY <3>1, <3>2 DEF Keeps
  <2>2. CASE ~(Registers(o) /\ t.turn # 0)
    <3>1. Becomes(o, t)
      BY <1>1, <2>2
    <3> QED BY <1>3, <3>1
  <2> QED BY <2>1, <2>2
<1>6. AllNamed(Tail(s.queue), turns, asks)
  <2> DEFINE q == s.queue
  <2>1. q \in Seq(Events) /\ q # <<>> /\ AllNamed(q, turns, asks)
    BY <1>1, <1>2 DEF ObjectType, Tracks, Names
  <2> HIDE DEF q
  <2>2. /\ Len(Tail(q)) = Len(q) - 1 /\ Len(q) \in Nat
        /\ \A n \in 1 .. Len(Tail(q)) : Tail(q)[n] = q[n + 1]
    BY <2>1, HeadTailProperties
  <2>3. AllNamed(Tail(q), turns, asks)
    <3> SUFFICES ASSUME NEW n \in 1 .. Len(Tail(q))
                 PROVE  NamedEvent(Tail(q)[n], turns, asks)
      BY DEF AllNamed
    <3>1. n + 1 \in 1 .. Len(q)
      BY <2>2
    <3> QED BY <2>1, <2>2, <3>1 DEF AllNamed
  <2> QED BY <2>3 DEF q
<1>7. Tracks(k, u, turns, asks)
  BY <1>2, <1>3, <1>4, <1>5, <1>6 DEF Tracks, Names
<1>8. heard' \in [Object -> HeardType] /\ heard'[o] = k
      /\ \A p \in Object \ {o} : heard'[p] = heard[p]
  BY <1>1, <1>2, <1>4
<1>9. Known' /\ sessions' \in [Id -> Object \cup {NoObject}]
  BY <1>1, <1>3, <1>5, KnownStill DEF s
<1>10. ~heard'[o].sound
  BY <1>4, <1>8
<1>11. /\ turns' \in Nat /\ asks' \in Nat /\ turns <= turns' /\ asks <= asks'
       /\ Tracks(heard'[o], u, turns', asks')
  BY <1>1, <1>2, <1>7, <1>8
<1>12. \A p \in Object \ {o} : heard'[p] = heard[p] /\ (p \in listening => p \in listening')
  BY <1>1, <1>8
<1> QED BY <1>5, <1>8, <1>9, <1>10, <1>11, <1>12, StepAt

\* A loop finds its stream closed and empty.
LEMMA StreamEndsKeeps ==
    ASSUME RuntimeInv, NEW o \in Object, StreamEnds(o)
    PROVE  RuntimeInv'
<1>1. /\ object[o].shut /\ listening' = listening \ {o}
      /\ UNCHANGED <<sessions, object, heard, turns, asks>>
  BY DEF StreamEnds
<1>2. ASSUME NEW p \in Object
      PROVE  Follows(p)'
  BY <1>1, AtObject DEF Follows
<1>3. TypeInv' /\ CoherentInv' /\ Known'
  BY <1>1 DEF RuntimeInv, TypeInv, CoherentInv, Known
<1> QED BY <1>2, <1>3 DEF RuntimeInv, FollowsInv

\* The invariant holds at the start.
LEMMA RuntimeInit ==
    ASSUME Init
    PROVE  RuntimeInv
<1>1. NoStop \in Stops /\ <<>> \in Seq(Events)
  BY EmptyIsSeq, EmptySeq DEF NoStop, Stops
<1>2. Fresh \in ObjectType
  BY <1>1, EmptyIsSeq DEF Fresh, ObjectType, Stage
<1>3. Held(Fresh) = {} /\ OnTurn(Fresh) = 0
  BY DEF Held, OnTurn, Fresh, NoStop, Contains
<1>4. Coherent(Fresh)
  BY <1>3 DEF Coherent, Fresh
<1> DEFINE h == [current |-> 0, last |-> 0, asking |-> {}, sound |-> TRUE]
<1>5. h \in HeardType /\ h.current = 0 /\ h.last = 0 /\ h.asking = {} /\ h.sound
  BY DEF HeardType
<1> HIDE DEF h
<1>6. Fresh.queue = <<>> /\ ~Fresh.shut
  BY DEF Fresh
<1>7. Tracks(h, Fresh, 0, 0) /\ Idle(Fresh)
  <2>1. Names(h, Fresh, 0, 0)
    BY <1>3, <1>5, <1>6 DEF Names, AllNamed
  <2>2. Hearable(h, Fresh.queue)
    BY <1>5, <1>6 DEF Hearable
  <2>3. Linked(h, Fresh)
    BY <1>3, <1>5, <1>6 DEF Linked
  <2> QED BY <1>3, <1>6, <2>1, <2>2, <2>3 DEF Tracks, Idle
<1>8. /\ sessions = [i \in Id |-> NoObject] /\ object = [o \in Object |-> Fresh]
      /\ heard = [o \in Object |-> h] /\ turns = 0 /\ asks = 0
  BY DEF Init, h
<1>9. TypeInv
  BY <1>2, <1>5, <1>8 DEF TypeInv
<1>10. CoherentInv /\ Known
  BY <1>4, <1>8 DEF CoherentInv, Known
<1>11. FollowsInv
  BY <1>7, <1>8 DEF FollowsInv, Follows
<1> QED BY <1>9, <1>10, <1>11 DEF RuntimeInv

\* Every step of the runtime and of the loops keeps the invariant.
LEMMA RuntimeNext ==
    ASSUME RuntimeInv, [Next]_vars
    PROVE  RuntimeInv'
<1>1. ASSUME NEW o \in Object, Listen(o)
      PROVE  RuntimeInv'
  BY <1>1, PersistKeeps, PersistFailsKeeps, StreamEndsKeeps DEF Listen
<1>2. ASSUME Quiet, NEW o \in Object, Opens(o) \/ Agent(o) \/ StopEnds(o) \/ Evict(o)
      PROVE  RuntimeInv'
  <2>1. CASE Opens(o)
    BY <2>1, OpensKeep
  <2>2. CASE Agent(o)
    BY <1>2, <2>2, UpdateKeeps, UnfitUpdateKeeps, RequestKeeps, PromptAnsweredKeeps DEF Agent
  <2>3. CASE StopEnds(o)
    BY <1>2, <2>3, StopEndsKeeps
  <2>4. CASE Evict(o)
    BY <2>4, EvictKeeps
  <2> QED BY <1>2, <2>1, <2>2, <2>3, <2>4
<1>3. ASSUME Quiet, NEW i \in Id, Calls(i)
      PROVE  RuntimeInv'
  <2>1. \A a \in Ask : a \in Nat
    BY DEF Ask
  <2> QED BY <1>3, <2>1, StartTurnKeeps, InterruptTurnKeeps, ResolveApprovalKeeps DEF Calls
<1>4. CASE Quiet /\ Close
  BY <1>4, CloseKeeps
<1>5. CASE UNCHANGED vars
  <2>1. UNCHANGED <<sessions, object, heard, listening, turns, asks>>
    BY <1>5 DEF vars
  <2> QED BY <2>1 DEF RuntimeInv, TypeInv, CoherentInv, Known, FollowsInv, Follows
<1> QED BY <1>1, <1>2, <1>3, <1>4, <1>5 DEF Next
-----------------------------------------------------------------------------
(***************************************************************************)
(* What the runtime promises.                                              *)
(***************************************************************************)
\* The inductive invariant holds in every behaviour.
THEOREM RuntimeInductive == Spec => []RuntimeInv
<1>1. Init => RuntimeInv
  BY RuntimeInit
<1>2. RuntimeInv /\ [Next]_vars => RuntimeInv'
  BY RuntimeNext
<1> QED BY <1>1, <1>2, PTL DEF Spec

\* A permission the agent waits for is pending in a turn that is on, or held by
\* a stop that will answer it.
THEOREM AsksAreKept == Spec => []NoAskForgotten
<1>1. ASSUME RuntimeInv, NEW o \in Object, NEW a \in object[o].unanswered
      PROVE  \/ Contains(object[o].pending, a) /\ object[o].turn # 0
             \/ Contains(object[o].stop.expired, a)
  <2>1. Coherent(object[o])
    BY <1>1, AtObject
  <2>2. a \in Held(object[o])
    BY <2>1 DEF Coherent
  <2>3. Contains(object[o].pending, a) => object[o].pending # <<>>
    BY DEF Contains
  <2> QED BY <2>1, <2>2, <2>3 DEF Coherent, Held
<1>2. RuntimeInv => NoAskForgotten
  BY <1>1 DEF NoAskForgotten
<1> QED BY <1>2, RuntimeInductive, PTL

\* There are no more turns and permissions than there are names for them.
Bounded == turns \in Nat /\ turns <= MaxTurns /\ asks \in Nat /\ asks <= MaxAsks

\* The turns and permissions stay within the bounds of the model.
LEMMA BoundedAlways == Spec => []Bounded
<1>1. Init => Bounded
  BY RuntimeAssumption DEF Init, Bounded
<1>2. Bounded /\ [Next]_vars => Bounded'
  <2> SUFFICES ASSUME Bounded, [Next]_vars
               PROVE  Bounded'
    OBVIOUS
  <2>1. MaxTurns \in Nat /\ MaxAsks \in Nat
    BY RuntimeAssumption
  <2>2. CASE \E i \in Id : StartTurn(i)
    BY <2>1, <2>2 DEF StartTurn, Bounded
  <2>3. CASE \E o \in Object : RequestPermission(o)
    BY <2>1, <2>3 DEF RequestPermission, Bounded
  <2>4. CASE UNCHANGED <<turns, asks>>
    BY <2>4 DEF Bounded
  <2>5. ASSUME NEW o \in Object, Listen(o)
        PROVE  UNCHANGED <<turns, asks>>
    BY <2>5 DEF Listen, Persist, PersistFails, StreamEnds
  <2>6. ASSUME NEW o \in Object, Opens(o) \/ StopEnds(o) \/ Evict(o)
        PROVE  UNCHANGED <<turns, asks>>
    BY <2>6 DEF Opens, CreateSession, SessionCreated, ResumeSession, SessionResumed,
                OpeningFails, StopEnds, Evict
  <2>7. ASSUME NEW o \in Object, Agent(o)
        PROVE  RequestPermission(o) \/ UNCHANGED <<turns, asks>>
    BY <2>7 DEF Agent, Update, UnfitUpdate, PromptAnswered
  <2>8. ASSUME NEW i \in Id, Calls(i)
        PROVE  StartTurn(i) \/ UNCHANGED <<turns, asks>>
    BY <2>8 DEF Calls, InterruptTurn, ResolveApproval
  <2> QED BY <2>2, <2>3, <2>4, <2>5, <2>6, <2>7, <2>8 DEF Next, Close, vars
<1> QED BY <1>1, <1>2, PTL DEF Spec

\* An event that is persisted is a step of the stream of its session.
LEMMA PersistStreams ==
    ASSUME RuntimeInv, Bounded, NEW o \in Object, Persist(o)
    PROVE  [Stream(o)!StreamNext]_(Stream(o)!streamVars)
<1> DEFINE s == object[o]
           q == s.queue
           e == Head(q)
           h == heard[o]
           k == Hears(h, e)
<1>1. /\ q # <<>> /\ heard' = [heard EXCEPT ![o] = IF h.sound THEN k ELSE h]
  BY DEF Persist
<1>2. /\ q \in Seq(Events) /\ h \in HeardType /\ Tracks(h, s, turns, asks)
      /\ turns \in Nat /\ asks \in Nat /\ heard \in [Object -> HeardType]
  BY AtObject DEF RuntimeInv, TypeInv, ObjectType
<1>3. heard[o]' = IF h.sound THEN k ELSE h
  BY <1>1, <1>2
<1>4. CASE ~h.sound
  <2>1. heard[o]' = heard[o]
    BY <1>3, <1>4
  <2> QED BY <2>1 DEF Stream!streamVars
<1>5. CASE h.sound
  <2>1. Hearable(h, q)
    BY <1>2, <1>5 DEF Tracks
  <2>2. \/ /\ h.current = 0 /\ k.current > h.last /\ k.last = k.current
           /\ k.current = e.of /\ k.asking = h.asking
        \/ /\ k.current = h.current /\ k.last = h.last /\ k.asking = h.asking
        \/ /\ h.current # 0 /\ k.asking = h.asking \cup {e.of}
           /\ k.current = h.current /\ k.last = h.last /\ e.type = "asked"
        \/ /\ k.asking = h.asking \ {e.of} /\ e.type = "expired"
           /\ k.current = h.current /\ k.last = h.last
        \/ /\ h.current # 0 /\ h.asking = {} /\ k.current = 0
           /\ k.last = h.last /\ k.asking = h.asking
    BY <1>1, <1>2, <2>1, HearsInOrder
  <2>3. /\ NamedEvent(e, turns, asks) /\ e \in Events /\ k \in HeardType
        /\ e.type \in {"asked", "expired"} => k.current = h.current
    <3>1. e = q[1] /\ 1 \in 1 .. Len(q) /\ e \in Events
      BY <1>1, <1>2, HeadTailProperties
    <3>2. NamedEvent(q[1], turns, asks)
      BY <1>2, <3>1 DEF Tracks, Names, AllNamed
    <3> QED BY <1>2, <3>1, <3>2, HearsIs
  <2>4. e.type \in {"started", "update", "ended"} => e.of <= MaxTurns
    BY <2>3, RuntimeAssumption DEF NamedEvent, Bounded, Events
  <2>5. e.type \in {"asked", "expired"} => e.of \in Ask
    <3> HIDE DEF e
    <3>1. asks \in Nat /\ MaxAsks \in Nat /\ asks <= MaxAsks
      BY RuntimeAssumption DEF Bounded
    <3>2. e.type \in {"asked", "expired"} => e.of \in 1 .. asks
      BY <2>3 DEF NamedEvent
    <3> QED BY <3>1, <3>2 DEF Ask
  <2>6. heard[o]' = k
    BY <1>3, <1>5
  <2>7. k.current \in Nat /\ h.last \in Nat /\ h.current \in Nat
    BY <1>2, <2>3 DEF HeardType
  <2> HIDE DEF s, q, e, k
  <2>8. CASE /\ h.current = 0 /\ k.current > h.last /\ k.last = k.current
             /\ k.current = e.of /\ k.asking = h.asking
    <3>1. k.current \in Turn
      <4>1. k.current = 0 \/ k.current <= MaxTurns
        <5>1. e.type \notin {"asked", "expired"}
          BY <2>3, <2>7, <2>8
        <5>2. e.type \in {"started", "update", "ended"}
          BY <2>3, <5>1 DEF Events
        <5> QED BY <2>4, <2>8, <5>2
      <4> QED BY <2>7, <2>8, <4>1 DEF Turn
    <3>2. Stream(o)!Begin(k.current)
      BY <2>6, <2>8 DEF Stream!Begin
    <3> QED BY <3>1, <3>2 DEF Stream!StreamNext
  <2>9. CASE k.current = h.current /\ k.last = h.last /\ k.asking = h.asking
    BY <2>6, <2>9 DEF Stream!streamVars
  <2>10. CASE /\ h.current # 0 /\ k.asking = h.asking \cup {e.of}
              /\ k.current = h.current /\ k.last = h.last /\ e.type = "asked"
    <3>1. CASE e.of \in h.asking
      <4>1. k.asking = h.asking
        BY <2>10, <3>1
      <4> QED BY <2>6, <2>10, <4>1 DEF Stream!streamVars
    <3>2. CASE e.of \notin h.asking
      <4>1. Stream(o)!Asked(e.of)
        BY <2>6, <2>10, <3>2 DEF Stream!Asked
      <4> QED BY <2>5, <2>10, <4>1 DEF Stream!StreamNext
    <3> QED BY <3>1, <3>2
  <2>11. CASE /\ k.asking = h.asking \ {e.of} /\ e.type = "expired"
              /\ k.current = h.current /\ k.last = h.last
    <3>1. CASE e.of \notin h.asking
      <4>1. k.asking = h.asking
        BY <2>11, <3>1
      <4> QED BY <2>6, <2>11, <4>1 DEF Stream!streamVars
    <3>2. CASE e.of \in h.asking
      <4>1. Stream(o)!Closed(e.of)
        BY <2>6, <2>11, <3>2 DEF Stream!Closed
      <4> QED BY <2>5, <2>11, <4>1 DEF Stream!StreamNext
    <3> QED BY <3>1, <3>2
  <2>12. CASE /\ h.current # 0 /\ h.asking = {} /\ k.current = 0
              /\ k.last = h.last /\ k.asking = h.asking
    <3>1. Stream(o)!End
      BY <2>6, <2>12 DEF Stream!End
    <3> QED BY <3>1 DEF Stream!StreamNext
  <2> QED BY <2>2, <2>8, <2>9, <2>10, <2>11, <2>12
<1> QED BY <1>4, <1>5

\* Every step moves the stream of a session or leaves it alone.
LEMMA StreamStep ==
    ASSUME RuntimeInv, Bounded, [Next]_vars, NEW o \in Object
    PROVE  [Stream(o)!StreamNext]_(Stream(o)!streamVars)
<1>1. heard \in [Object -> HeardType] /\ sessions \in [Id -> Object \cup {NoObject}]
  BY DEF RuntimeInv, TypeInv
<1>2. CASE /\ heard'[o].current = heard[o].current /\ heard'[o].last = heard[o].last
           /\ heard'[o].asking = heard[o].asking
  BY <1>2 DEF Stream!streamVars
<1>3. ASSUME NEW p \in Object, Listen(p)
      PROVE  [Stream(o)!StreamNext]_(Stream(o)!streamVars)
  <2>1. CASE Persist(o)
    BY <2>1, PersistStreams
  <2>2. CASE Persist(p) /\ p # o
    <3>1. heard'[o] = heard[o]
      BY <1>1, <2>2 DEF Persist
    <3> QED BY <1>2, <3>1
  <2>3. CASE PersistFails(p)
    <3>1. heard' = [heard EXCEPT ![p].sound = FALSE]
      BY <2>3 DEF PersistFails
    <3>2. /\ heard'[o].current = heard[o].current /\ heard'[o].last = heard[o].last
          /\ heard'[o].asking = heard[o].asking
      BY <1>1, <3>1 DEF HeardType
    <3> QED BY <1>2, <3>2
  <2>4. CASE StreamEnds(p)
    BY <1>2, <2>4 DEF StreamEnds
  <2> QED BY <1>3, <2>1, <2>2, <2>3, <2>4 DEF Listen
<1>4. ASSUME NEW i \in Id, NEW a \in Ask, ResolveApproval(i, a)
      PROVE  [Stream(o)!StreamNext]_(Stream(o)!streamVars)
  <2> DEFINE p == sessions[i]
  <2>1. /\ p \in Object /\ a \in heard[p].asking
        /\ heard' = [heard EXCEPT ![p].asking = @ \ {a}]
    BY <1>1, <1>4 DEF ResolveApproval, Decided
  <2> HIDE DEF p
  <2>2. CASE p # o
    BY <1>1, <1>2, <2>1, <2>2
  <2>3. CASE p = o
    <3>1. /\ heard[o]'.current = heard[o].current /\ heard[o]'.last = heard[o].last
          /\ heard[o]'.asking = heard[o].asking \ {a}
      BY <1>1, <2>1, <2>3 DEF HeardType
    <3>2. Stream(o)!Closed(a)
      BY <2>1, <2>3, <3>1 DEF Stream!Closed
    <3> QED BY <3>2 DEF Stream!StreamNext
  <2> QED BY <2>2, <2>3
<1>5. ASSUME NEW p \in Object, Opens(p) \/ Agent(p) \/ StopEnds(p) \/ Evict(p)
      PROVE  UNCHANGED heard
  BY <1>5 DEF Opens, CreateSession, SessionCreated, ResumeSession, SessionResumed,
              OpeningFails, StopEnds, Evict, Agent, Update, UnfitUpdate, RequestPermission,
              PromptAnswered
<1>6. ASSUME NEW i \in Id, StartTurn(i) \/ InterruptTurn(i)
      PROVE  UNCHANGED heard
  BY <1>6 DEF StartTurn, InterruptTurn
<1>7. Close \/ UNCHANGED vars => UNCHANGED heard
  BY DEF Close, vars
<1> QED BY <1>2, <1>3, <1>4, <1>5, <1>6, <1>7 DEF Next, Calls

\* What the loop of a service hears of a session is a stream of turns: each
\* begins after the one before it has ended, with its permissions closed.
THEOREM StreamIsInOrder == Spec => HeardInOrder
<1>1. ASSUME Init, NEW o \in Object
      PROVE  Stream(o)!StreamInit
  BY <1>1 DEF Init, Stream!StreamInit
<1>2. Init => \A o \in Object : Stream(o)!StreamInit
  BY <1>1
<1>3. RuntimeInv /\ Bounded /\ [Next]_vars
        => [\A o \in Object : [Stream(o)!StreamNext]_(Stream(o)!streamVars)]_vars
  BY StreamStep
<1> QED BY <1>2, <1>3, RuntimeInductive, BoundedAlways, PTL DEF Spec, HeardInOrder
=============================================================================
