------------------------ MODULE AsioIoServiceProofs ------------------------
(***************************************************************************)
(* Proofs about AsioIoService, for any number of threads, handlers,        *)
(* operations and descriptors: the count of outstanding work is exact, and *)
(* no operation is ever linked into two queues, if no thread opens a socket *)
(* with the state of one that another thread has not closed yet.           *)
(***************************************************************************)
EXTENDS AsioIoService, SequenceTheorems, FiniteSetTheorems, TLAPS

Queued == Items \cup Descriptors \cup {Task}

\* TypeOK, but for the sign of work, which WorkCounted gives.
Typed ==
  /\ queue \in Seq(Queued)
  /\ task \in BOOLEAN /\ interrupted \in BOOLEAN /\ awakened \in BOOLEAN
  /\ stopped \in BOOLEAN /\ signalled \in BOOLEAN
  /\ work \in Int
  /\ mutex \in Threads \cup {Nothing}
  /\ at \in [Threads -> Places]
  /\ doing \in [Threads -> Items \cup Descriptors \cup {Nothing}]
  /\ own \in [Threads -> Seq(Items \cup Descriptors)]
  /\ credit \in [Threads -> Nat]
  /\ pending \subseteq Items
  /\ registered \in [Descriptors -> BOOLEAN]
  /\ waiting \in [Descriptors -> Seq(Operations)]
  /\ data \in [Descriptors -> 0..MaxData]
  /\ edge \in [Descriptors -> BOOLEAN]
  /\ closing \in [Callers -> Descriptors \cup {Nothing}]
  /\ late \subseteq {c \in Callers : closing[c] # Nothing}

Crediting == {"user", "returned", "thrown"}

\* What a thread holds at each place of do_run_one.
Shape(t) ==
  /\ at[t] = "user" => doing[t] \in Items
  /\ at[t] = "performing" => doing[t] \in Descriptors
  /\ at[t] = "polled" => own[t] \in Seq(Descriptors)
  /\ at[t] # "polled" => own[t] \in Seq(Items)
  /\ at[t] \notin Crediting \cup {"counted", "unwinding", "polled"} => own[t] = <<>>
  /\ credit[t] = IF at[t] \in Crediting THEN Len(own[t]) ELSE 0

\* Only a push has operations to hand on.
CallShape(t) == call[t].f # "push" => call[t].ops = <<>>

CallsTyped ==
  /\ call \in [Callers -> [f : {"none", "push", "signal", "stop"}, ops : Seq(Items)]]
  /\ \A c \in Callers : CallShape(c)

Shapes ==
  /\ Typed
  /\ \A t \in Threads : Shape(t)
  /\ CallsTyped

\* Where operations are linked, as Slots and Held have it, but as a relation: x is
\* at position i of the queue, or of the upcall, of kind k and of owner a.
Lies(k, a, i, x) ==
  \/ k = "queue" /\ a = Task /\ i \in DOMAIN queue /\ x = queue[i]
  \/ k = "own" /\ a \in Threads /\ i \in DOMAIN own[a] /\ x = own[a][i]
  \/ k = "call" /\ a \in Callers /\ i \in DOMAIN call[a].ops /\ x = call[a].ops[i]
  \/ k = "waiting" /\ a \in Descriptors /\ i \in DOMAIN waiting[a] /\ x = waiting[a][i]
  \/ k = "upcall" /\ a \in Threads /\ at[a] = "user" /\ i = 1 /\ x = doing[a]
  \/ k = "reactor" /\ a \in InReactor /\ i = 1 /\ x = Task

Once ==
  \A k, a, i, l, b, j, x : Lies(k, a, i, x) /\ Lies(l, b, j, x) => k = l /\ a = b /\ i = j

Due == \A x \in Items : x \in pending <=> \E k, a, i : Lies(k, a, i, x)

Linked == Once /\ Due /\ TaskBehind

\* A socket that is being closed shares its state with no other that epoll watches.
Apart ==
  /\ \A c \in Callers : closing[c] # Nothing => ~registered[closing[c]]
  /\ \A b, c \in Callers : closing[b] # Nothing /\ closing[b] = closing[c] => b = c
  /\ \A d \in Descriptors : edge[d] => registered[d]
-----------------------------------------------------------------------------

(* Sequences, position by position.                                        *)

LEMMA TailAt ==
  ASSUME NEW S, NEW s \in Seq(S), s # <<>>
  PROVE  /\ Tail(s) \in Seq(S) /\ Len(s) \in Nat \ {0}
         /\ 1 \in DOMAIN s /\ Head(s) = s[1] /\ Head(s) \in S
         /\ \A i : i \in DOMAIN Tail(s) <=> i \in Nat \ {0} /\ i + 1 \in DOMAIN s
         /\ \A i \in DOMAIN Tail(s) : Tail(s)[i] = s[i + 1]
<1>1. Len(s) \in Nat \ {0} /\ DOMAIN s = 1..Len(s)
  BY EmptySeq, LenProperties
<1>2. Tail(s) \in Seq(S) /\ Len(Tail(s)) = Len(s) - 1 /\ Head(s) \in S
      /\ \A i \in 1..Len(Tail(s)) : Tail(s)[i] = s[i + 1]
  BY HeadTailProperties
<1>3. DOMAIN Tail(s) = 1..Len(Tail(s))
  BY <1>2, LenProperties
<1>4. Head(s) = s[1]
  OBVIOUS
<1> QED
  BY <1>1, <1>2, <1>3, <1>4

LEMMA JoinAt ==
  ASSUME NEW S, NEW s \in Seq(S), NEW u \in Seq(S)
  PROVE  /\ s \o u \in Seq(S) /\ Len(s) \in Nat
         /\ \A i \in DOMAIN s : i \in DOMAIN (s \o u) /\ (s \o u)[i] = s[i]
         /\ \A i \in DOMAIN u : i + Len(s) \in DOMAIN (s \o u) /\ (s \o u)[i + Len(s)] = u[i]
         /\ \A i \in DOMAIN (s \o u) :
              \/ i \in DOMAIN s /\ (s \o u)[i] = s[i]
              \/ i - Len(s) \in DOMAIN u /\ (s \o u)[i] = u[i - Len(s)]
<1>1. /\ s \o u \in Seq(S) /\ Len(s \o u) = Len(s) + Len(u)
      /\ \A i \in 1..Len(s) + Len(u) :
           (s \o u)[i] = IF i <= Len(s) THEN s[i] ELSE u[i - Len(s)]
  BY ConcatProperties
<1>2. /\ Len(s) \in Nat /\ DOMAIN s = 1..Len(s)
      /\ Len(u) \in Nat /\ DOMAIN u = 1..Len(u)
      /\ DOMAIN (s \o u) = 1..Len(s \o u)
  BY <1>1, LenProperties

<1> QED
  BY <1>1, <1>2

LEMMA AppendAt ==
  ASSUME NEW S, NEW s \in Seq(S), NEW x \in S
  PROVE  /\ Append(s, x) \in Seq(S) /\ Len(s) \in Nat /\ Len(Append(s, x)) = Len(s) + 1
         /\ DOMAIN s = 1..Len(s) /\ DOMAIN Append(s, x) = 1..Len(s) + 1
         /\ \A i \in DOMAIN s : Append(s, x)[i] = s[i]
         /\ Append(s, x)[Len(s) + 1] = x
  BY AppendProperties, LenProperties
-----------------------------------------------------------------------------

LEMMA ShapesInitially == Init => Shapes
<1> SUFFICES ASSUME Init PROVE Shapes
  OBVIOUS
<1> USE IoServiceAssumption, ReactorAssumption DEF Init, ServiceInit
<1>1. /\ <<>> \in Seq(Queued) /\ <<>> \in Seq(Items) /\ <<>> \in Seq(Operations)
      /\ <<>> \in Seq(Items \cup Descriptors) /\ Len(<<>>) = 0
  BY EmptySeq
<1>2. CallsTyped
  BY <1>1 DEF CallsTyped, CallShape, NoCall
<1>3. Typed
  <2>1. queue \in Seq(Queued) /\ work \in Int /\ mutex \in Threads \cup {Nothing} /\ pending \subseteq Items
    BY <1>1
  <2>2. /\ task \in BOOLEAN /\ interrupted \in BOOLEAN /\ awakened \in BOOLEAN
        /\ stopped \in BOOLEAN /\ signalled \in BOOLEAN
    OBVIOUS
  <2>3. at \in [Threads -> Places] /\ doing \in [Threads -> Items \cup Descriptors \cup {Nothing}]
        /\ own \in [Threads -> Seq(Items \cup Descriptors)] /\ credit \in [Threads -> Nat]
    BY <1>1 DEF Places
  <2>4. /\ registered \in [Descriptors -> BOOLEAN] /\ waiting \in [Descriptors -> Seq(Operations)]
        /\ data \in [Descriptors -> 0..MaxData] /\ edge \in [Descriptors -> BOOLEAN]
        /\ closing \in [Callers -> Descriptors \cup {Nothing}]
        /\ late \subseteq {c \in Callers : closing[c] # Nothing}
    BY <1>1
  <2> QED
    BY <2>1, <2>2, <2>3, <2>4 DEF Typed
<1>4. \A t \in Threads : Shape(t)
  BY <1>1 DEF Shape, Crediting
<1> QED
  BY <1>2, <1>3, <1>4 DEF Shapes

LEMMA CallTyped ==
  ASSUME CallsTyped, NEW t \in Callers,
         NEW f \in {"none", "push", "signal", "stop"}, NEW ops \in Seq(Items),
         f # "push" => ops = <<>>, Calls(t, f, ops)
  PROVE  /\ CallsTyped'
         /\ call'[t].f = f /\ call'[t].ops = ops
         /\ \A c \in Callers \ {t} : call'[c] = call[c]
<1>1. call' = [call EXCEPT ![t] = [f |-> f, ops |-> ops]]
  BY DEF Calls
<1> QED
  BY <1>1 DEF CallsTyped, CallShape

LEMMA SignalOneTyped ==
  ASSUME CallsTyped, NEW t \in Callers, SignalOne(t)
  PROVE  /\ CallsTyped'
         /\ call'[t].ops = <<>> /\ \A c \in Callers \ {t} : call'[c] = call[c]
         /\ signalled' \in BOOLEAN
<1>1. <<>> \in Seq(Items)
  BY EmptySeq
<1>2. Calls(t, "signal", <<>>) \/ Calls(t, "none", <<>>)
  BY DEF SignalOne, Calls, NoCall
<1>3. CallsTyped' /\ call'[t].ops = <<>> /\ \A c \in Callers \ {t} : call'[c] = call[c]
  BY <1>1, <1>2, CallTyped
<1> QED
  BY <1>3 DEF SignalOne

LEMMA WakeOneTyped ==
  ASSUME Shapes, NEW t \in Callers, WakeOne(t)
  PROVE  /\ CallsTyped'
         /\ call'[t].ops = <<>> /\ \A c \in Callers \ {t} : call'[c] = call[c]
         /\ interrupted' \in BOOLEAN /\ awakened' \in BOOLEAN /\ signalled' \in BOOLEAN
<1>1. SignalOne(t)
  BY DEF WakeOne
<1>2. interrupted' \in BOOLEAN /\ awakened' \in BOOLEAN
  BY DEF WakeOne, InterruptTask, Shapes, Typed
<1> QED
  BY <1>1, <1>2, SignalOneTyped DEF Shapes

(* Each step of the scheduler and of the reactor keeps the shapes.          *)

LEMMA ShapesScheduler ==
  ASSUME Shapes, UNCHANGED reactorVars, NEW t \in Threads,
         \/ Enter(t) \/ Leave(t) \/ Sleep(t) \/ WakeUp(t) \/ WakeSpuriously(t)
         \/ TakeTask(t) \/ TakeOperation(t) \/ TaskCleanup(t)
         \/ HandlerEnds(t) \/ WorkCleanup(t) \/ Deliver(t)
  PROVE  Shapes'
<1> USE IoServiceAssumption, ReactorAssumption
<1>0. t \in Callers /\ <<>> \in Seq(Items) /\ <<>> \in Seq(Items \cup Descriptors) /\ Len(<<>>) = 0
  BY EmptySeq DEF Callers
<1>1. CASE Enter(t)
  <2>1. CASE work = 0
    <3>1. CallsTyped'
      BY <1>0, <1>1, <2>1, CallTyped DEF Enter, Shapes
    <3> QED
      BY <1>1, <2>1, <3>1 DEF Enter, poolVars, reactorVars, Shapes, Typed, Shape
  <2>2. CASE work # 0
    <3>1. /\ at[t] \in {"outside", "caught"} /\ at' = [at EXCEPT ![t] = "loop"]
          /\ UNCHANGED <<doing, own, credit, call>>
      BY <1>1, <2>2 DEF Enter
    <3>2. at' \in [Threads -> Places]
      BY <3>1 DEF Shapes, Typed, Places
    <3>3. \A s \in Threads : Shape(s)'
      BY <3>1 DEF Shapes, Typed, Shape, Crediting
    <3> QED
      BY <1>1, <3>1, <3>2, <3>3 DEF Enter, poolVars, reactorVars, Shapes, Typed, CallsTyped, CallShape
  <2> QED
    BY <2>1, <2>2
<1>2. CASE Leave(t)
  BY <1>2 DEF Leave, AtHead, reactorVars, Shapes, Typed, Shape, CallsTyped, CallShape,
     Places, Crediting
<1>3. CASE Sleep(t)
  BY <1>3 DEF Sleep, AtHead, reactorVars, Shapes, Typed, Shape, CallsTyped, CallShape,
     Places, Crediting
<1>4. CASE WakeUp(t)
  <2>1. /\ mutex' \in {mutex, t} /\ at[t] = "woken" /\ UNCHANGED <<doing, own, credit>>
        /\ \E p \in {"loop", "asleep"} : at' = [at EXCEPT ![t] = p]
    BY <1>4 DEF WakeUp
  <2>2. mutex' \in Threads \cup {Nothing} /\ at' \in [Threads -> Places]
    BY <2>1 DEF Shapes, Typed, Places
  <2>3. \A s \in Threads : Shape(s)'
    BY <2>1 DEF Shapes, Typed, Shape, Crediting
  <2> QED
    BY <1>4, <2>2, <2>3 DEF WakeUp, reactorVars, Shapes, Typed, CallsTyped, CallShape
<1>5. CASE WakeSpuriously(t)
  BY <1>5 DEF WakeSpuriously, poolVars, reactorVars, Shapes, Typed, Shape, CallsTyped, CallShape,
     Places, Crediting
<1>6. CASE TakeTask(t)
  <2>1. Tail(queue) \in Seq(Queued)
    BY <1>6, TailAt DEF TakeTask, Shapes, Typed
  <2>2. signalled' \in BOOLEAN /\ CallsTyped'
    <3>1. CASE SignalOne(t)
      BY <1>0, <3>1, SignalOneTyped DEF Shapes
    <3>2. CASE UNCHANGED <<signalled, call>>
      BY <3>2 DEF Shapes, Typed, CallsTyped, CallShape
    <3> QED
      BY <1>6, <3>1, <3>2 DEF TakeTask
  <2>3. \A s \in Threads : Shape(s)'
    BY <1>6 DEF TakeTask, AtHead, Shapes, Typed, Shape, Crediting
  <2>4. at' \in [Threads -> Places] /\ mutex' \in Threads \cup {Nothing} /\ interrupted' \in BOOLEAN
    BY <1>6 DEF TakeTask, Shapes, Typed, Places
  <2> QED
    BY <1>6, <2>1, <2>2, <2>3, <2>4 DEF TakeTask, reactorVars, Shapes, Typed
<1>7. CASE TakeOperation(t)
  <2>1. Tail(queue) \in Seq(Queued) /\ Head(queue) \in Items \cup Descriptors
    BY <1>7, TailAt DEF TakeOperation, Shapes, Typed, Queued
  <2>2. /\ signalled' \in BOOLEAN /\ interrupted' \in BOOLEAN /\ awakened' \in BOOLEAN
        /\ CallsTyped'
    <3>1. CASE WakeOne(t)
      BY <1>0, <3>1, WakeOneTyped
    <3>2. CASE UNCHANGED <<signalled, call, interrupted, awakened>>
      BY <3>2 DEF Shapes, Typed, CallsTyped, CallShape
    <3> QED
      BY <1>7, <3>1, <3>2 DEF TakeOperation
  <2>3. /\ at' \in [Threads -> Places] /\ mutex' \in Threads \cup {Nothing}
        /\ doing' \in [Threads -> Items \cup Descriptors \cup {Nothing}]
    BY <1>7, <2>1 DEF TakeOperation, Shapes, Typed, Places
  <2>4. ASSUME NEW s \in Threads PROVE Shape(s)'
    <3>1. CASE s = t
      <4>1. at[t] = "loop" /\ own[t] = <<>> /\ credit[t] = 0
        BY <1>7 DEF TakeOperation, AtHead, Shapes, Shape, Crediting
      <4>2. /\ at'[t] = IF Head(queue) \in Descriptors THEN "performing" ELSE "user"
            /\ doing'[t] = Head(queue) /\ own'[t] = own[t] /\ credit'[t] = credit[t]
        BY <1>7 DEF TakeOperation, Shapes, Typed
      <4> QED
        BY <1>0, <2>1, <3>1, <4>1, <4>2 DEF Shape, Crediting
    <3>2. CASE s # t
      BY <1>7, <3>2 DEF TakeOperation, Shapes, Typed, Shape
    <3> QED
      BY <3>1, <3>2
  <2> QED
    BY <1>7, <2>1, <2>2, <2>3, <2>4 DEF TakeOperation, reactorVars, Shapes, Typed
<1>8. CASE TaskCleanup(t)
  <2>1. Append(queue \o own[t], Task) \in Seq(Queued)
    <3>1. own[t] \in Seq(Queued)
      BY SeqMonotonic DEF Shapes, Typed, Queued
    <3>2. queue \o own[t] \in Seq(Queued)
      BY <3>1, JoinAt DEF Shapes, Typed
    <3> QED
      BY <3>2, AppendAt DEF Queued
  <2>2. \A s \in Threads : Shape(s)'
    BY <1>0, <1>8 DEF TaskCleanup, Shapes, Typed, Shape, Crediting
  <2>3. /\ at' \in [Threads -> Places] /\ mutex' \in Threads \cup {Nothing}
        /\ own' \in [Threads -> Seq(Items \cup Descriptors)] /\ interrupted' \in BOOLEAN
    BY <1>0, <1>8 DEF TaskCleanup, Shapes, Typed, Places
  <2> QED
    BY <1>8, <2>1, <2>2, <2>3 DEF TaskCleanup, reactorVars, Shapes, Typed, CallsTyped, CallShape
<1>9. CASE HandlerEnds(t)
  BY <1>9 DEF HandlerEnds, poolVars, reactorVars, Shapes, Typed, Shape, CallsTyped, CallShape,
     Places, Crediting
<1>10. CASE WorkCleanup(t)
  <2>1. CallsTyped'
    <3>1. CASE Calls(t, "stop", <<>>)
      BY <1>0, <3>1, CallTyped DEF Shapes
    <3>2. CASE UNCHANGED call
      BY <3>2 DEF Shapes, CallsTyped, CallShape
    <3> QED
      BY <1>10, <3>1, <3>2 DEF WorkCleanup
  <2>2. \A s \in Threads : Shape(s)'
    BY <1>10 DEF WorkCleanup, AfterCounting, Shapes, Typed, Shape, Crediting
  <2>3. /\ at' \in [Threads -> Places] /\ credit' \in [Threads -> Nat] /\ work' \in Int
    BY <1>10 DEF WorkCleanup, AfterCounting, Shapes, Typed, Places
  <2> QED
    BY <1>10, <2>1, <2>2, <2>3 DEF WorkCleanup, reactorVars, Shapes, Typed
<1>11. CASE Deliver(t)
  <2>1. queue \o own[t] \in Seq(Queued)
    <3>1. own[t] \in Seq(Queued)
      BY SeqMonotonic DEF Shapes, Typed, Queued
    <3> QED
      BY <3>1, JoinAt DEF Shapes, Typed
  <2>2. \A s \in Threads : Shape(s)'
    BY <1>0, <1>11 DEF Deliver, Shapes, Typed, Shape, Crediting
  <2>3. /\ at' \in [Threads -> Places] /\ mutex' \in Threads \cup {Nothing}
        /\ own' \in [Threads -> Seq(Items \cup Descriptors)]
    BY <1>0, <1>11 DEF Deliver, Shapes, Typed, Places
  <2> QED
    BY <1>11, <2>1, <2>2, <2>3 DEF Deliver, reactorVars, Shapes, Typed, CallsTyped, CallShape
<1> QED
  BY <1>1, <1>2, <1>3, <1>4, <1>5, <1>6, <1>7, <1>8, <1>9, <1>10, <1>11

LEMMA PostTyped ==
  ASSUME Shapes, NEW t \in Callers, NEW w \in Items, NEW continuation \in BOOLEAN,
         t \in Threads => at[t] = "user", PostImmediate(t, w, continuation), UNCHANGED <<at, doing>>
  PROVE  /\ CallsTyped' /\ work' \in Int /\ pending' \subseteq Items
         /\ own' \in [Threads -> Seq(Items \cup Descriptors)] /\ credit' \in [Threads -> Nat]
         /\ \A s \in Threads : Shape(s)'
<1>1. pending' \subseteq Items
  BY DEF PostImmediate, Shapes, Typed
<1>2. CASE continuation /\ t \in Threads
  <2>1. own[t] \in Seq(Items) /\ Append(own[t], w) \in Seq(Items)
        /\ Len(Append(own[t], w)) = Len(own[t]) + 1
    BY <1>2, AppendAt DEF Shapes, Shape
  <2>2. Append(own[t], w) \in Seq(Items \cup Descriptors)
    BY <2>1, SeqMonotonic
  <2>3. own' = [own EXCEPT ![t] = Append(own[t], w)] /\ credit' = [credit EXCEPT ![t] = credit[t] + 1]
        /\ UNCHANGED <<work, call>>
    BY <1>2 DEF PostImmediate
  <2>4. own' \in [Threads -> Seq(Items \cup Descriptors)] /\ credit' \in [Threads -> Nat]
    <3>1. own \in [Threads -> Seq(Items \cup Descriptors)] /\ credit \in [Threads -> Nat]
      BY DEF Shapes, Typed
    <3>2. own' \in [Threads -> Seq(Items \cup Descriptors)]
      BY <2>2, <2>3, <3>1
    <3>3. credit' \in [Threads -> Nat]
      <4>1. credit[t] + 1 \in Nat
        BY <1>2, <3>1
      <4> QED
        BY <2>3, <3>1, <4>1
    <3> QED
      BY <3>2, <3>3
  <2>5. \A s \in Threads : Shape(s)'
    BY <1>2, <2>1, <2>3 DEF Shapes, Typed, Shape, Crediting
  <2> QED
    BY <1>1, <2>3, <2>4, <2>5 DEF Shapes, Typed, CallsTyped, CallShape
<1>3. CASE ~(continuation /\ t \in Threads)
  <2>1. work' = work + 1 /\ Calls(t, "push", <<w>>) /\ UNCHANGED <<credit, own>>
    BY <1>3 DEF PostImmediate
  <2>2. <<w>> \in Seq(Items)
    OBVIOUS
  <2>3. CallsTyped'
    BY <2>1, <2>2, CallTyped DEF Shapes
  <2> QED
    BY <1>1, <2>1, <2>3 DEF Shapes, Typed, Shape
<1> QED
  BY <1>2, <1>3

LEMMA ShapesCallers ==
  ASSUME Shapes, UNCHANGED reactorVars, NEW t \in Callers,
         \/ Signal(t) \/ Stop(t) \/ Push(t) \/ PostHandler(t) \/ InitTask(t) \/ StopByUser(t)
  PROVE  Shapes'
<1> USE IoServiceAssumption, ReactorAssumption
<1>0. <<>> \in Seq(Items)
  BY EmptySeq
<1>1. CASE Signal(t)
  <2>1. CallsTyped'
    BY <1>0, <1>1, CallTyped DEF Signal, Shapes
  <2>2. at' \in [Threads -> Places]
    BY <1>1 DEF Signal, Shapes, Typed, Places
  <2>3. \A s \in Threads : Shape(s)'
    BY <1>1 DEF Signal, Shapes, Typed, Shape, Crediting
  <2> QED
    BY <1>1, <2>1, <2>2, <2>3 DEF Signal, poolVars, reactorVars, Shapes, Typed
<1>2. CASE Stop(t)
  <2>1. CallsTyped'
    BY <1>0, <1>2, CallTyped DEF Stop, Shapes
  <2>2. at' \in [Threads -> Places] /\ interrupted' \in BOOLEAN /\ awakened' \in BOOLEAN
    BY <1>2 DEF Stop, InterruptTask, Shapes, Typed, Places
  <2>3. \A s \in Threads : Shape(s)'
    BY <1>2 DEF Stop, Shapes, Typed, Shape, Crediting
  <2> QED
    BY <1>2, <2>1, <2>2, <2>3 DEF Stop, reactorVars, Shapes, Typed
<1>3. CASE Push(t)
  <2>1. queue \o call[t].ops \in Seq(Queued)
    <3>1. call[t].ops \in Seq(Queued)
      BY SeqMonotonic DEF Shapes, CallsTyped, Queued
    <3> QED
      BY <3>1, JoinAt DEF Shapes, Typed
  <2>2. /\ signalled' \in BOOLEAN /\ interrupted' \in BOOLEAN /\ awakened' \in BOOLEAN
        /\ CallsTyped'
    BY <1>3, WakeOneTyped DEF Push
  <2>3. \A s \in Threads : Shape(s)'
    BY <1>3 DEF Push, threadVars, Shapes, Shape
  <2> QED
    BY <1>3, <2>1, <2>2, <2>3 DEF Push, threadVars, reactorVars, Shapes, Typed
<1>4. CASE PostHandler(t)
  <2>1. PICK w \in Handlers \ pending, continuation \in BOOLEAN : PostImmediate(t, w, continuation)
    BY <1>4 DEF PostHandler
  <2>2. w \in Items /\ (t \in Threads => at[t] = "user") /\ UNCHANGED <<at, doing>>
    BY <1>4 DEF PostHandler, Using, Items
  <2>3. /\ CallsTyped' /\ work' \in Int /\ pending' \subseteq Items
        /\ own' \in [Threads -> Seq(Items \cup Descriptors)] /\ credit' \in [Threads -> Nat]
        /\ \A s \in Threads : Shape(s)'
    BY <2>1, <2>2, PostTyped
  <2> QED
    BY <1>4, <2>3 DEF PostHandler, reactorVars, Shapes, Typed
<1>5. CASE InitTask(t)
  <2>1. Append(queue, Task) \in Seq(Queued)
    BY AppendAt DEF Shapes, Typed, Queued
  <2>2. /\ signalled' \in BOOLEAN /\ interrupted' \in BOOLEAN /\ awakened' \in BOOLEAN
        /\ CallsTyped'
    BY <1>5, WakeOneTyped DEF InitTask
  <2>3. \A s \in Threads : Shape(s)'
    BY <1>5 DEF InitTask, threadVars, Shapes, Shape
  <2> QED
    BY <1>5, <2>1, <2>2, <2>3 DEF InitTask, threadVars, reactorVars, Shapes, Typed
<1>6. CASE StopByUser(t)
  <2>1. CallsTyped'
    BY <1>0, <1>6, CallTyped DEF StopByUser, Shapes
  <2> QED
    BY <1>6, <2>1 DEF StopByUser, poolVars, threadVars, reactorVars, Shapes, Typed, Shape
<1> QED
  BY <1>1, <1>2, <1>3, <1>4, <1>5, <1>6

LEMMA Suffix ==
  ASSUME NEW S, NEW s \in Seq(S), NEW n \in 0..Len(s)
  PROVE  /\ SubSeq(s, n + 1, Len(s)) \in Seq(S)
         /\ DOMAIN SubSeq(s, n + 1, Len(s)) = 1..Len(s) - n
         /\ \A i \in 1..Len(s) - n : SubSeq(s, n + 1, Len(s))[i] = s[i + n]
         /\ DOMAIN s = 1..Len(s) /\ Len(s) \in Nat
<1>1. Len(s) \in Nat /\ DOMAIN s = 1..Len(s)
  BY LenProperties
<1>2. \A i \in n + 1..Len(s) : s[i] \in S
  BY <1>1, ElementOfSeq
<1> DEFINE u == SubSeq(s, n + 1, Len(s))
<1>3. /\ u \in Seq(S) /\ Len(u) = IF n + 1 <= Len(s) THEN Len(s) - (n + 1) + 1 ELSE 0
      /\ \A i \in 1..Len(s) - (n + 1) + 1 : u[i] = s[n + 1 + i - 1]
  <2> HIDE DEF u
  <2>1. n + 1 \in Int /\ Len(s) \in Int
    BY <1>1
  <2> QED
    BY <1>2, <2>1, SubSeqProperties DEF u
<1>4. DOMAIN u = 1..Len(u)
  BY <1>3, LenProperties
<1> HIDE DEF u
<1>5. DOMAIN u = 1..Len(s) - n
  <2>1. Len(u) = Len(s) - n
    <3>1. CASE n + 1 <= Len(s)
      BY <1>1, <1>3, <3>1
    <3>2. CASE n = Len(s)
      BY <1>1, <1>3, <3>2
    <3>3. n + 1 <= Len(s) \/ n = Len(s)
      <4>1. Len(s) \in Nat
        BY <1>1
      <4> QED
        BY <4>1
    <3> QED
      BY <3>1, <3>2, <3>3
  <2> QED
    BY <1>4, <2>1
<1>6. \A i \in 1..Len(s) - n : u[i] = s[i + n]
  <2> SUFFICES ASSUME NEW i \in 1..Len(s) - n PROVE u[i] = s[i + n]
    OBVIOUS
  <2>1. i \in 1..Len(s) - (n + 1) + 1 /\ n + 1 + i - 1 = i + n
    BY <1>1
  <2> QED
    BY <1>3, <2>1
<1> QED
  BY <1>1, <1>3, <1>5, <1>6 DEF u

LEMMA Middle ==
  ASSUME NEW S, NEW s \in Seq(S), NEW n \in 1..Len(s)
  PROVE  /\ SubSeq(s, 2, n) \in Seq(S)
         /\ DOMAIN SubSeq(s, 2, n) = 1..n - 1
         /\ \A i \in 1..n - 1 : SubSeq(s, 2, n)[i] = s[i + 1]
         /\ DOMAIN s = 1..Len(s) /\ Len(s) \in Nat
<1>1. Len(s) \in Nat /\ DOMAIN s = 1..Len(s)
  BY LenProperties
<1>2. \A i \in 2..n : s[i] \in S
  BY <1>1, ElementOfSeq
<1> DEFINE u == SubSeq(s, 2, n)
<1>3. /\ u \in Seq(S) /\ Len(u) = IF 2 <= n THEN n - 2 + 1 ELSE 0
      /\ \A i \in 1..n - 2 + 1 : u[i] = s[2 + i - 1]
  <2> HIDE DEF u
  <2>1. 2 \in Int /\ n \in Int
    BY <1>1
  <2> QED
    BY <1>2, <2>1, SubSeqProperties DEF u
<1>4. DOMAIN u = 1..Len(u)
  BY <1>3, LenProperties
<1> HIDE DEF u
<1> QED
  BY <1>1, <1>3, <1>4 DEF u

LEMMA ShapesStartWaiting ==
  ASSUME Shapes, NEW t \in Callers, NEW d \in Descriptors, NEW w \in Operations,
         NEW speculative \in BOOLEAN, StartWaiting(t, d, w, speculative)
  PROVE  Shapes'
<1> USE IoServiceAssumption, ReactorAssumption
<1>1. Append(waiting[d], w) \in Seq(Operations)
  BY AppendAt DEF Shapes, Typed
<1>2. waiting' \in [Descriptors -> Seq(Operations)]
  BY <1>1 DEF StartWaiting, Shapes, Typed
<1>3. edge' \in [Descriptors -> BOOLEAN]
  BY DEF StartWaiting, Speculates, Shapes, Typed
<1>4. work' \in Int /\ pending' \subseteq Items
  BY DEF StartWaiting, Shapes, Typed, Items
<1> QED
  BY <1>2, <1>3, <1>4 DEF StartWaiting, threadVars, Shapes, Typed, Shape, CallsTyped, CallShape

LEMMA ShapesStartReady ==
  ASSUME Shapes, NEW t \in Callers, NEW d \in Descriptors, NEW w \in Operations,
         NEW speculative \in BOOLEAN, NEW continuation \in BOOLEAN,
         ~registered[d] \/ (speculative /\ Speculates(d)),
         StartReady(t, d, w, continuation)
  PROVE  Shapes'
<1> USE IoServiceAssumption, ReactorAssumption
<1>1. data' \in [Descriptors -> 0..MaxData]
  <2>1. data[d] \in 0..MaxData
    BY DEF Shapes, Typed
  <2>2. CASE registered[d]
    <3>1. data[d] - 1 \in 0..MaxData /\ data' = [data EXCEPT ![d] = data[d] - 1]
      BY <2>1, <2>2 DEF StartReady, Speculates
    <3> QED
      BY <3>1 DEF Shapes, Typed
  <2>3. CASE ~registered[d]
    BY <2>3 DEF StartReady, Shapes, Typed
  <2> QED
    BY <2>2, <2>3
<1>2. w \in Items /\ (t \in Threads => at[t] = "user") /\ UNCHANGED <<at, doing>>
      /\ PostImmediate(t, w, continuation)
  BY DEF StartReady, Using, Items
<1>3. /\ CallsTyped' /\ work' \in Int /\ pending' \subseteq Items
      /\ own' \in [Threads -> Seq(Items \cup Descriptors)] /\ credit' \in [Threads -> Nat]
      /\ \A s \in Threads : Shape(s)'
  BY <1>2, PostTyped
<1> QED
  BY <1>1, <1>3 DEF StartReady, Shapes, Typed

LEMMA ShapesAbort ==
  ASSUME Shapes, NEW t \in Callers, NEW d \in Descriptors, CancelOps(t, d) \/ Deregister(t, d)
  PROVE  Shapes'
<1> USE IoServiceAssumption, ReactorAssumption
<1>1. CallsTyped'
  <2>1. waiting[d] \in Seq(Items)
    BY SeqMonotonic DEF Shapes, Typed, Items
  <2>2. CASE Calls(t, "push", waiting[d])
    BY <2>1, <2>2, CallTyped DEF Shapes
  <2>3. CASE UNCHANGED call
    BY <2>3 DEF Shapes, CallsTyped, CallShape
  <2> QED
    BY <2>2, <2>3 DEF CancelOps, Deregister, Abort
<1>2. waiting' \in [Descriptors -> Seq(Operations)]
  <2>1. <<>> \in Seq(Operations)
    BY EmptySeq
  <2>2. waiting' = [waiting EXCEPT ![d] = <<>>]
    BY DEF CancelOps, Deregister, Abort
  <2> QED
    BY <2>1, <2>2 DEF Shapes, Typed
<1>3. /\ registered' \in [Descriptors -> BOOLEAN] /\ edge' \in [Descriptors -> BOOLEAN]
      /\ data' \in [Descriptors -> 0..MaxData]
  <2>1. CASE CancelOps(t, d)
    BY <2>1 DEF CancelOps, Shapes, Typed
  <2>2. CASE Deregister(t, d)
    <3>1. /\ registered' = [registered EXCEPT ![d] = FALSE]
          /\ edge' = [edge EXCEPT ![d] = FALSE] /\ data' = [data EXCEPT ![d] = 0]
      BY <2>2 DEF Deregister
    <3> QED
      BY <3>1 DEF Shapes, Typed
  <2> QED
    BY <2>1, <2>2
<1>4. /\ closing' \in [Callers -> Descriptors \cup {Nothing}]
      /\ late' \subseteq {c \in Callers : closing'[c] # Nothing}
  <2>1. CASE CancelOps(t, d)
    BY <2>1 DEF CancelOps, Shapes, Typed
  <2>2. CASE Deregister(t, d)
    <3>1. /\ d # Nothing
          /\ \/ UNCHANGED <<closing, late>>
             \/ closing' = [closing EXCEPT ![t] = d] /\ late' \subseteq late \cup {t}
      BY <2>2 DEF Deregister
    <3>2. CASE UNCHANGED <<closing, late>>
      BY <3>2 DEF Shapes, Typed
    <3>3. CASE closing' = [closing EXCEPT ![t] = d] /\ late' \subseteq late \cup {t}
      BY <3>1, <3>3 DEF Shapes, Typed
    <3> QED
      BY <3>1, <3>2, <3>3
  <2> QED
    BY <2>1, <2>2
<1>5. UNCHANGED <<poolVars, threadVars, pending>>
  BY DEF CancelOps, Deregister, Abort
<1> QED
  BY <1>1, <1>2, <1>3, <1>4, <1>5 DEF poolVars, threadVars, Shapes, Typed, Shape

LEMMA ShapesClose ==
  ASSUME Shapes, NEW t \in Callers, CloseSocket(t) \/ ArriveLate(t)
  PROVE  Shapes'
<1>1. /\ closing' \in [Callers -> Descriptors \cup {Nothing}]
      /\ late' \subseteq {c \in Callers : closing'[c] # Nothing}
  BY DEF CloseSocket, ArriveLate, Shapes, Typed
<1>2. UNCHANGED <<serviceVars, registered, waiting, data, edge>>
  BY DEF CloseSocket, ArriveLate
<1> QED
  BY <1>1, <1>2 DEF serviceVars, poolVars, threadVars, Shapes, Typed, Shape, CallsTyped, CallShape

\* What epoll reports is finitely many events of descriptors.
LEMMA EventsTyped ==
  ASSUME Shapes
  PROVE  /\ Events \subseteq Descriptors \X (Callers \cup {Nothing})
         /\ IsFiniteSet(Events) /\ Cardinality(Events) \in Nat
<1>1. ASSUME NEW c \in late PROVE c \in Callers /\ closing[c] \in Descriptors
  BY DEF Shapes, Typed
<1>2. Events \subseteq Descriptors \X (Callers \cup {Nothing})
  BY <1>1 DEF Events
<1>3. IsFiniteSet(Callers \cup {Nothing})
  BY FS_Union, FS_AddElement, IoServiceAssumption, ReactorAssumption DEF Callers
<1>4. IsFiniteSet(Descriptors \X (Callers \cup {Nothing}))
  BY <1>3, FS_Product, IoServiceAssumption
<1>5. IsFiniteSet(Events)
  BY <1>2, <1>4, FS_Subset
<1> QED
  BY <1>2, <1>5, FS_CardinalityType

LEMMA EventsListed ==
  ASSUME Shapes, NEW events \in SetToSeqs(Events)
  PROVE  /\ DOMAIN events = 1..Cardinality(Events)
         /\ \A i \in DOMAIN events : events[i] \in Events
         /\ \A i, j \in DOMAIN events : events[i] = events[j] => i = j
         /\ \A e \in Events : \E i \in DOMAIN events : events[i] = e
<1>1. IsFiniteSet(Events) /\ Cardinality(Events) \in Nat
  BY EventsTyped
<1>2. /\ events \in [1..Cardinality(Events) -> Events]
      /\ \A i, j \in 1..Cardinality(Events) : i # j => events[i] # events[j]
  BY DEF SetToSeqs
<1>3. events \in Injection(1..Cardinality(Events), Events)
  BY <1>2 DEF Injection, IsInjective
<1>4. Cardinality(1..Cardinality(Events)) = Cardinality(Events)
  BY <1>1, FS_Interval
<1>5. events \in Surjection(1..Cardinality(Events), Events)
  BY <1>1, <1>3, <1>4, FS_Injection
<1> QED
  BY <1>2, <1>5 DEF Surjection

\* What a poll queues: states of descriptors, those of every ready one among them.
LEMMA StatesQueued ==
  ASSUME Shapes, NEW events \in SetToSeqs(Events)
  PROVE  /\ States(events) \in Seq(Descriptors)
         /\ \A d \in Descriptors : Ready(d) => d \in ToSet(States(events))
<1>1. /\ DOMAIN events = 1..Cardinality(Events) /\ Cardinality(Events) \in Nat
      /\ \A i \in DOMAIN events : events[i][1] \in Descriptors
  BY EventsListed, EventsTyped
<1>2. States(events) \in [1..Cardinality(Events) -> Descriptors]
  BY <1>1 DEF States
<1>3. ASSUME NEW d \in Descriptors, Ready(d)
      PROVE  d \in ToSet(States(events))
  <2>1. <<d, Nothing>> \in Events
    BY <1>3 DEF Events
  <2>2. PICK i \in DOMAIN events : events[i] = <<d, Nothing>>
    BY <2>1, EventsListed
  <2>3. i \in DOMAIN States(events) /\ States(events)[i] = d
    BY <2>2 DEF States
  <2> QED
    BY <2>3 DEF ToSet
<1> QED
  BY <1>1, <1>2, <1>3

\* None of them twice, if no two sockets share a state.
LEMMA StatesOnce ==
  ASSUME Shapes, Apart, NEW events \in SetToSeqs(Events)
  PROVE  \A i, j \in DOMAIN States(events) : States(events)[i] = States(events)[j] => i = j
<1>1. ASSUME NEW e \in Events, NEW f \in Events, e[1] = f[1]
      PROVE  e = f
  <2>1. ASSUME NEW c \in late
        PROVE  c \in Callers /\ closing[c] # Nothing /\ closing[c] \in Descriptors
               /\ ~registered[closing[c]]
    BY <2>1 DEF Shapes, Typed, Apart
  <2>2. ASSUME NEW d \in Descriptors, Ready(d) PROVE registered[d]
    BY <2>2 DEF Ready, Apart
  <2>3. \/ \E d \in Descriptors : Ready(d) /\ e = <<d, Nothing>>
        \/ \E c \in late : e = <<closing[c], c>>
    BY DEF Events
  <2>4. \/ \E d \in Descriptors : Ready(d) /\ f = <<d, Nothing>>
        \/ \E c \in late : f = <<closing[c], c>>
    BY DEF Events
  <2>5. CASE \E c \in late : e = <<closing[c], c>>
    <3>1. PICK b \in late : e = <<closing[b], b>>
      BY <2>5
    <3>2. PICK c \in late : f = <<closing[c], c>>
      BY <1>1, <2>1, <2>2, <2>4, <3>1
    <3> QED
      BY <1>1, <2>1, <3>1, <3>2 DEF Apart
  <2>6. CASE \E d \in Descriptors : Ready(d) /\ e = <<d, Nothing>>
    BY <1>1, <2>1, <2>2, <2>4, <2>6
  <2> QED
    BY <2>3, <2>5, <2>6
<1>2. SUFFICES ASSUME NEW i \in DOMAIN events, NEW j \in DOMAIN events, events[i][1] = events[j][1]
               PROVE  i = j
  BY DEF States
<1>3. events[i] = events[j]
  BY <1>1, <1>2, EventsListed
<1> QED
  BY <1>3, EventsListed

LEMMA ShapesReactor ==
  ASSUME Shapes, NEW t \in Threads, Poll(t) \/ PerformIo(t) \/ Compensate(t)
  PROVE  Shapes'
<1> USE IoServiceAssumption, ReactorAssumption
<1>0. t \in Callers
  BY DEF Callers
<1>1. CASE Poll(t)
  <2>0. PICK events \in SetToSeqs(Events) : own' = [own EXCEPT ![t] = own[t] \o States(events)]
    BY <1>1 DEF Poll
  <2>1. PICK found : found = States(events) /\ own' = [own EXCEPT ![t] = own[t] \o found]
    BY <2>0
  <2>2. own[t] = <<>>
    BY <1>1 DEF Poll, Shapes, Shape, Crediting
  <2>3. found \in Seq(Descriptors) /\ own[t] \o found = found
    BY <2>1, <2>2, StatesQueued, ConcatEmptySeq
  <2>4. own' = [own EXCEPT ![t] = found] /\ found \in Seq(Items \cup Descriptors)
    BY <2>1, <2>3, SeqMonotonic
  <2>5. own' \in [Threads -> Seq(Items \cup Descriptors)]
    BY <2>4 DEF Shapes, Typed
  <2>6. at' \in [Threads -> Places] /\ awakened' \in BOOLEAN
    BY <1>1 DEF Poll, Shapes, Typed, Places
  <2>7. /\ edge' \in [Descriptors -> BOOLEAN]
        /\ late' \subseteq {c \in Callers : closing'[c] # Nothing}
    BY <1>1 DEF Poll, Ready, Shapes, Typed
  <2>8. \A s \in Threads : Shape(s)'
    BY <1>1, <2>3, <2>4 DEF Poll, Shapes, Typed, Shape, Crediting
  <2> QED
    BY <1>1, <2>5, <2>6, <2>7, <2>8 DEF Poll, Shapes, Typed, CallsTyped, CallShape
<1>2. CASE PerformIo(t)
  <2> DEFINE d == doing[t]
             n == Performed(d)
  <2>1. d \in Descriptors
    BY <1>2 DEF PerformIo, Shapes, Shape
  <2>2. /\ waiting[d] \in Seq(Operations) /\ Len(waiting[d]) \in Nat
        /\ data[d] \in 0..MaxData /\ n \in 0..Len(waiting[d]) /\ data[d] - n \in 0..MaxData
    <3>1. waiting[d] \in Seq(Operations) /\ Len(waiting[d]) \in Nat /\ data[d] \in 0..MaxData
      BY <2>1, LenProperties DEF Shapes, Typed
    <3> QED
      BY <3>1 DEF Performed
  <2>3. /\ at[t] = "performing"
        /\ waiting' = [waiting EXCEPT ![d] = SubSeq(waiting[d], n + 1, Len(waiting[d]))]
        /\ data' = [data EXCEPT ![d] = data[d] - n]
        /\ n = 0 => doing' = [doing EXCEPT ![t] = Nothing] /\ at' = [at EXCEPT ![t] = "compensating"]
        /\ n # 0 => doing' = [doing EXCEPT ![t] = Head(waiting[d])] /\ at' = [at EXCEPT ![t] = "user"]
        /\ n > 1 => Calls(t, "push", SubSeq(waiting[d], 2, n))
        /\ ~(n > 1) => UNCHANGED call
        /\ UNCHANGED <<poolVars, own, credit, pending, registered, edge, closing, late>>
    BY <1>2 DEF PerformIo
  <2>4. waiting' \in [Descriptors -> Seq(Operations)]
    <3>1. SubSeq(waiting[d], n + 1, Len(waiting[d])) \in Seq(Operations)
      BY <2>2, Suffix
    <3> QED
      BY <2>3, <3>1 DEF Shapes, Typed
  <2>5. data' \in [Descriptors -> 0..MaxData]
    BY <2>2, <2>3 DEF Shapes, Typed
  <2>6. n # 0 => Head(waiting[d]) \in Items
    <3>1. n # 0 => waiting[d] # <<>>
      BY <2>2, EmptySeq
    <3> QED
      BY <2>2, <3>1, TailAt DEF Items
  <2>7. CallsTyped'
    <3>1. CASE n > 1
      <4>1. SubSeq(waiting[d], 2, n) \in Seq(Operations)
        BY <2>2, <3>1, Middle
      <4>2. SubSeq(waiting[d], 2, n) \in Seq(Items)
        BY <4>1, SeqMonotonic DEF Items
      <4> HIDE DEF n
      <4> QED
        BY <1>0, <2>3, <3>1, <4>2, CallTyped DEF Shapes
    <3>2. CASE ~(n > 1)
      BY <2>3, <3>2 DEF Shapes, CallsTyped, CallShape
    <3> QED
      BY <3>1, <3>2
  <2> HIDE DEF n, d
  <2>8. /\ doing' \in [Threads -> Items \cup Descriptors \cup {Nothing}]
        /\ at' \in [Threads -> Places]
    <3>1. CASE n = 0
      BY <2>3, <3>1 DEF Shapes, Typed, Places
    <3>2. CASE n # 0
      <4>1. doing' \in [Threads -> Items \cup Descriptors \cup {Nothing}]
        BY <2>3, <2>6, <3>2 DEF Shapes, Typed
      <4>2. at' \in [Threads -> Places]
        BY <2>3, <3>2 DEF Shapes, Typed, Places
      <4> QED
        BY <4>1, <4>2
    <3> QED
      BY <3>1, <3>2
  <2>9. ASSUME NEW s \in Threads PROVE Shape(s)'
    <3>1. own' = own /\ credit' = credit
      BY <2>3
    <3>2. CASE s # t
      <4>1. at'[s] = at[s] /\ doing'[s] = doing[s]
        BY <2>3, <3>2 DEF Shapes, Typed
      <4> QED
        BY <3>1, <4>1 DEF Shapes, Shape
    <3>3. CASE s = t
      <4>1. own[t] = <<>> /\ credit[t] = 0 /\ <<>> \in Seq(Items) /\ Len(<<>>) = 0
        BY <2>3, EmptySeq DEF Shapes, Shape, Crediting
      <4>2. \/ at'[t] = "compensating"
            \/ at'[t] = "user" /\ doing'[t] \in Items
        BY <2>3, <2>6 DEF Shapes, Typed
      <4> QED
        BY <3>1, <3>3, <4>1, <4>2 DEF Shape, Crediting
    <3> QED
      BY <3>2, <3>3
  <2> QED
    BY <2>3, <2>4, <2>5, <2>7, <2>8, <2>9 DEF poolVars, Shapes, Typed
<1>3. CASE Compensate(t)
  <2>1. at' \in [Threads -> Places] /\ work' \in Int
    BY <1>3 DEF Compensate, Shapes, Typed, Places
  <2>2. \A s \in Threads : Shape(s)'
    BY <1>3, EmptySeq DEF Compensate, Shapes, Typed, Shape, Crediting
  <2> QED
    BY <1>3, <2>1, <2>2 DEF Compensate, reactorVars, Shapes, Typed, CallsTyped, CallShape
<1> QED
  BY <1>1, <1>2, <1>3

LEMMA ShapesStep == Shapes /\ [Next]_vars => Shapes'
<1> SUFFICES ASSUME Shapes, [Next]_vars PROVE Shapes'
  OBVIOUS
<1>1. ASSUME NEW t \in Threads, Run(t) \/ Return(t) \/ (WakeSpuriously(t) /\ UNCHANGED reactorVars)
      PROVE  Shapes'
  BY <1>1, ShapesScheduler, ShapesReactor DEF Run, Return
<1>2. ASSUME NEW t \in Callers, Complete(t) \/ Use(t)
      PROVE  Shapes'
  <2>1. CASE Complete(t)
    BY <2>1, ShapesCallers, ShapesClose DEF Complete
  <2>2. CASE (PostHandler(t) \/ InitTask(t) \/ StopByUser(t)) /\ UNCHANGED reactorVars
    BY <2>2, ShapesCallers
  <2>3. CASE StartOp(t)
    BY <2>3, ShapesStartWaiting, ShapesStartReady DEF StartOp
  <2>4. ASSUME NEW d \in Descriptors, Register(t, d)
        PROVE  Shapes'
    <3>1. registered' \in [Descriptors -> BOOLEAN]
      BY <2>4 DEF Register, Shapes, Typed
    <3> QED
      BY <2>4, <3>1 DEF Register, serviceVars, poolVars, threadVars, Shapes, Typed, Shape, CallsTyped,
         CallShape
  <2>5. ASSUME NEW d \in Descriptors, CancelOps(t, d) \/ Deregister(t, d)
        PROVE  Shapes'
    BY <2>5, ShapesAbort
  <2> QED
    BY <1>2, <2>1, <2>2, <2>3, <2>4, <2>5 DEF Use
<1>3. ASSUME NEW d \in Descriptors, Arrive(d)
      PROVE  Shapes'
  <2>1. data[d] \in 0..MaxData /\ data[d] + 1 \in 0..MaxData
    BY <1>3, ReactorAssumption DEF Arrive, Shapes, Typed
  <2>2. data' \in [Descriptors -> 0..MaxData] /\ edge' \in [Descriptors -> BOOLEAN]
    BY <1>3, <2>1 DEF Arrive, Shapes, Typed
  <2> QED
    BY <1>3, <2>2 DEF Arrive, serviceVars, poolVars, threadVars, Shapes, Typed, Shape, CallsTyped,
       CallShape
<1>4. CASE Reset /\ UNCHANGED reactorVars
  BY <1>4 DEF Reset, threadVars, reactorVars, Shapes, Typed, Shape, CallsTyped, CallShape
<1>5. CASE UNCHANGED vars
  BY <1>5 DEF vars, serviceVars, poolVars, threadVars, reactorVars, Shapes, Typed, Shape, CallsTyped,
     CallShape
<1> QED
  BY <1>1, <1>2, <1>3, <1>4, <1>5, ShapesClose DEF Next
-----------------------------------------------------------------------------

(* Sockets that are being closed.                                          *)

LEMMA ApartStep ==
  ASSUME Shapes, Apart, ~Overlapping, [Next]_vars
  PROVE  Apart'
<1>1. CASE UNCHANGED <<registered, edge, closing>>
  BY <1>1 DEF Apart
<1>2. ASSUME NEW t \in Threads, Run(t) \/ Return(t) \/ (WakeSpuriously(t) /\ UNCHANGED reactorVars)
      PROVE  Apart'
  <2>1. CASE Poll(t)
    BY <2>1 DEF Poll, Apart
  <2>2. CASE ~Poll(t)
    <3>1. UNCHANGED <<registered, edge, closing>>
      BY <1>2, <2>2 DEF Run, Return, PerformIo, Compensate, reactorVars
    <3> QED
      BY <1>1, <3>1
  <2> QED
    BY <2>1, <2>2
<1>3. ASSUME NEW t \in Callers, Complete(t)
      PROVE  Apart'
  <2>1. CASE CloseSocket(t)
    <3>1. /\ UNCHANGED <<registered, edge>>
          /\ \A c \in Callers : closing'[c] \in {closing[c], Nothing}
      BY <2>1 DEF CloseSocket, Shapes, Typed
    <3>2. \A c \in Callers : closing'[c] # Nothing => closing'[c] = closing[c]
      BY <3>1
    <3> QED
      BY <3>1, <3>2 DEF Apart
  <2>2. CASE ~CloseSocket(t)
    BY <1>1, <1>3, <2>2 DEF Complete, reactorVars
  <2> QED
    BY <2>1, <2>2
<1>4. ASSUME NEW t \in Callers, Use(t)
      PROVE  Apart'
  <2>1. CASE (PostHandler(t) \/ InitTask(t) \/ StopByUser(t)) /\ UNCHANGED reactorVars
    BY <1>1, <2>1 DEF reactorVars
  <2>2. CASE StartOp(t)
    <3>1. PICK d \in Descriptors, w \in Operations \ pending,
               speculative \in BOOLEAN, continuation \in BOOLEAN :
            StartReady(t, d, w, continuation) \/ StartWaiting(t, d, w, speculative)
      BY <2>2 DEF StartOp
    <3>2. CASE StartReady(t, d, w, continuation)
      BY <1>1, <3>2 DEF StartReady
    <3>3. CASE StartWaiting(t, d, w, speculative)
      <4>1. /\ registered[d] /\ UNCHANGED <<registered, closing>>
            /\ \A b \in Descriptors \ {d} : edge'[b] = edge[b]
        BY <3>3 DEF StartWaiting, Shapes, Typed
      <4> QED
        BY <4>1 DEF Apart
    <3> QED
      BY <3>1, <3>2, <3>3
  <2>3. ASSUME NEW d \in Descriptors, Register(t, d)
        PROVE  Apart'
    <3>1. /\ UNCHANGED <<edge, closing>> /\ \A c \in Callers : closing[c] # d
          /\ registered'[d] = TRUE /\ \A b \in Descriptors \ {d} : registered'[b] = registered[b]
      BY <2>3 DEF Register, Shapes, Typed
    <3>2. \A c \in Callers : closing[c] # Nothing => closing[c] \in Descriptors \ {d}
      BY <3>1 DEF Shapes, Typed
    <3> QED
      BY <3>1, <3>2 DEF Apart
  <2>4. ASSUME NEW d \in Descriptors, CancelOps(t, d)
        PROVE  Apart'
    BY <1>1, <2>4 DEF CancelOps
  <2>5. ASSUME NEW d \in Descriptors, Deregister(t, d)
        PROVE  Apart'
    <3>1. /\ registered[d] /\ registered'[d] = FALSE /\ edge'[d] = FALSE
          /\ closing'[t] \in {closing[t], d} /\ \A c \in Callers \ {t} : closing'[c] = closing[c]
          /\ \A b \in Descriptors \ {d} : registered'[b] = registered[b] /\ edge'[b] = edge[b]
      BY <2>5 DEF Deregister, Shapes, Typed
    <3>2. \A c \in Callers : closing[c] # Nothing => closing[c] \in Descriptors \ {d}
      BY <3>1 DEF Apart, Shapes, Typed
    <3>3. \A c \in Callers : closing'[c] # Nothing => ~registered'[closing'[c]]
      BY <3>1, <3>2 DEF Apart
    <3>4. \A b, c \in Callers : closing'[b] # Nothing /\ closing'[b] = closing'[c] => b = c
      BY <3>1, <3>2, IoServiceAssumption DEF Apart
    <3>5. \A b \in Descriptors : edge'[b] => registered'[b]
      BY <3>1 DEF Apart
    <3> QED
      BY <3>3, <3>4, <3>5 DEF Apart
  <2> QED
    BY <1>4, <2>1, <2>2, <2>3, <2>4, <2>5 DEF Use
<1>5. ASSUME NEW d \in Descriptors, Arrive(d)
      PROVE  Apart'
  <2>1. /\ registered[d] /\ UNCHANGED <<registered, closing>>
        /\ \A b \in Descriptors \ {d} : edge'[b] = edge[b]
    BY <1>5 DEF Arrive, Shapes, Typed
  <2> QED
    BY <2>1 DEF Apart
<1>6. ASSUME NEW t \in Callers, ArriveLate(t)
      PROVE  UNCHANGED <<registered, edge, closing>>
  BY <1>6 DEF ArriveLate
<1>7. (Reset /\ UNCHANGED reactorVars) \/ UNCHANGED vars => UNCHANGED <<registered, edge, closing>>
  BY DEF vars, reactorVars
<1> QED
  BY <1>1, <1>2, <1>3, <1>4, <1>5, <1>6, <1>7 DEF Next
-----------------------------------------------------------------------------

(* The links, action by action: where each of them was before the step.    *)

LEMMA QuietLinks ==
  ASSUME Shapes, Linked, UNCHANGED <<queue, own, waiting, doing, pending, task>>,
         \A c \in Callers : call'[c].ops = call[c].ops,
         \A s \in Threads : \/ at'[s] = at[s]
                            \/ {at[s], at'[s]} \cap {"user", "blocking", "polling", "polled"} = {}
  PROVE  Linked'
<1>1. InReactor' = InReactor /\ \A s \in Threads : at'[s] = "user" <=> at[s] = "user"
  BY DEF InReactor
<1>2. \A k, a, i, x : Lies(k, a, i, x)' <=> Lies(k, a, i, x)
  BY <1>1 DEF Lies
<1>3. Once' /\ Due'
  BY <1>2 DEF Linked, Once, Due
<1>4. \A t \in InReactor : at'[t] # "polled" => at[t] # "polled"
  BY DEF InReactor
<1> QED
  BY <1>1, <1>3, <1>4 DEF Linked, TaskBehind

LEMMA TakeOperationLinks ==
  ASSUME Shapes, Linked, NEW t \in Threads, TakeOperation(t), UNCHANGED reactorVars
  PROVE  Linked'
<1>1. /\ at[t] = "loop" /\ queue # <<>> /\ Head(queue) # Task /\ queue \in Seq(Queued)
      /\ queue' = Tail(queue)
      /\ doing' = [doing EXCEPT ![t] = Head(queue)]
      /\ at' = [at EXCEPT ![t] = IF Head(queue) \in Descriptors THEN "performing" ELSE "user"]
      /\ UNCHANGED <<own, waiting, pending, task>>
  BY DEF TakeOperation, AtHead, reactorVars, Shapes, Typed
<1>2. \A c \in Callers : call'[c].ops = call[c].ops
  <2>1. call[t].ops = <<>> /\ t \in Callers
    BY DEF TakeOperation, AtHead, Free, NoCall, Callers
  <2>2. CASE WakeOne(t)
    BY <2>1, <2>2, WakeOneTyped
  <2> QED
    BY <2>2 DEF TakeOperation
<1>3. /\ 1 \in DOMAIN queue /\ Head(queue) = queue[1] /\ queue[1] \in Items \cup Descriptors
      /\ \A i : i \in DOMAIN queue' <=> i \in Nat \ {0} /\ i + 1 \in DOMAIN queue
      /\ \A i \in DOMAIN queue' : queue'[i] = queue[i + 1]
  BY <1>1, TailAt DEF Queued
<1>4. /\ at'[t] = (IF queue[1] \in Descriptors THEN "performing" ELSE "user") /\ doing'[t] = queue[1]
      /\ \A s \in Threads \ {t} : at'[s] = at[s] /\ doing'[s] = doing[s]
  BY <1>1, <1>3 DEF Shapes, Typed
<1>5. InReactor' = InReactor
  BY <1>1, <1>4 DEF InReactor
<1>6. ASSUME NEW k, NEW a, NEW i, NEW x
      PROVE  Lies(k, a, i, x)' <=>
               \/ k = "queue" /\ i \in Nat \ {0} /\ Lies("queue", a, i + 1, x)
               \/ k = "upcall" /\ a = t /\ i = 1 /\ Lies("queue", Task, 1, x) /\ x \notin Descriptors
               \/ k # "queue" /\ Lies(k, a, i, x)
  BY <1>1, <1>2, <1>3, <1>4, <1>5 DEF Lies
<1>7. Lies("queue", Task, 1, queue[1]) /\ \A i, x : ~Lies("upcall", t, i, x)
  BY <1>1, <1>3 DEF Lies
<1>8. \A a, i, x : Lies("queue", a, i, x) => a = Task /\ i \in Nat \ {0}
  BY <1>1, LenProperties DEF Lies
<1>9. Once'
  BY <1>6, <1>7, <1>8 DEF Linked, Once
<1>10. Due'
  <2>1. ASSUME NEW x \in Items, NEW k, NEW a, NEW i, Lies(k, a, i, x)
        PROVE  \E l, b, j : Lies(l, b, j, x)'
    <3>1. CASE k # "queue"
      BY <1>6, <2>1, <3>1
    <3>2. CASE k = "queue" /\ i = 1
      BY <1>6, <1>8, <2>1, <3>2, IoServiceAssumption
    <3>3. CASE k = "queue" /\ i # 1
      <4>1. i - 1 \in Nat \ {0} /\ (i - 1) + 1 = i
        BY <1>8, <2>1, <3>3
      <4> QED
        BY <1>6, <2>1, <3>3, <4>1
    <3> QED
      BY <3>1, <3>2, <3>3
  <2>2. ASSUME NEW x \in Items, NEW k, NEW a, NEW i, Lies(k, a, i, x)'
        PROVE  \E l, b, j : Lies(l, b, j, x)
    BY <1>6, <2>2
  <2> QED
    BY <1>1, <2>1, <2>2 DEF Linked, Due
<1>11. TaskBehind'
  <2>1. \A i \in DOMAIN queue' : i + 1 \in DOMAIN queue /\ i \in Nat /\ queue'[i] = queue[i + 1]
    BY <1>3
  <2>2. \A i \in DOMAIN queue : i \in Nat \ {0} /\ (queue[i] = Task => i - 1 \in DOMAIN queue' /\ queue'[i - 1] = Task)
    BY <1>1, <1>3, LenProperties
  <2>3. (Task \in ToSet(queue))' <=> Task \in ToSet(queue)
    BY <2>1, <2>2 DEF ToSet
  <2>4. \A i, j \in DOMAIN queue' :
          queue'[i] = Task /\ queue'[j] \in Descriptors \cup {Task} => j <= i
    BY <2>1 DEF Linked, TaskBehind
  <2>5. ToSet(queue)' \subseteq ToSet(queue)
    BY <2>1 DEF ToSet
  <2>6. \A s \in InReactor : at'[s] = at[s]
    BY <1>1, <1>4 DEF InReactor
  <2> QED
    BY <1>1, <1>5, <2>3, <2>4, <2>5, <2>6 DEF Linked, TaskBehind
<1> QED
  BY <1>9, <1>10, <1>11 DEF Linked

LEMMA LiesPlace ==
  ASSUME Shapes, NEW k, NEW a, NEW i, NEW x, Lies(k, a, i, x)
  PROVE  /\ i \in Nat \ {0}
         /\ k = "queue" => a = Task /\ i <= Len(queue) /\ Len(queue) \in Nat
<1>1. \A S : \A u \in Seq(S) : Len(u) \in Nat /\ DOMAIN u = 1..Len(u)
  BY LenProperties
<1>2. \A b \in Threads : own[b] \in Seq(Items \cup Descriptors)
  BY DEF Shapes, Typed
<1>3. \A b \in Callers : call[b].ops \in Seq(Items)
  BY DEF Shapes, CallsTyped
<1>4. queue \in Seq(Queued) /\ \A b \in Descriptors : waiting[b] \in Seq(Operations)
  BY DEF Shapes, Typed
<1> QED
  BY <1>1, <1>2, <1>3, <1>4 DEF Lies

LEMMA TaskBehindSame ==
  ASSUME TaskBehind, UNCHANGED <<queue, task>>, InReactor' = InReactor,
         \A s \in InReactor : at'[s] # "polled" => at[s] # "polled"
  PROVE  TaskBehind'
BY DEF TaskBehind

LEMMA TaskBehindGrows ==
  ASSUME TaskBehind, queue \in Seq(Queued), NEW ops \in Seq(Items), queue' = queue \o ops,
         task' = task, InReactor' = InReactor,
         \A s \in InReactor : at'[s] # "polled" => at[s] # "polled"
  PROVE  TaskBehind'
<1>1. ops \in Seq(Queued) /\ \A i \in DOMAIN ops : ops[i] \in Items
  BY SeqMonotonic, LenProperties DEF Queued
<1>2. /\ \A i \in DOMAIN queue : i \in DOMAIN queue' /\ queue'[i] = queue[i]
      /\ \A i \in DOMAIN queue' :
           \/ i \in DOMAIN queue /\ queue'[i] = queue[i]
           \/ queue'[i] \in Items
  <2>1. /\ \A i \in DOMAIN queue : i \in DOMAIN (queue \o ops) /\ (queue \o ops)[i] = queue[i]
        /\ \A i \in DOMAIN (queue \o ops) :
             \/ i \in DOMAIN queue /\ (queue \o ops)[i] = queue[i]
             \/ i - Len(queue) \in DOMAIN ops /\ (queue \o ops)[i] = ops[i - Len(queue)]
    BY <1>1, JoinAt
  <2> QED
    BY <1>1, <2>1
<1>3. \A i \in DOMAIN queue' : queue'[i] \in Descriptors \cup {Task} => i \in DOMAIN queue /\ queue'[i] = queue[i]
  BY <1>2, IoServiceAssumption
<1>4. (Task \in ToSet(queue))' <=> Task \in ToSet(queue)
  BY <1>2, <1>3 DEF ToSet
<1>5. ToSet(queue)' \cap Descriptors = ToSet(queue) \cap Descriptors
  BY <1>2, <1>3 DEF ToSet
<1>6. \A i, j \in DOMAIN queue' :
        queue'[i] = Task /\ queue'[j] \in Descriptors \cup {Task} => j <= i
  BY <1>3 DEF TaskBehind
<1> QED
  BY <1>4, <1>5, <1>6 DEF TaskBehind

LEMMA PushLinks ==
  ASSUME Shapes, Linked, NEW t \in Callers, Push(t), UNCHANGED reactorVars
  PROVE  Linked'
<1> DEFINE ops == call[t].ops
<1>1. /\ queue' = queue \o ops /\ ops \in Seq(Items)
      /\ UNCHANGED <<own, waiting, pending, task, at, doing>> /\ InReactor' = InReactor
  BY DEF Push, threadVars, reactorVars, Shapes, CallsTyped, InReactor
<1>2. call'[t].ops = <<>> /\ \A c \in Callers \ {t} : call'[c] = call[c]
  BY WakeOneTyped DEF Push
<1>0. PICK n \in Nat : n = Len(queue)
  BY LenProperties DEF Shapes, Typed
<1>3. /\ \A i \in DOMAIN queue : i \in DOMAIN queue' /\ queue'[i] = queue[i]
      /\ \A i \in DOMAIN ops : i + n \in DOMAIN queue' /\ queue'[i + n] = ops[i]
      /\ \A i \in DOMAIN queue' :
           \/ i \in DOMAIN queue /\ queue'[i] = queue[i]
           \/ i - n \in DOMAIN ops /\ queue'[i] = ops[i - n]
      /\ DOMAIN queue' \subseteq Nat
  <2>1. queue \in Seq(Queued) /\ ops \in Seq(Queued)
    BY <1>1, SeqMonotonic DEF Shapes, Typed, Queued
  <2>2. queue \o ops \in Seq(Queued)
    BY <2>1, JoinAt
  <2>3. DOMAIN (queue \o ops) \subseteq Nat
    BY <2>2, LenProperties
  <2> HIDE DEF ops
  <2> QED
    BY <1>0, <1>1, <2>1, <2>3, JoinAt
<1> HIDE DEF ops
<1>4. ASSUME NEW k, NEW a, NEW i, NEW x, Lies(k, a, i, x)'
      PROVE  \/ k = "queue" /\ a = Task /\ i \in Nat /\ Lies("call", t, i - n, x)
             \/ ~(k = "call" /\ a = t) /\ Lies(k, a, i, x)
  BY <1>1, <1>2, <1>3, <1>4 DEF Lies, ops
<1>5. ASSUME NEW k, NEW a, NEW i, NEW x, Lies(k, a, i, x)
      PROVE  \/ k = "call" /\ a = t /\ Lies("queue", Task, i + n, x)'
             \/ Lies(k, a, i, x)'
  <2>1. CASE k = "call" /\ a = t
    BY <1>3, <1>5, <2>1 DEF Lies, ops
  <2>2. CASE k = "call" /\ a # t
    BY <1>2, <1>5, <2>2 DEF Lies
  <2>3. CASE k # "call"
    BY <1>1, <1>3, <1>5, <2>3 DEF Lies
  <2> QED
    BY <2>1, <2>2, <2>3
<1>6. \A k, a, i, x : Lies(k, a, i, x) /\ k = "queue" => a = Task
  BY DEF Lies
<1>7. Once'
  BY <1>0, <1>4, <1>6, LiesPlace DEF Linked, Once
<1>8. Due'
  BY <1>1, <1>4, <1>5 DEF Linked, Due
<1>9. TaskBehind'
  BY <1>1, TaskBehindGrows DEF Linked, Shapes, Typed
<1> QED
  BY <1>7, <1>8, <1>9 DEF Linked

LEMMA DeliverLinks ==
  ASSUME Shapes, Linked, NEW t \in Threads, Deliver(t), UNCHANGED reactorVars
  PROVE  Linked'
<1> DEFINE ops == own[t]
<1>1. /\ at[t] \in {"counted", "unwinding"}
      /\ queue' = queue \o ops /\ own' = [own EXCEPT ![t] = <<>>]
      /\ at' = [at EXCEPT ![t] = IF at[t] = "counted" THEN "loop" ELSE "caught"]
      /\ UNCHANGED <<call, waiting, pending, task, doing>>
  BY DEF Deliver, reactorVars
<1>2. /\ at'[t] \in {"loop", "caught"} /\ \A s \in Threads \ {t} : at'[s] = at[s]
      /\ own'[t] = <<>> /\ \A s \in Threads \ {t} : own'[s] = own[s]
      /\ ops \in Seq(Items)
  BY <1>1 DEF Shapes, Typed, Shape
<1>0. PICK n \in Nat : n = Len(queue)
  BY LenProperties DEF Shapes, Typed
<1>3. /\ \A i \in DOMAIN queue : i \in DOMAIN queue' /\ queue'[i] = queue[i]
      /\ \A i \in DOMAIN ops : i + n \in DOMAIN queue' /\ queue'[i + n] = ops[i]
      /\ \A i \in DOMAIN queue' :
           \/ i \in DOMAIN queue /\ queue'[i] = queue[i]
           \/ i - n \in DOMAIN ops /\ queue'[i] = ops[i - n]
      /\ DOMAIN queue' \subseteq Nat
  <2>1. queue \in Seq(Queued) /\ ops \in Seq(Queued)
    BY <1>2, SeqMonotonic DEF Shapes, Typed, Queued
  <2>2. queue \o ops \in Seq(Queued)
    BY <2>1, JoinAt
  <2>3. DOMAIN (queue \o ops) \subseteq Nat
    BY <2>2, LenProperties
  <2> HIDE DEF ops
  <2> QED
    BY <1>0, <1>1, <2>1, <2>3, JoinAt
<1>4. InReactor' = InReactor
  BY <1>1, <1>2 DEF InReactor
<1> HIDE DEF ops
<1>5. ASSUME NEW k, NEW a, NEW i, NEW x, Lies(k, a, i, x)'
      PROVE  \/ k = "queue" /\ a = Task /\ i \in Nat /\ Lies("own", t, i - n, x)
             \/ ~(k = "own" /\ a = t) /\ Lies(k, a, i, x)
  BY <1>1, <1>2, <1>3, <1>4, <1>5 DEF Lies, ops
<1>6. ASSUME NEW k, NEW a, NEW i, NEW x, Lies(k, a, i, x)
      PROVE  \/ k = "own" /\ a = t /\ Lies("queue", Task, i + n, x)'
             \/ Lies(k, a, i, x)'
  <2>1. CASE k = "own" /\ a = t
    BY <1>3, <1>6, <2>1 DEF Lies, ops
  <2>2. CASE k = "own" /\ a # t
    BY <1>2, <1>6, <2>2 DEF Lies
  <2>3. CASE k # "own"
    BY <1>1, <1>2, <1>3, <1>4, <1>6, <2>3 DEF Lies
  <2> QED
    BY <2>1, <2>2, <2>3
<1>7. Once'
  BY <1>0, <1>5, LiesPlace DEF Linked, Once
<1>8. Due'
  BY <1>1, <1>5, <1>6 DEF Linked, Due
<1>9. TaskBehind'
  <2>1. \A s \in InReactor : at'[s] = at[s]
    BY <1>1, <1>2 DEF InReactor
  <2> QED
    BY <1>1, <1>2, <1>4, <2>1, TaskBehindGrows DEF Linked, Shapes, Typed, ops
<1> QED
  BY <1>7, <1>8, <1>9 DEF Linked

LEMMA HandlerEndsLinks ==
  ASSUME Shapes, Linked, NEW t \in Threads, HandlerEnds(t), UNCHANGED reactorVars
  PROVE  Linked'
<1>1. /\ at[t] = "user" /\ doing[t] \in Items
      /\ pending' = pending \ {doing[t]}
      /\ doing' = [doing EXCEPT ![t] = Nothing]
      /\ UNCHANGED <<queue, task, own, call, waiting>>
  BY DEF HandlerEnds, poolVars, reactorVars, Shapes, Shape
<1>2. /\ at'[t] \in {"returned", "thrown"} /\ \A s \in Threads \ {t} : at'[s] = at[s]
      /\ \A s \in Threads \ {t} : doing'[s] = doing[s]
  BY DEF HandlerEnds, Shapes, Typed
<1>3. InReactor' = InReactor
  BY <1>1, <1>2 DEF InReactor
<1>4. \A k, a, i, x : Lies(k, a, i, x)' <=> ~(k = "upcall" /\ a = t) /\ Lies(k, a, i, x)
  BY <1>1, <1>2, <1>3 DEF Lies
<1>5. Lies("upcall", t, 1, doing[t]) /\ \A i, x : Lies("upcall", t, i, x) => x = doing[t]
  BY <1>1 DEF Lies
<1>6. Once'
  BY <1>4 DEF Linked, Once
<1>7. Due'
  BY <1>1, <1>4, <1>5 DEF Linked, Once, Due
<1>8. TaskBehind'
  <2>1. \A s \in InReactor : at'[s] = at[s]
    BY <1>1, <1>2 DEF InReactor
  <2> QED
    BY <1>1, <1>3, <2>1, TaskBehindSame DEF Linked
<1> QED
  BY <1>6, <1>7, <1>8 DEF Linked

LEMMA InitTaskLinks ==
  ASSUME Shapes, Linked, NEW t \in Callers, InitTask(t), UNCHANGED reactorVars
  PROVE  Linked'
<1>1. /\ task' = TRUE /\ ~task /\ queue' = Append(queue, Task) /\ queue \in Seq(Queued)
      /\ UNCHANGED <<own, waiting, pending, at, doing>> /\ InReactor' = InReactor
  BY DEF InitTask, threadVars, reactorVars, Shapes, Typed, InReactor
<1>2. \A c \in Callers : call'[c].ops = call[c].ops
  <2>1. call[t].ops = <<>> /\ WakeOne(t)
    BY DEF InitTask, Using, Free, NoCall
  <2> QED
    BY <2>1, WakeOneTyped
<1>3. /\ Len(queue) \in Nat /\ DOMAIN queue = 1..Len(queue)
      /\ DOMAIN queue' = 1..Len(queue) + 1
      /\ \A i \in DOMAIN queue : queue'[i] = queue[i]
      /\ queue'[Len(queue) + 1] = Task
  BY <1>1, AppendAt DEF Queued
<1>4. InReactor = {} /\ \A i \in DOMAIN queue : queue[i] # Task
  BY <1>1 DEF Linked, TaskBehind, ToSet
<1>5. \A k, a, i, x : Lies(k, a, i, x)' <=>
        \/ Lies(k, a, i, x)
        \/ k = "queue" /\ a = Task /\ i = Len(queue) + 1 /\ x = Task
  BY <1>1, <1>2, <1>3 DEF Lies
<1>6. \A k, a, i : ~Lies(k, a, i, Task)
  <2>1. Task \notin Items \cup Descriptors
    BY IoServiceAssumption
  <2>2. ASSUME NEW k, NEW a, NEW i, Lies(k, a, i, Task) PROVE FALSE
    <3>1. /\ \A b \in Threads : own[b] \in Seq(Items \cup Descriptors)
          /\ \A b \in Callers : call[b].ops \in Seq(Items)
          /\ \A b \in Descriptors : waiting[b] \in Seq(Operations)
          /\ \A b \in Threads : at[b] = "user" => doing[b] \in Items
      BY DEF Shapes, Typed, CallsTyped, Shape
    <3>2. /\ \A b \in Threads : \A j \in DOMAIN own[b] : own[b][j] # Task
          /\ \A b \in Callers : \A j \in DOMAIN call[b].ops : call[b].ops[j] # Task
          /\ \A b \in Descriptors : \A j \in DOMAIN waiting[b] : waiting[b][j] # Task
      BY <2>1, <3>1, LenProperties, ElementOfSeq DEF Items
    <3> QED
      BY <1>4, <2>1, <2>2, <3>1, <3>2 DEF Lies
  <2> QED
    BY <2>2
<1>7. Once'
  BY <1>5, <1>6 DEF Linked, Once
<1>8. Due'
  BY <1>1, <1>5, IoServiceAssumption DEF Linked, Due
<1>9. TaskBehind'
  <2>1. (Task \in ToSet(queue))'
    BY <1>3 DEF ToSet
  <2>2. \A i, j \in DOMAIN queue' :
          queue'[i] = Task /\ queue'[j] \in Descriptors \cup {Task} => j <= i
    BY <1>3, <1>4
  <2> QED
    BY <1>1, <1>4, <2>1, <2>2 DEF TaskBehind
<1> QED
  BY <1>7, <1>8, <1>9 DEF Linked

LEMMA TakeTaskLinks ==
  ASSUME Shapes, Linked, NEW t \in Threads, TakeTask(t), UNCHANGED reactorVars
  PROVE  Linked'
<1>1. /\ at[t] = "loop" /\ queue # <<>> /\ Head(queue) = Task /\ queue \in Seq(Queued)
      /\ queue' = Tail(queue)
      /\ at' = [at EXCEPT ![t] = IF Tail(queue) = <<>> THEN "blocking" ELSE "polling"]
      /\ UNCHANGED <<own, waiting, pending, task, doing>>
  BY DEF TakeTask, AtHead, reactorVars, Shapes, Typed
<1>2. \A c \in Callers : call'[c].ops = call[c].ops
  <2>1. call[t].ops = <<>> /\ t \in Callers
    BY DEF TakeTask, AtHead, Free, NoCall, Callers
  <2>2. CASE SignalOne(t)
    BY <2>1, <2>2, SignalOneTyped DEF Shapes
  <2> QED
    BY <2>2 DEF TakeTask
<1>3. /\ 1 \in DOMAIN queue /\ queue[1] = Task
      /\ \A i : i \in DOMAIN queue' <=> i \in Nat \ {0} /\ i + 1 \in DOMAIN queue
      /\ \A i \in DOMAIN queue' : queue'[i] = queue[i + 1]
  BY <1>1, TailAt
<1>4. at'[t] \in {"blocking", "polling"} /\ \A s \in Threads \ {t} : at'[s] = at[s]
  BY <1>1 DEF Shapes, Typed
<1>5. InReactor = {} /\ InReactor' = {t}
  <2>1. InReactor = {}
    BY <1>3 DEF Linked, TaskBehind, ToSet
  <2> QED
    BY <1>4, <2>1 DEF InReactor
<1>6. ASSUME NEW k, NEW a, NEW i, NEW x
      PROVE  Lies(k, a, i, x)' <=>
               \/ k = "queue" /\ i \in Nat \ {0} /\ Lies("queue", a, i + 1, x)
               \/ k = "reactor" /\ a = t /\ i = 1 /\ x = Task
               \/ k # "queue" /\ Lies(k, a, i, x)
  <2>1. CASE k = "queue"
    BY <1>3, <2>1 DEF Lies
  <2>2. CASE k = "reactor"
    BY <1>5, <2>2 DEF Lies
  <2>3. CASE k \notin {"queue", "reactor"}
    BY <1>1, <1>2, <1>4, <2>3 DEF Lies
  <2> QED
    BY <2>1, <2>2, <2>3
<1>7. Lies("queue", Task, 1, Task)
  BY <1>1, <1>3 DEF Lies
<1>8. \A a, i, x : Lies("queue", a, i, x) => a = Task /\ i \in Nat \ {0}
  BY <1>1, LenProperties DEF Lies
<1>9. Once'
  BY <1>6, <1>7, <1>8 DEF Linked, Once
<1>10. Due'
  <2>1. ASSUME NEW x \in Items, NEW k, NEW a, NEW i, Lies(k, a, i, x)
        PROVE  \E l, b, j : Lies(l, b, j, x)'
    <3>1. CASE k # "queue"
      BY <1>6, <2>1, <3>1
    <3>2. CASE k = "queue"
      <4>1. i # 1
        BY <1>3, <2>1, <3>2, IoServiceAssumption DEF Lies
      <4>2. i - 1 \in Nat \ {0} /\ (i - 1) + 1 = i
        BY <1>8, <2>1, <3>2, <4>1
      <4> QED
        BY <1>6, <2>1, <3>2, <4>2
    <3> QED
      BY <3>1, <3>2
  <2>2. ASSUME NEW x \in Items, NEW k, NEW a, NEW i, Lies(k, a, i, x)'
        PROVE  \E l, b, j : Lies(l, b, j, x)
    BY <1>6, <2>2, IoServiceAssumption
  <2> QED
    BY <1>1, <2>1, <2>2 DEF Linked, Due
<1>11. TaskBehind'
  <2>1. \A j \in DOMAIN queue : j \in Nat \ {0} /\ (queue[j] \in Descriptors \cup {Task} => j <= 1)
    BY <1>1, <1>3, LenProperties DEF Linked, TaskBehind
  <2>2. \A j \in DOMAIN queue' : queue'[j] \notin Descriptors \cup {Task}
    BY <1>3, <2>1
  <2>3. task
    BY <1>3 DEF Linked, TaskBehind, ToSet
  <2> QED
    BY <1>1, <1>5, <2>2, <2>3 DEF TaskBehind, ToSet
<1> QED
  BY <1>9, <1>10, <1>11 DEF Linked

LEMMA NoDescriptorLies ==
  ASSUME Shapes, Linked, NEW t \in Threads, at[t] \in {"blocking", "polling"},
         NEW k, NEW a, NEW i, NEW x \in Descriptors
  PROVE  ~Lies(k, a, i, x)
<1>1. t \in InReactor /\ \A s \in Threads : at[s] # "polled"
  BY DEF InReactor, Linked, TaskBehind
<1>2. \A j \in DOMAIN queue : queue[j] \notin Descriptors
  BY <1>1 DEF Linked, TaskBehind, ToSet
<1>3. /\ \A b \in Threads : own[b] \in Seq(Items)
      /\ \A b \in Callers : call[b].ops \in Seq(Items)
      /\ \A b \in Descriptors : waiting[b] \in Seq(Operations)
      /\ \A b \in Threads : at[b] = "user" => doing[b] \in Items
  BY <1>1 DEF Shapes, Typed, CallsTyped, Shape
<1>4. /\ \A b \in Threads : \A j \in DOMAIN own[b] : own[b][j] \in Items
      /\ \A b \in Callers : \A j \in DOMAIN call[b].ops : call[b].ops[j] \in Items
      /\ \A b \in Descriptors : \A j \in DOMAIN waiting[b] : waiting[b][j] \in Items
  BY <1>3, LenProperties, ElementOfSeq DEF Items
<1> QED
  BY <1>2, <1>3, <1>4, IoServiceAssumption DEF Lies

LEMMA PollLinks ==
  ASSUME Shapes, Linked, Apart, NEW t \in Threads, Poll(t)
  PROVE  Linked'
<1>1. /\ at[t] \in {"blocking", "polling"} /\ at' = [at EXCEPT ![t] = "polled"]
      /\ UNCHANGED <<queue, task, doing, call, pending, waiting>>
  BY DEF Poll
<1>0. PICK events \in SetToSeqs(Events) : own' = [own EXCEPT ![t] = own[t] \o States(events)]
  BY DEF Poll
<1>2. PICK found : found = States(events) /\ own' = [own EXCEPT ![t] = own[t] \o found]
  BY <1>0
<1>3. own[t] = <<>>
  BY <1>1 DEF Shapes, Shape, Crediting
<1>4. /\ found \in Seq(Descriptors) /\ own[t] \o found = found
      /\ \A i, j \in DOMAIN found : found[i] = found[j] => i = j
  BY <1>2, <1>3, StatesQueued, StatesOnce, ConcatEmptySeq
<1>5. /\ own'[t] = found /\ \A s \in Threads \ {t} : own'[s] = own[s]
      /\ at'[t] = "polled" /\ \A s \in Threads \ {t} : at'[s] = at[s]
  BY <1>1, <1>2, <1>4 DEF Shapes, Typed
<1>6. InReactor' = InReactor
  BY <1>1, <1>5 DEF InReactor
<1>7. \A k, a, i, x : Lies(k, a, i, x)' <=>
        \/ k = "own" /\ a = t /\ i \in DOMAIN found /\ x = found[i]
        \/ Lies(k, a, i, x)
  BY <1>1, <1>3, <1>5, <1>6 DEF Lies
<1>8. \A i \in DOMAIN found : found[i] \in Descriptors
  BY <1>4, LenProperties, ElementOfSeq
<1>9. \A k, a, i, x : x \in Descriptors => ~Lies(k, a, i, x)
  BY <1>1, NoDescriptorLies
<1>10. Once'
  BY <1>4, <1>7, <1>8, <1>9 DEF Linked, Once
<1>11. Due'
  BY <1>1, <1>7, <1>8, IoServiceAssumption DEF Linked, Due
<1>12. TaskBehind'
  BY <1>1, <1>5, <1>6, TaskBehindSame DEF Linked, InReactor
<1> QED
  BY <1>10, <1>11, <1>12 DEF Linked

LEMMA TaskCleanupLinks ==
  ASSUME Shapes, Linked, NEW t \in Threads, TaskCleanup(t), UNCHANGED reactorVars
  PROVE  Linked'
<1> DEFINE found == own[t]
<1>1. /\ at[t] = "polled" /\ queue' = Append(queue \o found, Task)
      /\ own' = [own EXCEPT ![t] = <<>>] /\ at' = [at EXCEPT ![t] = "loop"]
      /\ UNCHANGED <<task, doing, call, pending, waiting>>
  BY DEF TaskCleanup, reactorVars
<1>2. /\ own'[t] = <<>> /\ \A s \in Threads \ {t} : own'[s] = own[s]
      /\ at'[t] = "loop" /\ \A s \in Threads \ {t} : at'[s] = at[s]
  BY <1>1 DEF Shapes, Typed
<1>3. InReactor = {t} /\ InReactor' = {}
  <2>1. InReactor = {t}
    BY <1>1 DEF InReactor, Linked, TaskBehind
  <2> QED
    BY <1>2, <2>1 DEF InReactor
<1>4. PICK n \in Nat : n = Len(queue)
  BY LenProperties DEF Shapes, Typed
<1>5. PICK m \in Nat : m = Len(found)
  <2>1. found \in Seq(Descriptors)
    BY <1>1 DEF Shapes, Shape
  <2> QED
    BY <2>1, LenProperties
<1>6. /\ DOMAIN queue = 1..n /\ DOMAIN found = 1..m /\ DOMAIN queue' = 1..n + m + 1
      /\ \A i \in 1..n : queue'[i] = queue[i]
      /\ \A i \in 1..m : queue'[i + n] = found[i] /\ found[i] \in Descriptors
      /\ queue'[n + m + 1] = Task
  <2>1. queue \in Seq(Queued) /\ found \in Seq(Queued) /\ found \in Seq(Descriptors)
    BY <1>1, SeqMonotonic DEF Shapes, Shape, Typed, Queued
  <2> DEFINE both == queue \o found
  <2>2. /\ both \in Seq(Queued) /\ Len(both) = n + m
        /\ \A i \in 1..n + m : both[i] = IF i <= n THEN queue[i] ELSE found[i - n]
    <3> HIDE DEF found
    <3> QED
      BY <1>4, <1>5, <2>1, ConcatProperties
  <2>3. DOMAIN queue = 1..n /\ DOMAIN found = 1..m /\ DOMAIN both = 1..n + m
        /\ \A i \in 1..m : found[i] \in Descriptors
    BY <1>4, <1>5, <2>1, <2>2, LenProperties, ElementOfSeq
  <2> HIDE DEF both, found
  <2>4. /\ DOMAIN Append(both, Task) = 1..n + m + 1 /\ Append(both, Task)[n + m + 1] = Task
        /\ \A i \in 1..n + m : Append(both, Task)[i] = both[i]
    <3>1. Task \in Queued
      BY DEF Queued
    <3>2. /\ DOMAIN Append(both, Task) = 1..Len(both) + 1
          /\ Append(both, Task)[Len(both) + 1] = Task
          /\ \A i \in DOMAIN both : Append(both, Task)[i] = both[i]
      BY ONLY <2>2, <3>1, AppendAt
    <3> QED
      BY <2>2, <2>3, <3>2
  <2>5. queue' = Append(both, Task)
    BY <1>1 DEF both
  <2>6. ASSUME NEW i \in 1..m PROVE queue'[i + n] = found[i]
    <3>1. i + n \in 1..n + m /\ ~(i + n <= n) /\ (i + n) - n = i
      OBVIOUS
    <3>2. both[i + n] = found[i]
      BY <2>2, <3>1
    <3> QED
      BY <2>4, <2>5, <3>1, <3>2
  <2>7. ASSUME NEW i \in 1..n PROVE queue'[i] = queue[i]
    <3>1. i \in 1..n + m /\ i <= n
      OBVIOUS
    <3> QED
      BY <2>2, <2>4, <2>5, <3>1
  <2> QED
    BY <2>3, <2>4, <2>5, <2>6, <2>7
<1> HIDE DEF found
<1>7. ASSUME NEW k, NEW a, NEW i, NEW x, Lies(k, a, i, x)'
      PROVE  \/ ~(k = "own" /\ a = t) /\ k # "reactor" /\ Lies(k, a, i, x)
             \/ k = "queue" /\ a = Task /\ i \in n + 1..n + m /\ Lies("own", t, i - n, x)
             \/ k = "queue" /\ a = Task /\ i = n + m + 1 /\ x = Task
  <2>1. CASE k = "queue"
    <3>1. a = Task /\ i \in 1..n + m + 1 /\ x = queue'[i]
      BY <1>6, <1>7, <2>1 DEF Lies
    <3>2. CASE i \in 1..n
      BY <1>6, <2>1, <3>1, <3>2 DEF Lies
    <3>3. CASE i \in n + 1..n + m
      <4>1. i - n \in 1..m /\ (i - n) + n = i
        BY <3>3
      <4> QED
        BY <1>6, <2>1, <3>1, <3>3, <4>1 DEF Lies, found
    <3>4. CASE i = n + m + 1
      BY <1>6, <2>1, <3>1, <3>4
    <3> QED
      BY <3>1, <3>2, <3>3, <3>4
  <2>2. CASE k = "own"
    BY <1>2, <1>7, <2>2 DEF Lies
  <2>3. CASE k = "reactor"
    BY <1>3, <1>7, <2>3 DEF Lies
  <2>4. CASE k \notin {"queue", "own", "reactor"}
    BY <1>1, <1>2, <1>7, <2>4 DEF Lies
  <2> QED
    BY <2>1, <2>2, <2>3, <2>4
<1>8. ASSUME NEW k, NEW a, NEW i, NEW x, x # Task, Lies(k, a, i, x)
      PROVE  \E l, b, j : Lies(l, b, j, x)'
  <2>1. CASE k = "own" /\ a = t
    <3>1. i \in 1..m /\ x = queue'[i + n] /\ i + n \in 1..n + m + 1
      BY <1>6, <1>8, <2>1 DEF Lies, found
    <3>2. Lies("queue", Task, i + n, x)'
      BY <1>6, <3>1 DEF Lies
    <3> QED
      BY <3>2
  <2>2. CASE k = "own" /\ a # t
    <3>1. Lies(k, a, i, x)'
      BY <1>2, <1>8, <2>2 DEF Lies
    <3> QED
      BY <3>1
  <2>3. CASE k = "queue"
    <3>1. Lies(k, a, i, x)'
      BY <1>6, <1>8, <2>3 DEF Lies
    <3> QED
      BY <3>1
  <2>4. CASE k \notin {"queue", "own"}
    <3>1. Lies(k, a, i, x)'
      BY <1>1, <1>2, <1>8, <2>4 DEF Lies
    <3> QED
      BY <3>1
  <2> QED
    BY <2>1, <2>2, <2>3, <2>4
<1>9. Once'
  <2>1. Lies("reactor", t, 1, Task)
    BY <1>3 DEF Lies
  <2>2. \A k, a, i, x : Lies(k, a, i, x) => (k = "queue" => a = Task /\ i \in Nat /\ i <= n)
    BY <1>4, LiesPlace
  <2> QED
    BY <1>7, <2>1, <2>2 DEF Linked, Once
<1>10. Due'
  <2>1. \A x \in Items : x # Task
    BY IoServiceAssumption
  <2> QED
    BY <1>1, <1>7, <1>8, <2>1 DEF Linked, Due
<1>11. TaskBehind'
  <2>1. task /\ \A i \in 1..n : queue[i] # Task
    BY <1>3, <1>6 DEF Linked, TaskBehind, ToSet
  <2>2. (Task \in ToSet(queue))'
    BY <1>6 DEF ToSet
  <2>3. \A i \in DOMAIN queue' : queue'[i] = Task => i = n + m + 1
    <3>1. ASSUME NEW i \in 1..n + m, queue'[i] = Task PROVE FALSE
      <4>1. CASE i \in 1..n
        BY <1>6, <2>1, <3>1, <4>1
      <4>2. CASE i \notin 1..n
        <5>1. i - n \in 1..m /\ (i - n) + n = i
          BY <4>2
        <5>2. queue'[i] \in Descriptors
          BY <1>6, <5>1
        <5> QED
          BY <3>1, <5>2, IoServiceAssumption
      <4> QED
        BY <4>1, <4>2
    <3> QED
      BY <1>6, <3>1
  <2>4. \A i, j \in DOMAIN queue' :
          queue'[i] = Task /\ queue'[j] \in Descriptors \cup {Task} => j <= i
    BY <1>6, <2>3
  <2> QED
    BY <1>1, <1>3, <2>1, <2>2, <2>4 DEF TaskBehind
<1> QED
  BY <1>9, <1>10, <1>11 DEF Linked

LEMMA StartWaitingLinks ==
  ASSUME Shapes, Linked, NEW t \in Callers, NEW d \in Descriptors, NEW w \in Operations \ pending,
         NEW speculative \in BOOLEAN, StartWaiting(t, d, w, speculative)
  PROVE  Linked'
<1>1. /\ waiting' = [waiting EXCEPT ![d] = Append(waiting[d], w)] /\ pending' = pending \cup {w}
      /\ UNCHANGED <<queue, task, at, doing, own, call>> /\ InReactor' = InReactor
  BY DEF StartWaiting, threadVars, InReactor
<1>2. PICK n \in Nat : n = Len(waiting[d])
  BY LenProperties DEF Shapes, Typed
<1>3. /\ DOMAIN waiting[d] = 1..n /\ DOMAIN waiting'[d] = 1..n + 1
      /\ \A i \in 1..n : waiting'[d][i] = waiting[d][i]
      /\ waiting'[d][n + 1] = w
      /\ \A b \in Descriptors \ {d} : waiting'[b] = waiting[b]
  <2>1. waiting[d] \in Seq(Operations) /\ waiting'[d] = Append(waiting[d], w)
        /\ \A b \in Descriptors \ {d} : waiting'[b] = waiting[b]
    BY <1>1 DEF Shapes, Typed
  <2> QED
    BY <1>2, <2>1, AppendAt
<1>4. \A k, a, i, x : Lies(k, a, i, x)' <=>
        \/ Lies(k, a, i, x)
        \/ k = "waiting" /\ a = d /\ i = n + 1 /\ x = w
  BY <1>1, <1>3 DEF Lies
<1>5. w \in Items /\ \A k, a, i : ~Lies(k, a, i, w)
  BY DEF Linked, Due, Items
<1>6. Once' /\ Due'
  BY <1>1, <1>4, <1>5 DEF Linked, Once, Due
<1>7. TaskBehind'
  BY <1>1, TaskBehindSame DEF Linked
<1> QED
  BY <1>6, <1>7 DEF Linked

LEMMA PostLinks ==
  ASSUME Shapes, Linked, NEW t \in Callers, NEW w \in Items \ pending,
         NEW continuation \in BOOLEAN, PostImmediate(t, w, continuation), Free(t),
         UNCHANGED <<queue, task, at, doing, waiting>>
  PROVE  Linked'
<1>1. pending' = pending \cup {w} /\ InReactor' = InReactor
  BY DEF PostImmediate, InReactor
<1>2. PICK l, b, n :
        \A k, a, i, x : Lies(k, a, i, x)' <=>
          \/ Lies(k, a, i, x)
          \/ k = l /\ a = b /\ i = n /\ x = w
  <2>1. CASE continuation /\ t \in Threads
    <3>1. own' = [own EXCEPT ![t] = Append(own[t], w)] /\ call' = call
      BY <2>1 DEF PostImmediate
    <3>2. own[t] \in Seq(Items \cup Descriptors)
      BY <2>1 DEF Shapes, Typed
    <3>3. PICK n \in Nat : n = Len(own[t])
      BY <3>2, LenProperties
    <3>4. /\ own'[t] = Append(own[t], w) /\ \A b \in Threads \ {t} : own'[b] = own[b]
      BY <2>1, <3>1 DEF Shapes, Typed
    <3>5. /\ DOMAIN own[t] = 1..n /\ DOMAIN own'[t] = 1..n + 1
          /\ \A i \in 1..n : own'[t][i] = own[t][i]
          /\ own'[t][n + 1] = w
      BY <3>2, <3>3, <3>4, AppendAt
    <3>6. \A k, a, i, x : Lies(k, a, i, x)' <=>
            \/ Lies(k, a, i, x)
            \/ k = "own" /\ a = t /\ i = n + 1 /\ x = w
      BY <1>1, <2>1, <3>1, <3>4, <3>5 DEF Lies
    <3> QED
      BY <3>6
  <2>2. CASE ~(continuation /\ t \in Threads)
    <3>1. Calls(t, "push", <<w>>) /\ own' = own
      BY <2>2 DEF PostImmediate
    <3>2. call'[t].ops = <<w>> /\ \A c \in Callers \ {t} : call'[c] = call[c]
      BY <3>1 DEF Calls, Shapes, CallsTyped
    <3>3. call[t].ops = <<>>
      BY DEF Free, NoCall
    <3>4. \A k, a, i, x : Lies(k, a, i, x)' <=>
            \/ Lies(k, a, i, x)
            \/ k = "call" /\ a = t /\ i = 1 /\ x = w
      BY <1>1, <3>1, <3>2, <3>3 DEF Lies
    <3> QED
      BY <3>4
  <2> QED
    BY <2>1, <2>2
<1>3. \A k, a, i : ~Lies(k, a, i, w)
  BY DEF Linked, Due
<1>4. Once'
  BY <1>2, <1>3 DEF Linked, Once
<1>5. Due'
  BY <1>1, <1>2 DEF Linked, Due
<1>6. TaskBehind'
  BY <1>1, TaskBehindSame DEF Linked
<1> QED
  BY <1>4, <1>5, <1>6 DEF Linked

LEMMA AbortLinks ==
  ASSUME Shapes, Linked, NEW t \in Callers, NEW d \in Descriptors, Free(t), Abort(t, d)
  PROVE  Linked'
<1>1. /\ waiting' = [waiting EXCEPT ![d] = <<>>]
      /\ UNCHANGED <<queue, task, at, doing, own, pending>> /\ InReactor' = InReactor
  BY DEF Abort, poolVars, threadVars, InReactor
<1>2. waiting'[d] = <<>> /\ \A b \in Descriptors \ {d} : waiting'[b] = waiting[b]
  BY <1>1 DEF Shapes, Typed
<1>3. call[t].ops = <<>>
  BY DEF Free, NoCall
<1>4. call'[t].ops = waiting[d] /\ \A c \in Callers \ {t} : call'[c] = call[c]
  <2>1. CASE waiting[d] # <<>>
    <3>1. Calls(t, "push", waiting[d])
      BY <2>1 DEF Abort
    <3> QED
      BY <3>1 DEF Calls, Shapes, CallsTyped
  <2>2. CASE waiting[d] = <<>>
    BY <1>3, <2>2 DEF Abort
  <2> QED
    BY <2>1, <2>2
<1>5. ASSUME NEW k, NEW a, NEW i, NEW x
      PROVE  Lies(k, a, i, x)' <=>
               \/ k = "call" /\ a = t /\ Lies("waiting", d, i, x)
               \/ ~(k = "waiting" /\ a = d) /\ Lies(k, a, i, x)
  BY <1>1, <1>2, <1>3, <1>4 DEF Lies
<1>6. \A i, x : ~Lies("call", t, i, x)
  BY <1>3 DEF Lies
<1>7. Once'
  BY <1>5, <1>6 DEF Linked, Once
<1>8. Due'
  BY <1>1, <1>5 DEF Linked, Due
<1>9. TaskBehind'
  BY <1>1, TaskBehindSame DEF Linked
<1> QED
  BY <1>7, <1>8, <1>9 DEF Linked

LEMMA PerformIoLinks ==
  ASSUME Shapes, Linked, NEW t \in Threads, PerformIo(t)
  PROVE  Linked'
<1>1. PICK d \in Descriptors : d = doing[t]
  BY DEF PerformIo, Shapes, Shape
<1>2. PICK n : n = Performed(d)
  OBVIOUS
<1>3. /\ at[t] = "performing" /\ t \in Callers /\ call[t].ops = <<>>
      /\ waiting' = [waiting EXCEPT ![d] = SubSeq(waiting[d], n + 1, Len(waiting[d]))]
      /\ n = 0 => doing' = [doing EXCEPT ![t] = Nothing] /\ at' = [at EXCEPT ![t] = "compensating"]
      /\ n # 0 => doing' = [doing EXCEPT ![t] = Head(waiting[d])] /\ at' = [at EXCEPT ![t] = "user"]
      /\ n > 1 => Calls(t, "push", SubSeq(waiting[d], 2, n))
      /\ ~(n > 1) => UNCHANGED call
      /\ UNCHANGED <<queue, task, own, pending>>
  BY <1>1, <1>2 DEF PerformIo, poolVars, Callers, Free, NoCall
<1>4. PICK len \in Nat : len = Len(waiting[d]) /\ n \in 0..len /\ waiting[d] \in Seq(Operations)
  <2>1. waiting[d] \in Seq(Operations) /\ Len(waiting[d]) \in Nat /\ data[d] \in 0..MaxData
    BY LenProperties DEF Shapes, Typed
  <2> QED
    BY <1>2, <2>1, ReactorAssumption DEF Performed
<1>5. /\ DOMAIN waiting[d] = 1..len /\ DOMAIN waiting'[d] = 1..len - n
      /\ \A i \in 1..len - n : waiting'[d][i] = waiting[d][i + n]
      /\ \A b \in Descriptors \ {d} : waiting'[b] = waiting[b]
  <2>1. /\ waiting'[d] = SubSeq(waiting[d], n + 1, Len(waiting[d]))
        /\ \A b \in Descriptors \ {d} : waiting'[b] = waiting[b]
    BY <1>3 DEF Shapes, Typed
  <2> QED
    BY <1>4, <2>1, Suffix
<1>6. n > 0 => at'[t] = "user" /\ doing'[t] = waiting[d][1]
  <2>1. n > 0 => waiting[d] # <<>>
    BY <1>4, EmptySeq
  <2>2. n > 0 => Head(waiting[d]) = waiting[d][1]
    BY <1>4, <2>1, TailAt
  <2> QED
    BY <1>3, <1>4, <2>2 DEF Shapes, Typed
<1>7. /\ n = 0 => at'[t] = "compensating"
      /\ \A s \in Threads \ {t} : at'[s] = at[s] /\ doing'[s] = doing[s]
  BY <1>3 DEF Shapes, Typed
<1>8. /\ \A c \in Callers \ {t} : call'[c] = call[c]
      /\ \A i : i \in DOMAIN call'[t].ops <=> i \in 1..n - 1
      /\ \A i \in 1..n - 1 : call'[t].ops[i] = waiting[d][i + 1]
  <2>1. CASE n > 1
    <3>1. call'[t].ops = SubSeq(waiting[d], 2, n) /\ \A c \in Callers \ {t} : call'[c] = call[c]
      BY <1>3, <2>1 DEF Calls, Shapes, CallsTyped
    <3>2. n \in 1..Len(waiting[d])
      BY <1>4, <2>1
    <3> QED
      BY <1>4, <3>1, <3>2, Middle
  <2>2. CASE ~(n > 1)
    <3>1. call'[t].ops = <<>> /\ 1..n - 1 = {}
      BY <1>3, <1>4, <2>2
    <3> QED
      BY <1>3, <2>2, <3>1
  <2> QED
    BY <2>1, <2>2
<1>9. InReactor' = InReactor
  <2>1. at'[t] \in {"user", "compensating"}
    BY <1>4, <1>6, <1>7
  <2> QED
    BY <1>3, <1>7, <2>1 DEF InReactor
<1>10. ASSUME NEW k, NEW a, NEW i, NEW x
       PROVE  Lies(k, a, i, x)' <=>
                \/ k = "waiting" /\ a = d /\ i \in Nat \ {0} /\ Lies("waiting", d, i + n, x)
                \/ k = "call" /\ a = t /\ i \in 1..n - 1 /\ Lies("waiting", d, i + 1, x)
                \/ k = "upcall" /\ a = t /\ i = 1 /\ n > 0 /\ Lies("waiting", d, 1, x)
                \/ ~(k = "waiting" /\ a = d) /\ Lies(k, a, i, x)
  <2>1. CASE k = "waiting"
    <3>1. \A j \in Nat \ {0} : j + n \in 1..len => j \in 1..len - n
      BY <1>4
    <3>2. \A j \in 1..len - n : j + n \in 1..len /\ j \in Nat \ {0}
      BY <1>4
    <3> QED
      BY <1>5, <2>1, <3>1, <3>2 DEF Lies
  <2>2. CASE k = "call"
    <3>1. \A j \in 1..n - 1 : j + 1 \in 1..len
      BY <1>4
    <3> QED
      BY <1>3, <1>5, <1>8, <2>2, <3>1 DEF Lies
  <2>3. CASE k = "upcall"
    BY <1>3, <1>4, <1>5, <1>6, <1>7, <2>3 DEF Lies
  <2>4. CASE k \notin {"waiting", "call", "upcall"}
    BY <1>3, <1>9, <2>4 DEF Lies
  <2> QED
    BY <2>1, <2>2, <2>3, <2>4
<1>11. \A i, x : ~Lies("call", t, i, x) /\ ~Lies("upcall", t, i, x)
  BY <1>3 DEF Lies
<1>12. Once'
  <2> SUFFICES ASSUME NEW k, NEW a, NEW i, NEW l, NEW b, NEW j, NEW x,
                      Lies(k, a, i, x)', Lies(l, b, j, x)'
               PROVE  k = l /\ a = b /\ i = j
    BY DEF Once
  <2>1. \A p, q : Lies("waiting", d, p, x) /\ Lies("waiting", d, q, x) => p = q
    BY DEF Linked, Once
  <2>2. \A m, c, p, q : Lies(m, c, p, x) /\ Lies("waiting", d, q, x) => m = "waiting" /\ c = d
    BY DEF Linked, Once
  <2>3. Lies(k, a, i, x) /\ Lies(l, b, j, x) => k = l /\ a = b /\ i = j
    BY DEF Linked, Once
  <2> QED
    BY <1>4, <1>10, <1>11, <2>1, <2>2, <2>3
<1>13. Due'
  <2>1. ASSUME NEW x \in Items, NEW k, NEW a, NEW i, Lies(k, a, i, x)
        PROVE  \E l, b, j : Lies(l, b, j, x)'
    <3>1. CASE ~(k = "waiting" /\ a = d)
      BY <1>10, <2>1, <3>1
    <3>2. CASE k = "waiting" /\ a = d
      <4>1. i \in 1..len
        BY <1>5, <2>1, <3>2 DEF Lies
      <4>2. CASE i > n
        <5>1. i - n \in Nat \ {0} /\ (i - n) + n = i
          BY <1>4, <4>1, <4>2
        <5>2. Lies("waiting", d, (i - n) + n, x)
          BY <2>1, <3>2, <5>1
        <5> QED
          BY <1>10, <5>1, <5>2
      <4>3. CASE i = 1 /\ n > 0
        BY <1>10, <2>1, <3>2, <4>3
      <4>4. CASE i # 1 /\ ~(i > n)
        <5>1. i - 1 \in 1..n - 1 /\ (i - 1) + 1 = i
          BY <1>4, <4>1, <4>4
        <5>2. Lies("waiting", d, (i - 1) + 1, x)
          BY <2>1, <3>2, <5>1
        <5> QED
          BY <1>10, <5>1, <5>2
      <4> QED
        BY <1>4, <4>1, <4>2, <4>3, <4>4
    <3> QED
      BY <3>1, <3>2
  <2>2. ASSUME NEW x \in Items, NEW k, NEW a, NEW i, Lies(k, a, i, x)'
        PROVE  \E l, b, j : Lies(l, b, j, x)
    BY <1>10, <2>2
  <2> QED
    BY <1>3, <2>1, <2>2 DEF Linked, Due
<1>14. TaskBehind'
  <2>1. \A s \in InReactor : at'[s] = at[s]
    BY <1>3, <1>7 DEF InReactor
  <2> QED
    BY <1>3, <1>9, <2>1, TaskBehindSame DEF Linked
<1> QED
  BY <1>12, <1>13, <1>14 DEF Linked
-----------------------------------------------------------------------------

LEMMA LinkedInitially == Init => Linked
<1> SUFFICES ASSUME Init PROVE Linked
  OBVIOUS
<1>1. /\ InReactor = {} /\ queue = <<>> /\ task = FALSE /\ pending = {}
      /\ \A k, a, i, x : ~Lies(k, a, i, x)
  BY DEF Init, ServiceInit, InReactor, Lies, NoCall
<1> QED
  BY <1>1 DEF Linked, Once, Due, TaskBehind, ToSet

LEMMA LinkedStep == Shapes /\ Linked /\ Apart /\ [Next]_vars => Linked'
<1> SUFFICES ASSUME Shapes, Linked, Apart, [Next]_vars PROVE Linked'
  OBVIOUS
<1>1. ASSUME NEW t \in Threads, NEW f \in {"none", "stop", "signal"}, Calls(t, f, <<>>),
             call[t].ops = <<>>
      PROVE  \A c \in Callers : call'[c].ops = call[c].ops
  BY <1>1 DEF Calls, Shapes, CallsTyped, Callers
<1>2. ASSUME NEW t \in Threads, UNCHANGED reactorVars,
             \/ Enter(t) \/ Leave(t) \/ Sleep(t) \/ WakeUp(t) \/ WakeSpuriously(t) \/ WorkCleanup(t)
      PROVE  Linked'
  <2>1. UNCHANGED <<queue, own, waiting, doing, pending, task>>
    BY <1>2 DEF Enter, Leave, Sleep, WakeUp, WakeSpuriously, WorkCleanup, poolVars, reactorVars
  <2>2. \A c \in Callers : call'[c].ops = call[c].ops
    <3>1. UNCHANGED call \/ (Calls(t, "stop", <<>>) /\ Free(t))
      BY <1>2 DEF Enter, Leave, Sleep, WakeUp, WakeSpuriously, WorkCleanup
    <3>2. Free(t) => call[t].ops = <<>>
      BY DEF Free, NoCall
    <3> QED
      BY <1>1, <3>1, <3>2
  <2>3. \A s \in Threads : \/ at'[s] = at[s]
                           \/ {at[s], at'[s]} \cap {"user", "blocking", "polling", "polled"} = {}
    <3>1. CASE Enter(t) \/ Leave(t) \/ Sleep(t)
      BY <3>1 DEF Enter, Leave, Sleep, AtHead, Shapes, Typed
    <3>2. CASE WakeUp(t) \/ WakeSpuriously(t)
      BY <3>2 DEF WakeUp, WakeSpuriously, Shapes, Typed
    <3>3. CASE WorkCleanup(t)
      BY <3>3 DEF WorkCleanup, AfterCounting, Shapes, Typed
    <3> QED
      BY <1>2, <3>1, <3>2, <3>3
  <2> QED
    BY <2>1, <2>2, <2>3, QuietLinks
<1>3. ASSUME NEW t \in Threads, Run(t) \/ Return(t) \/ (WakeSpuriously(t) /\ UNCHANGED reactorVars)
      PROVE  Linked'
  <2>1. CASE Compensate(t)
    <3>1. \A s \in Threads : \/ at'[s] = at[s]
                             \/ {at[s], at'[s]} \cap {"user", "blocking", "polling", "polled"} = {}
      BY <2>1 DEF Compensate, Shapes, Typed
    <3> QED
      BY <2>1, <3>1, QuietLinks DEF Compensate, reactorVars
  <2> QED
    BY <1>2, <1>3, <2>1, TakeTaskLinks, TakeOperationLinks, TaskCleanupLinks, DeliverLinks,
       HandlerEndsLinks, PollLinks, PerformIoLinks DEF Run, Return
<1>4. ASSUME NEW t \in Callers, Complete(t)
      PROVE  Linked'
  <2>1. CASE Push(t) /\ UNCHANGED reactorVars
    BY <2>1, PushLinks
  <2>2. CASE (Signal(t) \/ Stop(t)) /\ UNCHANGED reactorVars
    <3>1. UNCHANGED <<queue, own, waiting, doing, pending, task>>
      BY <2>2 DEF Signal, Stop, poolVars, reactorVars
    <3>2. \A c \in Callers : call'[c].ops = call[c].ops
      <4>1. Calls(t, "none", <<>>) /\ call[t].ops = <<>>
        BY <2>2 DEF Signal, Stop, Shapes, CallsTyped, CallShape
      <4> QED
        BY <4>1 DEF Calls, Shapes, CallsTyped
    <3>3. \A s \in Threads : \/ at'[s] = at[s]
                             \/ {at[s], at'[s]} \cap {"user", "blocking", "polling", "polled"} = {}
      BY <2>2 DEF Signal, Stop, Shapes, Typed
    <3> QED
      BY <3>1, <3>2, <3>3, QuietLinks
  <2>3. CASE CloseSocket(t)
    BY <2>3, QuietLinks DEF CloseSocket, serviceVars, poolVars, threadVars
  <2> QED
    BY <1>4, <2>1, <2>2, <2>3 DEF Complete
<1>5. ASSUME NEW t \in Callers, Use(t)
      PROVE  Linked'
  <2>1. CASE PostHandler(t) /\ UNCHANGED reactorVars
    <3>1. PICK w \in Handlers \ pending, continuation \in BOOLEAN : PostImmediate(t, w, continuation)
      BY <2>1 DEF PostHandler
    <3>2. w \in Items \ pending /\ Free(t) /\ UNCHANGED <<queue, task, at, doing, waiting>>
      BY <2>1 DEF PostHandler, Using, Items, reactorVars
    <3> QED
      BY <3>1, <3>2, PostLinks
  <2>2. CASE InitTask(t) /\ UNCHANGED reactorVars
    BY <2>2, InitTaskLinks
  <2>3. CASE StopByUser(t) /\ UNCHANGED reactorVars
    <3>1. \A c \in Callers : call'[c].ops = call[c].ops
      BY <2>3 DEF StopByUser, Using, Free, NoCall, Calls, Shapes, CallsTyped
    <3> QED
      BY <2>3, <3>1, QuietLinks DEF StopByUser, poolVars, threadVars, reactorVars
  <2>4. CASE StartOp(t)
    <3>1. PICK d \in Descriptors, w \in Operations \ pending,
               speculative \in BOOLEAN, continuation \in BOOLEAN :
            StartReady(t, d, w, continuation) \/ StartWaiting(t, d, w, speculative)
      BY <2>4 DEF StartOp
    <3>2. CASE StartReady(t, d, w, continuation)
      <4>1. /\ PostImmediate(t, w, continuation) /\ Free(t) /\ w \in Items \ pending
            /\ UNCHANGED <<queue, task, at, doing, waiting>>
        BY <3>2 DEF StartReady, Using, Items
      <4> QED
        BY <4>1, PostLinks
    <3> QED
      BY <3>1, <3>2, StartWaitingLinks
  <2>5. ASSUME NEW d \in Descriptors, Register(t, d)
        PROVE  Linked'
    BY <2>5, QuietLinks DEF Register, serviceVars, poolVars, threadVars
  <2>6. ASSUME NEW d \in Descriptors, CancelOps(t, d) \/ Deregister(t, d)
        PROVE  Linked'
    BY <2>6, AbortLinks DEF CancelOps, Deregister, Using
  <2> QED
    BY <1>5, <2>1, <2>2, <2>3, <2>4, <2>5, <2>6 DEF Use
<1>6. ASSUME (\E d \in Descriptors : Arrive(d)) \/ \E t \in Callers : ArriveLate(t)
      PROVE  Linked'
  BY <1>6, QuietLinks DEF Arrive, ArriveLate, serviceVars, poolVars, threadVars
<1>7. CASE Reset /\ UNCHANGED reactorVars
  BY <1>7, QuietLinks DEF Reset, threadVars, reactorVars
<1>8. CASE UNCHANGED vars
  BY <1>8, QuietLinks DEF vars, serviceVars, poolVars, threadVars, reactorVars
<1> QED
  BY <1>3, <1>4, <1>5, <1>6, <1>7, <1>8 DEF Next

LEMMA SlotsAt ==
  ASSUME NEW p
  PROVE  p \in Slots <=>
           \/ \E i \in DOMAIN queue : p = <<"queue", Task, i>>
           \/ \E t \in Threads : \E i \in DOMAIN own[t] : p = <<"own", t, i>>
           \/ \E t \in Callers : \E i \in DOMAIN call[t].ops : p = <<"call", t, i>>
           \/ \E d \in Descriptors : \E i \in DOMAIN waiting[d] : p = <<"waiting", d, i>>
           \/ \E t \in Threads : at[t] = "user" /\ p = <<"upcall", t, 1>>
           \/ \E t \in InReactor : p = <<"reactor", t, 1>>
<1> DEFINE Queueing == {<<"queue", Task, i>> : i \in DOMAIN queue}
           Owning == UNION {{<<"own", t, i>> : i \in DOMAIN own[t]} : t \in Threads}
           Calling == UNION {{<<"call", t, i>> : i \in DOMAIN call[t].ops} : t \in Callers}
           Waiting == UNION {{<<"waiting", d, i>> : i \in DOMAIN waiting[d]} : d \in Descriptors}
           Upcalling == {<<"upcall", t, 1>> : t \in {s \in Threads : at[s] = "user"}}
           Reacting == {<<"reactor", t, 1>> : t \in InReactor}
<1>1. Slots = Queueing \cup Owning \cup Calling \cup Waiting \cup Upcalling \cup Reacting
  BY DEF Slots
<1>2. p \in Queueing <=> \E i \in DOMAIN queue : p = <<"queue", Task, i>>
  OBVIOUS
<1>3. p \in Owning <=> \E t \in Threads : \E i \in DOMAIN own[t] : p = <<"own", t, i>>
  <2>1. p \in Owning <=> \E t \in Threads : p \in {<<"own", t, i>> : i \in DOMAIN own[t]}
    BY Zenon
  <2> QED
    BY <2>1
<1>4. p \in Calling <=> \E t \in Callers : \E i \in DOMAIN call[t].ops : p = <<"call", t, i>>
  <2>1. p \in Calling <=> \E t \in Callers : p \in {<<"call", t, i>> : i \in DOMAIN call[t].ops}
    BY Zenon
  <2> QED
    BY <2>1
<1>5. p \in Waiting <=> \E d \in Descriptors : \E i \in DOMAIN waiting[d] : p = <<"waiting", d, i>>
  <2>1. p \in Waiting <=> \E d \in Descriptors : p \in {<<"waiting", d, i>> : i \in DOMAIN waiting[d]}
    BY Zenon
  <2> QED
    BY <2>1
<1>6. p \in Upcalling <=> \E t \in Threads : at[t] = "user" /\ p = <<"upcall", t, 1>>
  BY Zenon
<1>7. p \in Reacting <=> \E t \in InReactor : p = <<"reactor", t, 1>>
  OBVIOUS
<1> HIDE DEF Queueing, Owning, Calling, Waiting, Upcalling, Reacting
<1> QED
  BY <1>1, <1>2, <1>3, <1>4, <1>5, <1>6, <1>7

LEMMA SlotsLie ==
  /\ \A k, a, i, x : Lies(k, a, i, x) => <<k, a, i>> \in Slots /\ Held(<<k, a, i>>) = x
  /\ \A p \in Slots : \E k, a, i : p = <<k, a, i>> /\ Lies(k, a, i, Held(p))
<1>1. /\ \A a, i : Held(<<"queue", a, i>>) = queue[i]
      /\ \A a, i : Held(<<"own", a, i>>) = own[a][i]
      /\ \A a, i : Held(<<"call", a, i>>) = call[a].ops[i]
      /\ \A a, i : Held(<<"waiting", a, i>>) = waiting[a][i]
      /\ \A a, i : Held(<<"upcall", a, i>>) = doing[a]
      /\ \A a, i : Held(<<"reactor", a, i>>) = Task
  BY DEF Held
<1>2. ASSUME NEW k, NEW a, NEW i, NEW x, Lies(k, a, i, x)
      PROVE  <<k, a, i>> \in Slots /\ Held(<<k, a, i>>) = x
  <2>1. CASE k = "queue"
    BY <1>1, <1>2, SlotsAt, <2>1 DEF Lies
  <2>2. CASE k = "own"
    BY <1>1, <1>2, SlotsAt, <2>2 DEF Lies
  <2>3. CASE k = "call"
    BY <1>1, <1>2, SlotsAt, <2>3 DEF Lies
  <2>4. CASE k = "waiting"
    BY <1>1, <1>2, SlotsAt, <2>4 DEF Lies
  <2>5. CASE k = "upcall"
    BY <1>1, <1>2, SlotsAt, <2>5 DEF Lies
  <2>6. CASE k = "reactor"
    BY <1>1, <1>2, SlotsAt, <2>6 DEF Lies
  <2> QED
    BY <1>2, <2>1, <2>2, <2>3, <2>4, <2>5, <2>6 DEF Lies
<1>3. ASSUME NEW p \in Slots
      PROVE  \E k, a, i : p = <<k, a, i>> /\ Lies(k, a, i, Held(p))
  <2>1. ASSUME NEW i \in DOMAIN queue, p = <<"queue", Task, i>>
        PROVE  Lies("queue", Task, i, Held(p))
    BY <1>1, <2>1 DEF Lies
  <2>2. ASSUME NEW t \in Threads, NEW i \in DOMAIN own[t], p = <<"own", t, i>>
        PROVE  Lies("own", t, i, Held(p))
    BY <1>1, <2>2 DEF Lies
  <2>3. ASSUME NEW t \in Callers, NEW i \in DOMAIN call[t].ops, p = <<"call", t, i>>
        PROVE  Lies("call", t, i, Held(p))
    BY <1>1, <2>3 DEF Lies
  <2>4. ASSUME NEW d \in Descriptors, NEW i \in DOMAIN waiting[d], p = <<"waiting", d, i>>
        PROVE  Lies("waiting", d, i, Held(p))
    BY <1>1, <2>4 DEF Lies
  <2>5. ASSUME NEW t \in Threads, at[t] = "user", p = <<"upcall", t, 1>>
        PROVE  Lies("upcall", t, 1, Held(p))
    BY <1>1, <2>5 DEF Lies
  <2>6. ASSUME NEW t \in InReactor, p = <<"reactor", t, 1>>
        PROVE  Lies("reactor", t, 1, Held(p))
    BY <1>1, <2>6 DEF Lies
  <2> QED
    BY <1>3, SlotsAt, <2>1, <2>2, <2>3, <2>4, <2>5, <2>6
<1> QED
  BY <1>2, <1>3

LEMMA LinkedOnce == Shapes /\ Linked => QueuedOnce
<1> SUFFICES ASSUME Shapes, Linked PROVE QueuedOnce
  OBVIOUS
<1>1. ASSUME NEW p \in Slots, NEW q \in Slots, Held(p) = Held(q)
      PROVE  p = q
  BY <1>1, SlotsLie DEF Linked, Once
<1>2. pending = {Held(p) : p \in Slots} \cap Items
  <2>1. ASSUME NEW x \in pending PROVE x \in Items /\ \E p \in Slots : Held(p) = x
    <3>1. x \in Items /\ \E k, a, i : Lies(k, a, i, x)
      BY DEF Linked, Due, Shapes, Typed
    <3> QED
      BY <3>1, SlotsLie
  <2>2. ASSUME NEW p \in Slots, Held(p) \in Items PROVE Held(p) \in pending
    BY <2>2, SlotsLie DEF Linked, Due
  <2> QED
    BY <2>1, <2>2
<1> QED
  BY <1>1, <1>2 DEF QueuedOnce, Linked

-----------------------------------------------------------------------------

(* The count of outstanding work.                                          *)

LEMMA CountsFinite ==
  ASSUME Typed
  PROVE  /\ IsFiniteSet(pending) /\ Cardinality(pending) \in Nat
         /\ IsFiniteSet(Settling) /\ Cardinality(Settling) \in Nat
         /\ IsFiniteSet(Uncounted) /\ Cardinality(Uncounted) \in Nat
         /\ Cardinality(Uncounted) <= Cardinality(pending)
<1>1. pending \subseteq Items /\ Settling \subseteq Threads /\ Uncounted \subseteq pending
  BY DEF Typed, Settling, Uncounted
<1>2. IsFiniteSet(pending) /\ IsFiniteSet(Settling)
  BY <1>1, IoServiceAssumption, FS_Subset
<1>3. IsFiniteSet(Uncounted) /\ Cardinality(Uncounted) <= Cardinality(pending)
  BY <1>1, <1>2, FS_Subset
<1> QED
  BY <1>2, <1>3, FS_CardinalityType

LEMMA DistinctElements ==
  ASSUME NEW S, NEW s \in Seq(S), \A i, j \in DOMAIN s : s[i] = s[j] => i = j
  PROVE  IsFiniteSet(ToSet(s)) /\ Cardinality(ToSet(s)) = Len(s)
<1>1. Len(s) \in Nat /\ DOMAIN s = 1..Len(s) /\ s \in [1..Len(s) -> S]
  BY LenProperties
<1>2. s \in [1..Len(s) -> ToSet(s)]
  BY <1>1 DEF ToSet
<1>3. s \in Bijection(1..Len(s), ToSet(s))
  BY <1>1, <1>2 DEF Bijection, Injection, Surjection, ToSet, IsInjective
<1>4. IsFiniteSet(1..Len(s)) /\ Cardinality(1..Len(s)) = Len(s)
  BY <1>1, FS_Interval
<1> QED
  BY <1>3, <1>4, FS_Bijection DEF ExistsBijection

\* The number of handlers due but not counted changes with own and at alone.
LEMMA UncountedSame ==
  ASSUME pending' = pending,
         \A s \in Threads :
           \/ own'[s] = own[s] /\ (at'[s] \in Crediting <=> at[s] \in Crediting)
           \/ /\ at[s] \in Crediting => own[s] = <<>>
              /\ at'[s] \in Crediting => own'[s] = <<>>
  PROVE  Uncounted' = Uncounted
<1>1. ToSet(<<>>) = {}
  BY DEF ToSet
<1>2. \A s \in Threads : at[s] \in Crediting => own[s] = <<>> \/ (own'[s] = own[s] /\ at'[s] \in Crediting)
  OBVIOUS
<1>3. \A s \in Threads : at'[s] \in Crediting => own'[s] = <<>> \/ (own'[s] = own[s] /\ at[s] \in Crediting)
  OBVIOUS
<1>4. Uncounted = {w \in pending : \E s \in Threads : w \in ToSet(own[s]) /\ at[s] \in Crediting}
  BY DEF Uncounted, Crediting
<1>5. Uncounted' = {w \in pending : \E s \in Threads : w \in ToSet(own'[s]) /\ at'[s] \in Crediting}
  BY DEF Uncounted, Crediting, ToSet
<1> QED
  BY <1>1, <1>2, <1>3, <1>4, <1>5

LEMMA QuietWork ==
  ASSUME WorkCounted, UNCHANGED <<work, pending>>, Settling' = Settling,
         \A s \in Threads :
           \/ own'[s] = own[s] /\ (at'[s] \in Crediting <=> at[s] \in Crediting)
           \/ /\ at[s] \in Crediting => own[s] = <<>>
              /\ at'[s] \in Crediting => own'[s] = <<>>
  PROVE  WorkCounted'
<1>1. Uncounted' = Uncounted
  BY UncountedSame
<1> QED
  BY <1>1 DEF WorkCounted

LEMMA PostWork ==
  ASSUME Shapes, Linked, WorkCounted, NEW t \in Callers, NEW w \in Items \ pending,
         NEW continuation \in BOOLEAN, PostImmediate(t, w, continuation),
         t \in Threads => at[t] = "user", at' = at
  PROVE  WorkCounted'
<1>1. pending' = pending \cup {w} /\ Settling' = Settling
  BY DEF PostImmediate, Settling
<1>2. Cardinality(pending') = Cardinality(pending) + 1 /\ Cardinality(pending) \in Nat
  BY <1>1, CountsFinite, FS_AddElement DEF Shapes
<1>3. Cardinality(Settling) \in Nat /\ IsFiniteSet(Uncounted) /\ Cardinality(Uncounted) \in Nat
  BY CountsFinite DEF Shapes
<1>4. \A s \in Threads : w \notin ToSet(own[s])
  BY DEF Linked, Due, Lies, ToSet
<1>5. w \notin Uncounted /\ work \in Int
  BY DEF Uncounted, Shapes, Typed
<1>6. Uncounted = {v \in pending : \E s \in Threads : v \in ToSet(own[s]) /\ at[s] \in Crediting}
  BY DEF Uncounted, Crediting
<1>7. Uncounted' = {v \in pending' : \E s \in Threads : v \in ToSet(own'[s]) /\ at[s] \in Crediting}
  BY DEF Uncounted, Crediting, ToSet
<1>8. CASE continuation /\ t \in Threads
  <2>1. work' = work /\ own' = [own EXCEPT ![t] = Append(own[t], w)]
    BY <1>8 DEF PostImmediate
  <2>2. own[t] \in Seq(Items \cup Descriptors) /\ own'[t] = Append(own[t], w)
        /\ \A s \in Threads \ {t} : own'[s] = own[s]
    BY <1>8, <2>1 DEF Shapes, Typed
  <2>3. ToSet(own'[t]) = ToSet(own[t]) \cup {w}
    <3>1. /\ Len(own[t]) \in Nat /\ DOMAIN own[t] = 1..Len(own[t])
          /\ DOMAIN own'[t] = 1..Len(own[t]) + 1
          /\ \A i \in DOMAIN own[t] : own'[t][i] = own[t][i]
          /\ own'[t][Len(own[t]) + 1] = w
      BY <2>2, AppendAt
    <3> QED
      BY <3>1 DEF ToSet
  <2>4. Uncounted' = Uncounted \cup {w}
    BY <1>1, <1>4, <1>6, <1>7, <1>8, <2>2, <2>3 DEF Crediting
  <2>5. Cardinality(Uncounted') = Cardinality(Uncounted) + 1
    BY <1>3, <1>5, <2>4, FS_AddElement
  <2> QED
    BY <1>1, <1>2, <1>3, <1>5, <2>1, <2>5 DEF WorkCounted
<1>9. CASE ~(continuation /\ t \in Threads)
  <2>1. work' = work + 1 /\ own' = own
    BY <1>9 DEF PostImmediate
  <2>2. Uncounted' = Uncounted
    BY <1>1, <1>4, <1>6, <1>7, <2>1
  <2> QED
    BY <1>1, <1>2, <1>3, <1>5, <2>1, <2>2 DEF WorkCounted
<1> QED
  BY <1>8, <1>9

LEMMA StartWaitingWork ==
  ASSUME Shapes, Linked, WorkCounted, NEW t \in Callers, NEW d \in Descriptors,
         NEW w \in Operations \ pending, NEW speculative \in BOOLEAN,
         StartWaiting(t, d, w, speculative)
  PROVE  WorkCounted'
<1>1. pending' = pending \cup {w} /\ work' = work + 1 /\ own' = own /\ at' = at /\ w \in Items
  BY DEF StartWaiting, threadVars, Items
<1>2. Cardinality(pending') = Cardinality(pending) + 1 /\ Cardinality(pending) \in Nat
  BY <1>1, CountsFinite, FS_AddElement DEF Shapes
<1>3. \A s \in Threads : w \notin ToSet(own[s])
  BY <1>1 DEF Linked, Due, Lies, ToSet
<1>4. Uncounted' = Uncounted /\ Settling' = Settling
  BY <1>1, <1>3 DEF Uncounted, Settling
<1>5. Cardinality(Settling) \in Nat /\ Cardinality(Uncounted) \in Nat /\ work \in Int
  BY CountsFinite DEF Shapes, Typed
<1> QED
  BY <1>1, <1>2, <1>4, <1>5 DEF WorkCounted

LEMMA HandlerEndsWork ==
  ASSUME Shapes, Linked, WorkCounted, NEW t \in Threads, HandlerEnds(t)
  PROVE  WorkCounted'
<1>1. /\ at[t] = "user" /\ doing[t] \in Items /\ own' = own /\ work' = work
      /\ pending' = pending \ {doing[t]}
      /\ at'[t] \in {"returned", "thrown"} /\ \A s \in Threads \ {t} : at'[s] = at[s]
  BY DEF HandlerEnds, poolVars, Shapes, Shape, Typed
<1>2. Lies("upcall", t, 1, doing[t])
  BY <1>1 DEF Lies
<1>3. doing[t] \in pending
  BY <1>1, <1>2 DEF Linked, Due
<1>4. \A s \in Threads : doing[t] \notin ToSet(own[s])
  <2>1. ASSUME NEW s \in Threads, NEW i \in DOMAIN own[s], own[s][i] = doing[t] PROVE FALSE
    <3>1. Lies("own", s, i, doing[t])
      BY <2>1 DEF Lies
    <3> QED
      BY <1>2, <3>1 DEF Linked, Once
  <2> QED
    BY <2>1 DEF ToSet
<1>5. Uncounted' = Uncounted
  BY <1>1, <1>4 DEF Uncounted
<1>6. Settling' = Settling \cup {t} /\ t \notin Settling
  BY <1>1 DEF Settling
<1>7. /\ IsFiniteSet(pending) /\ Cardinality(pending) \in Nat
      /\ IsFiniteSet(Settling) /\ Cardinality(Settling) \in Nat
      /\ Cardinality(Uncounted) \in Nat /\ work \in Int
  BY CountsFinite DEF Shapes, Typed
<1>8. Cardinality(pending') = Cardinality(pending) - 1
  BY <1>1, <1>3, <1>7, FS_RemoveElement
<1>9. Cardinality(Settling') = Cardinality(Settling) + 1
  BY <1>6, <1>7, FS_AddElement
<1> QED
  BY <1>1, <1>5, <1>7, <1>8, <1>9 DEF WorkCounted

LEMMA WorkCleanupWork ==
  ASSUME Shapes, Linked, WorkCounted, NEW t \in Threads, WorkCleanup(t)
  PROVE  WorkCounted'
<1>1. /\ at[t] \in {"returned", "thrown"} /\ own' = own /\ pending' = pending
      /\ work' = (work + credit[t]) - 1
      /\ at'[t] \in {"counted", "unwinding"} /\ \A s \in Threads \ {t} : at'[s] = at[s]
  BY DEF WorkCleanup, AfterCounting, Shapes, Typed
<1>2. own[t] \in Seq(Items) /\ credit[t] = Len(own[t]) /\ credit[t] \in Nat
  BY <1>1 DEF Shapes, Shape, Typed, Crediting
<1>3. \A i \in DOMAIN own[t] : own[t][i] \in Items /\ Lies("own", t, i, own[t][i])
  BY <1>2, LenProperties, ElementOfSeq DEF Lies
<1>4. IsFiniteSet(ToSet(own[t])) /\ Cardinality(ToSet(own[t])) = credit[t]
  <2>1. \A i, j \in DOMAIN own[t] : own[t][i] = own[t][j] => i = j
    BY <1>3 DEF Linked, Once
  <2> QED
    BY <1>2, <2>1, DistinctElements
<1>5. ToSet(own[t]) \subseteq pending
  BY <1>3 DEF Linked, Due, ToSet
<1>6. \A s \in Threads \ {t} : ToSet(own[s]) \cap ToSet(own[t]) = {}
  <2>1. ASSUME NEW s \in Threads \ {t}, NEW i \in DOMAIN own[s], NEW j \in DOMAIN own[t],
               own[s][i] = own[t][j]
        PROVE  FALSE
    <3>1. Lies("own", s, i, own[t][j])
      BY <2>1 DEF Lies
    <3> QED
      BY <1>3, <3>1 DEF Linked, Once
  <2> QED
    BY <2>1 DEF ToSet
<1>7. Uncounted = Uncounted' \cup ToSet(own[t]) /\ Uncounted' \cap ToSet(own[t]) = {}
  BY <1>1, <1>5, <1>6 DEF Uncounted
<1>8. Settling' = Settling \ {t} /\ t \in Settling
  BY <1>1 DEF Settling
<1>9. /\ Cardinality(pending) \in Nat /\ IsFiniteSet(Settling) /\ Cardinality(Settling) \in Nat
      /\ IsFiniteSet(Uncounted) /\ work \in Int
  BY CountsFinite DEF Shapes, Typed
<1>10. IsFiniteSet(Uncounted')
  BY <1>7, <1>9, FS_Subset
<1>11. Cardinality(Uncounted) = Cardinality(Uncounted') + credit[t]
  <2>1. Cardinality(Uncounted) =
          Cardinality(Uncounted') + Cardinality(ToSet(own[t])) - Cardinality({})
    BY <1>4, <1>7, <1>10, FS_Union
  <2> QED
    BY <1>2, <1>4, <1>10, <2>1, FS_EmptySet, FS_CardinalityType
<1>12. Cardinality(Settling') = Cardinality(Settling) - 1
  BY <1>8, <1>9, FS_RemoveElement
<1>13. Cardinality(Uncounted') \in Nat
  BY <1>10, FS_CardinalityType
<1> QED
  BY <1>1, <1>2, <1>9, <1>11, <1>12, <1>13 DEF WorkCounted

LEMMA CompensateWork ==
  ASSUME Shapes, WorkCounted, NEW t \in Threads, Compensate(t)
  PROVE  WorkCounted'
<1>1. /\ at[t] = "compensating" /\ own' = own /\ pending' = pending /\ work' = work + 1
      /\ at'[t] = "returned" /\ \A s \in Threads \ {t} : at'[s] = at[s]
      /\ own[t] = <<>>
  BY DEF Compensate, Shapes, Shape, Typed, Crediting
<1>2. Uncounted' = Uncounted
  BY <1>1, UncountedSame DEF Crediting
<1>3. Settling' = Settling \cup {t} /\ t \notin Settling
  BY <1>1 DEF Settling
<1>4. /\ Cardinality(pending) \in Nat /\ IsFiniteSet(Settling) /\ Cardinality(Settling) \in Nat
      /\ Cardinality(Uncounted) \in Nat /\ work \in Int
  BY CountsFinite DEF Shapes, Typed
<1>5. Cardinality(Settling') = Cardinality(Settling) + 1
  BY <1>3, <1>4, FS_AddElement
<1> QED
  BY <1>1, <1>2, <1>4, <1>5 DEF WorkCounted

LEMMA WorkInitially == Init => WorkCounted
<1> SUFFICES ASSUME Init PROVE WorkCounted
  OBVIOUS
<1>1. work = 0 /\ pending = {} /\ Uncounted = {} /\ Settling = {}
  BY DEF Init, ServiceInit, Uncounted, Settling
<1> QED
  BY <1>1, FS_EmptySet DEF WorkCounted

LEMMA WorkStep == Shapes /\ Linked /\ WorkCounted /\ [Next]_vars => WorkCounted'
<1> SUFFICES ASSUME Shapes, Linked, WorkCounted, [Next]_vars PROVE WorkCounted'
  OBVIOUS
<1>1. ASSUME NEW t \in Threads, Run(t) \/ Return(t) \/ (WakeSpuriously(t) /\ UNCHANGED reactorVars)
      PROVE  WorkCounted'
  <2>1. CASE Enter(t) \/ Leave(t) \/ Sleep(t) \/ WakeUp(t) \/ WakeSpuriously(t)
    <3>1. UNCHANGED <<work, pending, own>>
      BY <2>1 DEF Enter, Leave, Sleep, WakeUp, WakeSpuriously, poolVars
    <3>2. \A s \in Threads : \/ at'[s] = at[s]
                             \/ {at[s], at'[s]} \cap Crediting = {}
      <4>1. CASE Enter(t) \/ Leave(t) \/ Sleep(t)
        BY <4>1 DEF Enter, Leave, Sleep, AtHead, Crediting, Shapes, Typed
      <4>2. CASE WakeUp(t) \/ WakeSpuriously(t)
        BY <4>2 DEF WakeUp, WakeSpuriously, Crediting, Shapes, Typed
      <4> QED
        BY <2>1, <4>1, <4>2
    <3>3. Settling' = Settling
      BY <3>2 DEF Settling, Crediting
    <3> QED
      BY <3>1, <3>2, <3>3, QuietWork
  <2>2. CASE TakeTask(t)
    <3>1. UNCHANGED <<work, pending, own>>
      BY <2>2 DEF TakeTask
    <3>2. \A s \in Threads : \/ at'[s] = at[s]
                             \/ {at[s], at'[s]} \cap Crediting = {}
      BY <2>2 DEF TakeTask, AtHead, Crediting, Shapes, Typed
    <3>3. Settling' = Settling
      BY <3>2 DEF Settling, Crediting
    <3> QED
      BY <3>1, <3>2, <3>3, QuietWork
  <2>3. CASE TakeOperation(t)
    <3>1. UNCHANGED <<work, pending, own>> /\ own[t] = <<>> /\ at[t] = "loop"
          /\ at'[t] \in {"performing", "user"} /\ \A s \in Threads \ {t} : at'[s] = at[s]
      BY <2>3 DEF TakeOperation, AtHead, Crediting, Shapes, Shape, Typed
    <3>2. Settling' = Settling
      BY <3>1 DEF Settling
    <3> QED
      BY <3>1, <3>2, QuietWork
  <2>4. CASE TaskCleanup(t) \/ Poll(t)
    <3>1. /\ UNCHANGED <<work, pending>> /\ \A s \in Threads \ {t} : at'[s] = at[s] /\ own'[s] = own[s]
          /\ {at[t], at'[t]} \cap Crediting = {}
      <4>1. CASE TaskCleanup(t)
        BY <4>1 DEF TaskCleanup, Crediting, Shapes, Typed
      <4>2. CASE Poll(t)
        BY <4>2 DEF Poll, Crediting, Shapes, Typed
      <4> QED
        BY <2>4, <4>1, <4>2
    <3>2. Settling' = Settling
      BY <3>1 DEF Settling, Crediting
    <3> QED
      BY <3>1, <3>2, QuietWork
  <2>5. CASE Deliver(t)
    <3>1. /\ UNCHANGED <<work, pending>> /\ \A s \in Threads \ {t} : at'[s] = at[s] /\ own'[s] = own[s]
          /\ {at[t], at'[t]} \cap Crediting = {}
      BY <2>5 DEF Deliver, Crediting, Shapes, Typed
    <3>2. Settling' = Settling
      BY <3>1 DEF Settling, Crediting
    <3> QED
      BY <3>1, <3>2, QuietWork
  <2>6. CASE PerformIo(t)
    <3>1. /\ UNCHANGED <<work, pending, own>> /\ own[t] = <<>> /\ at[t] = "performing"
          /\ at'[t] \in {"compensating", "user"} /\ \A s \in Threads \ {t} : at'[s] = at[s]
      BY <2>6 DEF PerformIo, poolVars, Crediting, Shapes, Shape, Typed
    <3>2. Settling' = Settling
      BY <3>1 DEF Settling
    <3> QED
      BY <3>1, <3>2, QuietWork
  <2> QED
    BY <1>1, <2>1, <2>2, <2>3, <2>4, <2>5, <2>6, HandlerEndsWork, WorkCleanupWork, CompensateWork
       DEF Run, Return
<1>2. ASSUME NEW t \in Callers, Complete(t)
      PROVE  WorkCounted'
  <2>1. UNCHANGED <<work, pending, own>>
    BY <1>2 DEF Complete, CloseSocket, Signal, Stop, Push, serviceVars, poolVars, threadVars
  <2>2. \A s \in Threads : \/ at'[s] = at[s]
                           \/ {at[s], at'[s]} \cap Crediting = {}
    BY <1>2 DEF Complete, CloseSocket, Signal, Stop, Push, serviceVars, threadVars, Crediting, Shapes,
       Typed
  <2>3. Settling' = Settling
    BY <2>2 DEF Settling, Crediting
  <2> QED
    BY <2>1, <2>2, <2>3, QuietWork
<1>3. ASSUME NEW t \in Callers, Use(t)
      PROVE  WorkCounted'
  <2>1. CASE PostHandler(t)
    <3>1. PICK w \in Handlers \ pending, continuation \in BOOLEAN : PostImmediate(t, w, continuation)
      BY <2>1 DEF PostHandler
    <3>2. w \in Items \ pending /\ (t \in Threads => at[t] = "user") /\ at' = at
      BY <2>1 DEF PostHandler, Using, Items
    <3> QED
      BY <3>1, <3>2, PostWork
  <2>2. CASE StartOp(t)
    <3>1. PICK d \in Descriptors, w \in Operations \ pending,
               speculative \in BOOLEAN, continuation \in BOOLEAN :
            StartReady(t, d, w, continuation) \/ StartWaiting(t, d, w, speculative)
      BY <2>2 DEF StartOp
    <3>2. CASE StartReady(t, d, w, continuation)
      <4>1. /\ PostImmediate(t, w, continuation) /\ w \in Items \ pending /\ at' = at
            /\ t \in Threads => at[t] = "user"
        BY <3>2 DEF StartReady, Using, Items
      <4> QED
        BY <4>1, PostWork
    <3> QED
      BY <3>1, <3>2, StartWaitingWork
  <2>3. CASE InitTask(t) \/ StopByUser(t)
    <3>1. UNCHANGED <<work, pending, own, at>>
      BY <2>3 DEF InitTask, StopByUser, poolVars, threadVars
    <3> QED
      BY <3>1, QuietWork DEF Settling
  <2>4. ASSUME NEW d \in Descriptors, Register(t, d) \/ CancelOps(t, d) \/ Deregister(t, d)
        PROVE  WorkCounted'
    <3>1. UNCHANGED <<work, pending, own, at>>
      BY <2>4 DEF Register, CancelOps, Deregister, Abort, serviceVars, poolVars, threadVars
    <3> QED
      BY <3>1, QuietWork DEF Settling
  <2> QED
    BY <1>3, <2>1, <2>2, <2>3, <2>4 DEF Use
<1>4. CASE UNCHANGED <<work, pending, own, at>>
  BY <1>4, QuietWork DEF Settling
<1>5. ASSUME (\E d \in Descriptors : Arrive(d)) \/ \E t \in Callers : ArriveLate(t)
      PROVE  UNCHANGED <<work, pending, own, at>>
  BY <1>5 DEF Arrive, ArriveLate, serviceVars, poolVars, threadVars
<1>6. Reset \/ UNCHANGED vars => UNCHANGED <<work, pending, own, at>>
  BY DEF Reset, vars, serviceVars, poolVars, threadVars
<1> QED
  BY <1>1, <1>2, <1>3, <1>4, <1>5, <1>6 DEF Next
-----------------------------------------------------------------------------

(* Wake-ups.                                                               *)

Way == {"loop", "polling", "polled", "compensating", "returned", "counted", "thrown", "unwinding",
        "caught"}

Resting == {"asleep", "woken", "blocking"}

\* Threads on their way to the queue by no mere event of a descriptor, which another
\* thread may deal with before epoll reports it.
Coming == {t \in Threads : at[t] \in Way \/ (at[t] = "blocking" /\ awakened)}

\* A task that was interrupted has the interrupter's event to wake it.
Interruptible == \A t \in Threads : at[t] = "blocking" /\ interrupted => awakened

Wakeful ==
  (queue # <<>> /\ ~stopped /\ \E t \in Threads : at[t] \in Resting) => Coming # {} \/ Waking

LEMMA WakefulKept ==
  ASSUME Shapes, Interruptible, Wakeful, queue' # <<>> => queue # <<>>, stopped => stopped',
         UNCHANGED <<interrupted, awakened, signalled>>,
         \A s \in Threads : \/ at'[s] = at[s]
                            \/ ({at[s], at'[s]} \cap Resting = {} /\ (at[s] \in Way => at'[s] \in Way)),
         \A c \in Callers : call[c].f = "signal" => call'[c].f = "signal"
  PROVE  Interruptible' /\ Wakeful'
<1>1. Interruptible'
  BY DEF Interruptible, Resting
<1>2. \A s \in Threads : at'[s] \in Resting <=> at[s] \in Resting
  BY DEF Resting
<1>3. \A s \in Coming : s \in Coming'
  BY DEF Coming, Resting, Way
<1>4. Waking => Waking'
  BY DEF Waking, Resting
<1> QED
  BY <1>1, <1>2, <1>3, <1>4 DEF Wakeful

LEMMA WakefulComing ==
  ASSUME Interruptible', NEW t \in Threads, at'[t] \in Way
  PROVE  Interruptible' /\ Wakeful'
BY DEF Wakeful, Coming

LEMMA WakeOneWakes ==
  ASSUME Shapes, Linked, Interruptible, NEW t \in Callers, WakeOne(t),
         \A s \in Threads : at'[s] = at[s] \/ {at[s], at'[s]} \cap Resting = {}
  PROVE  Interruptible' /\ Wakeful'
<1>1. \A s \in Threads : at[s] \in Resting \/ at'[s] \in Resting => at'[s] = at[s]
  BY DEF Resting
<1>2. CASE Waiters # {}
  <2>1. signalled' = TRUE /\ Calls(t, "signal", <<>>) /\ UNCHANGED <<interrupted, awakened>>
    BY <1>2 DEF WakeOne, SignalOne
  <2>2. call'[t].f = "signal"
    BY <2>1 DEF Calls, Shapes, CallsTyped
  <2>3. PICK s \in Threads : at[s] \in {"asleep", "woken"}
    BY <1>2 DEF Waiters
  <2>4. at'[s] \in {"asleep", "woken"}
    BY <1>1, <2>3 DEF Resting
  <2>5. Waking'
    BY <2>1, <2>2, <2>4 DEF Waking
  <2>6. Interruptible'
    BY <1>1, <2>1 DEF Interruptible, Resting
  <2> QED
    BY <2>5, <2>6 DEF Wakeful
<1>3. CASE Waiters = {}
  <2>1. InterruptTask
    BY <1>3 DEF WakeOne
  <2>2. ASSUME NEW s \in Threads, at'[s] \in Resting
        PROVE  at'[s] = "blocking" /\ awakened'
    <3>1. at[s] = "blocking" /\ at'[s] = "blocking"
      BY <1>1, <1>3, <2>2 DEF Waiters, Resting
    <3>2. task
      BY <3>1 DEF Linked, TaskBehind, InReactor
    <3> QED
      BY <2>1, <3>1, <3>2 DEF InterruptTask, Interruptible
  <2>3. Interruptible'
    BY <2>2 DEF Interruptible, Resting
  <2>4. Wakeful'
    BY <2>2 DEF Wakeful, Coming
  <2> QED
    BY <2>3, <2>4
<1> QED
  BY <1>2, <1>3

LEMMA WakefulThread ==
  ASSUME Shapes, Linked, Interruptible, Wakeful, NEW t \in Threads,
         Run(t) \/ Return(t) \/ WakeSpuriously(t)
  PROVE  Interruptible' /\ Wakeful'
<1>0. t \in Callers /\ (Free(t) => call[t].f = "none")
  BY DEF Callers, Free, NoCall
<1>1. CASE Enter(t)
  <2>1. UNCHANGED <<queue, stopped, interrupted, awakened, signalled>>
    BY <1>1 DEF Enter, poolVars
  <2>2. \A c \in Callers : call[c].f = "signal" => call'[c].f = "signal"
    BY <1>0, <1>1 DEF Enter, Calls, Shapes, CallsTyped
  <2>3. \A s \in Threads : at'[s] = at[s] \/ ({at[s], at'[s]} \cap Resting = {} /\ at'[s] \in Way)
    BY <1>1 DEF Enter, Resting, Way, Shapes, Typed
  <2> QED
    BY <2>1, <2>2, <2>3, WakefulKept
<1>2. CASE Leave(t)
  <2>1. stopped' /\ Interruptible'
    BY <1>2 DEF Leave, AtHead, Interruptible, Shapes, Typed
  <2> QED
    BY <2>1 DEF Wakeful
<1>3. CASE Sleep(t)
  <2>1. queue' = <<>> /\ Interruptible'
    BY <1>3 DEF Sleep, AtHead, Interruptible, Shapes, Typed
  <2> QED
    BY <2>1 DEF Wakeful
<1>4. CASE WakeUp(t)
  <2>1. Interruptible'
    BY <1>4 DEF WakeUp, Interruptible, Shapes, Typed
  <2>2. CASE signalled
    <3>1. at'[t] \in Way
      BY <1>4, <2>2 DEF WakeUp, Way, Shapes, Typed
    <3> QED
      BY <2>1, <3>1, WakefulComing
  <2>3. CASE ~signalled
    <3>1. /\ at[t] = "woken" /\ \A s \in Threads \ {t} : at'[s] = at[s]
          /\ UNCHANGED <<queue, stopped, awakened>>
      BY <1>4, <2>3 DEF WakeUp, Shapes, Typed
    <3>2. Coming \subseteq Coming' /\ ~Waking
      BY <2>3, <3>1 DEF Coming, Way, Waking
    <3>3. (\E s \in Threads : at'[s] \in Resting) => \E s \in Threads : at[s] \in Resting
      BY <3>1 DEF Resting
    <3> QED
      BY <2>1, <3>1, <3>2, <3>3 DEF Wakeful
  <2> QED
    BY <2>2, <2>3
<1>5. CASE WakeSpuriously(t)
  <2>1. /\ at[t] = "asleep" /\ at'[t] = "woken" /\ \A s \in Threads \ {t} : at'[s] = at[s]
        /\ UNCHANGED <<queue, stopped, awakened, interrupted, signalled, call>>
    BY <1>5 DEF WakeSpuriously, poolVars, Shapes, Typed
  <2>2. Interruptible' /\ Coming \subseteq Coming' /\ (Waking => Waking')
    BY <2>1 DEF Interruptible, Coming, Way, Waking
  <2>3. \E s \in Threads : at[s] \in Resting
    BY <2>1 DEF Resting
  <2> QED
    BY <2>1, <2>2, <2>3 DEF Wakeful
<1>6. CASE TakeTask(t)
  <2>1. /\ at[t] = "loop" /\ queue' = Tail(queue) /\ interrupted' = (Tail(queue) # <<>>)
        /\ at'[t] = (IF Tail(queue) = <<>> THEN "blocking" ELSE "polling")
        /\ \A s \in Threads \ {t} : at'[s] = at[s]
    BY <1>6 DEF TakeTask, AtHead, Shapes, Typed
  <2>2. \A s \in Threads : at[s] # "blocking"
    BY <1>6, TailAt DEF TakeTask, AtHead, Linked, TaskBehind, ToSet, InReactor, Shapes, Typed
  <2>3. Interruptible'
    BY <2>1, <2>2 DEF Interruptible
  <2>4. CASE Tail(queue) = <<>>
    BY <2>1, <2>3, <2>4 DEF Wakeful
  <2>5. CASE Tail(queue) # <<>>
    <3>1. at'[t] \in Way
      BY <2>1, <2>5 DEF Way
    <3> QED
      BY <2>3, <3>1, WakefulComing
  <2> QED
    BY <2>4, <2>5
<1>7. CASE TakeOperation(t)
  <2>1. /\ queue' = Tail(queue) /\ at[t] = "loop" /\ at'[t] \in {"performing", "user"}
        /\ \A s \in Threads \ {t} : at'[s] = at[s]
    BY <1>7 DEF TakeOperation, AtHead, Shapes, Typed
  <2>2. \A s \in Threads : at'[s] = at[s] \/ {at[s], at'[s]} \cap Resting = {}
    BY <2>1 DEF Resting
  <2>3. CASE Tail(queue) # <<>>
    BY <1>0, <1>7, <2>2, <2>3, WakeOneWakes DEF TakeOperation
  <2>4. CASE Tail(queue) = <<>>
    <3>1. Interruptible'
      BY <1>7, <2>1, <2>4 DEF TakeOperation, Interruptible
    <3> QED
      BY <2>1, <2>4, <3>1 DEF Wakeful
  <2> QED
    BY <2>3, <2>4
<1>8. CASE TaskCleanup(t)
  <2>1. at[t] = "polled" /\ at'[t] = "loop" /\ \A s \in Threads \ {t} : at'[s] = at[s]
    BY <1>8 DEF TaskCleanup, Shapes, Typed
  <2>2. \A s \in Threads : at'[s] # "blocking"
    BY <2>1 DEF Linked, TaskBehind, InReactor
  <2>3. Interruptible' /\ at'[t] \in Way
    BY <2>1, <2>2 DEF Interruptible, Way
  <2> QED
    BY <2>3, WakefulComing
<1>9. CASE WorkCleanup(t)
  <2>1. UNCHANGED <<queue, stopped, interrupted, awakened, signalled>>
    BY <1>9 DEF WorkCleanup
  <2>2. \A c \in Callers : call[c].f = "signal" => call'[c].f = "signal"
    BY <1>0, <1>9 DEF WorkCleanup, Calls, Shapes, CallsTyped
  <2>3. \A s \in Threads : at'[s] = at[s] \/ ({at[s], at'[s]} \cap Resting = {} /\ at'[s] \in Way)
    BY <1>9 DEF WorkCleanup, AfterCounting, Resting, Way, Shapes, Typed
  <2> QED
    BY <2>1, <2>2, <2>3, WakefulKept
<1>10. CASE Deliver(t)
  <2>1. at'[t] \in {"loop", "caught"} /\ \A s \in Threads \ {t} : at'[s] = at[s]
        /\ UNCHANGED <<interrupted, awakened>>
    BY <1>10 DEF Deliver, Shapes, Typed
  <2>2. Interruptible' /\ at'[t] \in Way
    BY <2>1 DEF Interruptible, Way
  <2> QED
    BY <2>2, WakefulComing
<1>11. CASE Poll(t)
  <2>1. /\ at[t] \in {"blocking", "polling"} /\ at'[t] = "polled"
        /\ \A s \in Threads \ {t} : at'[s] = at[s]
    BY <1>11 DEF Poll, Shapes, Typed
  <2>2. \A s \in Threads : at'[s] # "blocking"
    BY <2>1 DEF Linked, TaskBehind, InReactor
  <2>3. Interruptible' /\ at'[t] \in Way
    BY <2>1, <2>2 DEF Interruptible, Way
  <2> QED
    BY <2>3, WakefulComing
<1>12. CASE PerformIo(t)
  <2>1. /\ UNCHANGED <<queue, stopped, interrupted, awakened, signalled>>
        /\ at[t] = "performing" /\ at'[t] \in {"user", "compensating"}
        /\ \A s \in Threads \ {t} : at'[s] = at[s]
    BY <1>12 DEF PerformIo, poolVars, Shapes, Typed
  <2>2. \A c \in Callers : call[c].f = "signal" => call'[c].f = "signal"
    BY <1>0, <1>12 DEF PerformIo, Calls, Shapes, CallsTyped
  <2>3. \A s \in Threads :
          at'[s] = at[s] \/ ({at[s], at'[s]} \cap Resting = {} /\ (at[s] \in Way => at'[s] \in Way))
    BY <2>1 DEF Resting, Way
  <2> QED
    BY <2>1, <2>2, <2>3, WakefulKept
<1>13. CASE Compensate(t) \/ HandlerEnds(t)
  <2>1. UNCHANGED <<queue, stopped, interrupted, awakened, signalled, call>>
    BY <1>13 DEF Compensate, HandlerEnds, poolVars
  <2>2. \A s \in Threads : at'[s] = at[s] \/ ({at[s], at'[s]} \cap Resting = {} /\ at'[s] \in Way)
    BY <1>13 DEF Compensate, HandlerEnds, Resting, Way, Shapes, Typed
  <2> QED
    BY <2>1, <2>2, WakefulKept
<1> QED
  BY <1>1, <1>2, <1>3, <1>4, <1>5, <1>6, <1>7, <1>8, <1>9, <1>10, <1>11, <1>12, <1>13 DEF Run, Return

LEMMA WakefulCaller ==
  ASSUME Shapes, Linked, Interruptible, Wakeful, NEW t \in Callers, Complete(t) \/ Use(t)
  PROVE  Interruptible' /\ Wakeful'
<1>0. Free(t) => call[t].f = "none"
  BY DEF Free, NoCall
<1>1. CASE Signal(t)
  <2>1. /\ UNCHANGED <<queue, stopped, interrupted, awakened, signalled>>
        /\ \A c \in Callers \ {t} : call'[c] = call[c]
    BY <1>1 DEF Signal, Calls, poolVars, Shapes, CallsTyped
  <2>2. \A s \in Threads : at'[s] = at[s] \/ (at[s] = "asleep" /\ at'[s] = "woken")
    BY <1>1 DEF Signal, Shapes, Typed
  <2>3. (\E s \in Threads : at[s] = "asleep") => \E s \in Threads : at'[s] = "woken"
    BY <1>1 DEF Signal, Shapes, Typed
  <2>4. Interruptible' /\ Coming \subseteq Coming'
    BY <2>1, <2>2 DEF Interruptible, Coming, Way
  <2>5. Waking => Waking'
    BY <2>1, <2>2, <2>3 DEF Waking
  <2>6. (\E s \in Threads : at'[s] \in Resting) => \E s \in Threads : at[s] \in Resting
    BY <2>2 DEF Resting
  <2> QED
    BY <2>1, <2>4, <2>5, <2>6 DEF Wakeful
<1>2. CASE Stop(t)
  <2>1. stopped' /\ Interruptible'
    BY <1>2 DEF Stop, InterruptTask, Interruptible, Shapes, Typed
  <2> QED
    BY <2>1 DEF Wakeful
<1>3. CASE Push(t)
  BY <1>3, WakeOneWakes DEF Push, threadVars
<1>4. CASE InitTask(t)
  BY <1>4, WakeOneWakes DEF InitTask, threadVars
<1>5. CASE /\ UNCHANGED <<queue, stopped, interrupted, awakened, signalled, at>>
           /\ Free(t) /\ \A c \in Callers \ {t} : call'[c] = call[c]
  <2>1. \A c \in Callers : call[c].f = "signal" => call'[c].f = "signal"
    BY <1>0, <1>5
  <2> QED
    BY <1>5, <2>1, WakefulKept
<1>6. ASSUME \/ PostHandler(t) \/ StopByUser(t) \/ StartOp(t) \/ CloseSocket(t)
             \/ \E d \in Descriptors : Register(t, d) \/ CancelOps(t, d) \/ Deregister(t, d)
      PROVE  /\ UNCHANGED <<queue, stopped, interrupted, awakened, signalled, at>>
             /\ Free(t) /\ \A c \in Callers \ {t} : call'[c] = call[c]
  <2>1. CASE PostHandler(t)
    BY <2>1 DEF PostHandler, PostImmediate, Using, Calls, Shapes, CallsTyped
  <2>2. CASE StopByUser(t)
    BY <2>2 DEF StopByUser, Using, Calls, poolVars, threadVars, Shapes, CallsTyped
  <2>3. CASE StartOp(t)
    BY <2>3 DEF StartOp, StartReady, StartWaiting, PostImmediate, Using, Calls, threadVars, Shapes,
       CallsTyped
  <2>4. ASSUME NEW d \in Descriptors, Register(t, d) \/ CancelOps(t, d) \/ Deregister(t, d)
        PROVE  /\ UNCHANGED <<queue, stopped, interrupted, awakened, signalled, at>>
               /\ Free(t) /\ \A c \in Callers \ {t} : call'[c] = call[c]
    BY <2>4 DEF Register, CancelOps, Deregister, Abort, Using, Calls, serviceVars, poolVars, threadVars,
       Shapes, CallsTyped
  <2>5. CASE CloseSocket(t)
    BY <2>5 DEF CloseSocket, serviceVars, poolVars, threadVars
  <2> QED
    BY <1>6, <2>1, <2>2, <2>3, <2>4, <2>5
<1> QED
  BY <1>1, <1>2, <1>3, <1>4, <1>5, <1>6 DEF Complete, Use

LEMMA WakefulStep ==
  Shapes /\ Linked /\ Interruptible /\ Wakeful /\ [Next]_vars => Interruptible' /\ Wakeful'
<1> SUFFICES ASSUME Shapes, Linked, Interruptible, Wakeful, [Next]_vars
             PROVE  Interruptible' /\ Wakeful'
  OBVIOUS
<1>1. CASE Reset
  <2>1. \A s \in Threads : at[s] \notin Resting
    BY <1>1 DEF Reset, Resting
  <2> QED
    BY <1>1, <2>1 DEF Reset, threadVars, Interruptible, Wakeful, Resting
<1>2. ASSUME \/ UNCHANGED vars
             \/ \E d \in Descriptors : Arrive(d)
             \/ \E t \in Callers : ArriveLate(t)
      PROVE  UNCHANGED <<queue, stopped, interrupted, awakened, signalled, at, call>>
  BY <1>2 DEF Arrive, ArriveLate, vars, serviceVars, poolVars, threadVars
<1>3. CASE UNCHANGED <<queue, stopped, interrupted, awakened, signalled, at, call>>
  BY <1>3, WakefulKept
<1> QED
  BY <1>1, <1>2, <1>3, WakefulThread, WakefulCaller DEF Next
-----------------------------------------------------------------------------

(* Data that has come for an operation that waits.                         *)

Wanted(d) == waiting[d] # <<>> /\ data[d] > 0

Placed(d) == d \in ToSet(queue) \/ \E t \in Threads : d \in ToSet(own[t])

Performing(d) == \E t \in Threads : at[t] = "performing" /\ doing[t] = d

Known == \A d \in Descriptors : Wanted(d) => edge[d] \/ Placed(d) \/ Performing(d)

\* Steps that leave the reactor alone only have to keep what they know of.
LEMMA KnownKept ==
  ASSUME Known, UNCHANGED reactorVars,
         \A d \in Descriptors : Placed(d) => Placed(d)' \/ Performing(d)',
         \A d \in Descriptors : Performing(d) => Performing(d)'
  PROVE  Known'
BY DEF Known, Wanted, reactorVars

LEMMA ToSetJoin ==
  ASSUME NEW S, NEW s \in Seq(S), NEW u \in Seq(S)
  PROVE  ToSet(s \o u) = ToSet(s) \cup ToSet(u)
<1> DEFINE v == s \o u
<1>1. /\ \A i \in DOMAIN s : i \in DOMAIN v /\ v[i] = s[i]
      /\ \A i \in DOMAIN u : i + Len(s) \in DOMAIN v /\ v[i + Len(s)] = u[i]
      /\ \A i \in DOMAIN v :
           \/ i \in DOMAIN s /\ v[i] = s[i]
           \/ i - Len(s) \in DOMAIN u /\ v[i] = u[i - Len(s)]
  BY JoinAt
<1> HIDE DEF v
<1>2. ToSet(v) = ToSet(s) \cup ToSet(u)
  BY <1>1 DEF ToSet
<1> QED
  BY <1>2 DEF v

LEMMA ToSetAppend ==
  ASSUME NEW S, NEW s \in Seq(S), NEW x \in S
  PROVE  ToSet(Append(s, x)) = ToSet(s) \cup {x}
<1>1. /\ Len(s) \in Nat /\ DOMAIN s = 1..Len(s) /\ DOMAIN Append(s, x) = 1..Len(s) + 1
      /\ \A i \in DOMAIN s : Append(s, x)[i] = s[i]
      /\ Append(s, x)[Len(s) + 1] = x
  BY AppendAt
<1> QED
  BY <1>1 DEF ToSet

LEMMA ToSetTail ==
  ASSUME NEW S, NEW s \in Seq(S), s # <<>>
  PROVE  ToSet(s) = ToSet(Tail(s)) \cup {Head(s)}
<1>1. /\ Len(s) \in Nat \ {0} /\ DOMAIN s = 1..Len(s) /\ Head(s) = s[1]
      /\ \A i : i \in DOMAIN Tail(s) <=> i \in Nat \ {0} /\ i + 1 \in DOMAIN s
      /\ \A i \in DOMAIN Tail(s) : Tail(s)[i] = s[i + 1]
  BY TailAt, LenProperties
<1>2. \A i \in DOMAIN s : i = 1 \/ (i - 1 \in DOMAIN Tail(s) /\ Tail(s)[i - 1] = s[i])
  <2> SUFFICES ASSUME NEW i \in DOMAIN s, i # 1
               PROVE  i - 1 \in DOMAIN Tail(s) /\ Tail(s)[i - 1] = s[i]
    OBVIOUS
  <2>1. i - 1 \in Nat \ {0} /\ (i - 1) + 1 = i
    BY <1>1
  <2> QED
    BY <1>1, <2>1
<1>3. ToSet(s) \subseteq ToSet(Tail(s)) \cup {Head(s)}
  <2> SUFFICES ASSUME NEW i \in DOMAIN s, s[i] # Head(s)
               PROVE  \E j \in DOMAIN Tail(s) : Tail(s)[j] = s[i]
    BY DEF ToSet
  <2> QED
    BY <1>1, <1>2
<1>4. ToSet(Tail(s)) \subseteq ToSet(s) /\ Head(s) \in ToSet(s)
  BY <1>1 DEF ToSet
<1> QED
  BY <1>3, <1>4

LEMMA KnownThread ==
  ASSUME Shapes, Linked, Known, NEW t \in Threads,
         Run(t) \/ Return(t) \/ (WakeSpuriously(t) /\ UNCHANGED reactorVars)
  PROVE  Known'
<1>0. queue \in Seq(Queued) /\ \A s \in Threads : own[s] \in Seq(Queued)
  <2>1. \A s \in Threads : own[s] \in Seq(Items \cup Descriptors)
    BY DEF Shapes, Typed
  <2> QED
    BY <2>1, SeqMonotonic DEF Shapes, Typed, Queued
<1>1. CASE /\ Enter(t) \/ Leave(t) \/ Sleep(t) \/ WakeUp(t) \/ WakeSpuriously(t) \/ WorkCleanup(t)
              \/ HandlerEnds(t)
           /\ UNCHANGED reactorVars
  <2>1. UNCHANGED <<queue, own>>
    BY <1>1 DEF Enter, Leave, Sleep, WakeUp, WakeSpuriously, WorkCleanup, HandlerEnds, poolVars
  <2>2. \A s \in Threads : at[s] = "performing" => at'[s] = "performing" /\ doing'[s] = doing[s]
    <3>1. CASE Enter(t) \/ Leave(t) \/ Sleep(t)
      BY <3>1 DEF Enter, Leave, Sleep, AtHead, Shapes, Typed
    <3>2. CASE WakeUp(t) \/ WakeSpuriously(t)
      BY <3>2 DEF WakeUp, WakeSpuriously, Shapes, Typed
    <3>3. CASE WorkCleanup(t) \/ HandlerEnds(t)
      BY <3>3 DEF WorkCleanup, HandlerEnds, Shapes, Typed
    <3> QED
      BY <1>1, <3>1, <3>2, <3>3
  <2> QED
    BY <1>1, <2>1, <2>2, KnownKept DEF Placed, Performing
<1>2. CASE TakeTask(t) /\ UNCHANGED reactorVars
  <2>1. /\ queue # <<>> /\ Head(queue) = Task /\ queue' = Tail(queue) /\ UNCHANGED <<own, doing>>
        /\ at[t] = "loop" /\ \A s \in Threads \ {t} : at'[s] = at[s]
    BY <1>2 DEF TakeTask, AtHead, Shapes, Typed
  <2>2. ToSet(queue) = ToSet(queue') \cup {Task}
    BY <1>0, <2>1, ToSetTail
  <2>3. \A d \in Descriptors : Placed(d) => Placed(d)'
    BY <2>1, <2>2, IoServiceAssumption DEF Placed, ToSet
  <2> QED
    BY <1>2, <2>1, <2>3, KnownKept DEF Performing
<1>3. CASE TakeOperation(t) /\ UNCHANGED reactorVars
  <2>1. /\ queue # <<>> /\ queue' = Tail(queue) /\ UNCHANGED own
        /\ at[t] = "loop" /\ \A s \in Threads \ {t} : at'[s] = at[s] /\ doing'[s] = doing[s]
        /\ doing'[t] = Head(queue)
        /\ at'[t] = IF Head(queue) \in Descriptors THEN "performing" ELSE "user"
    BY <1>3 DEF TakeOperation, AtHead, Shapes, Typed
  <2>2. ToSet(queue) = ToSet(queue') \cup {Head(queue)}
    BY <1>0, <2>1, ToSetTail
  <2>3. \A d \in Descriptors : Placed(d) => Placed(d)' \/ Performing(d)'
    <3> SUFFICES ASSUME NEW d \in Descriptors, Placed(d), d # Head(queue)
                 PROVE  Placed(d)'
      BY <2>1 DEF Performing
    <3> QED
      BY <2>1, <2>2 DEF Placed, ToSet
  <2>4. \A d \in Descriptors : Performing(d) => Performing(d)'
    BY <2>1 DEF Performing
  <2> QED
    BY <1>3, <2>3, <2>4, KnownKept
<1>4. CASE TaskCleanup(t) /\ UNCHANGED reactorVars
  <2>1. /\ queue' = Append(queue \o own[t], Task) /\ UNCHANGED doing
        /\ \A s \in Threads \ {t} : own'[s] = own[s] /\ at'[s] = at[s]
        /\ at[t] = "polled"
    BY <1>4 DEF TaskCleanup, Shapes, Typed
  <2>2. ToSet(queue \o own[t]) = ToSet(queue) \cup ToSet(own[t]) /\ queue \o own[t] \in Seq(Queued)
    BY <1>0, ToSetJoin, JoinAt
  <2>3. ToSet(queue') = ToSet(queue) \cup ToSet(own[t]) \cup {Task}
    <3> DEFINE both == queue \o own[t]
    <3>1. both \in Seq(Queued) /\ Task \in Queued
      BY <2>2 DEF Queued
    <3> HIDE DEF both
    <3>2. ToSet(Append(both, Task)) = ToSet(both) \cup {Task}
      BY <3>1, ToSetAppend
    <3> QED
      BY <2>1, <2>2, <3>2 DEF both
  <2>4. \A d \in Descriptors : Placed(d) => Placed(d)'
    BY <2>1, <2>3 DEF Placed, ToSet
  <2>5. \A d \in Descriptors : Performing(d) => Performing(d)'
    BY <2>1 DEF Performing
  <2> QED
    BY <1>4, <2>4, <2>5, KnownKept
<1>5. CASE Deliver(t) /\ UNCHANGED reactorVars
  <2>1. /\ queue' = queue \o own[t] /\ UNCHANGED doing
        /\ \A s \in Threads \ {t} : own'[s] = own[s] /\ at'[s] = at[s]
        /\ at[t] \in {"counted", "unwinding"}
    BY <1>5 DEF Deliver, Shapes, Typed
  <2>2. ToSet(queue') = ToSet(queue) \cup ToSet(own[t])
    BY <1>0, <2>1, ToSetJoin
  <2>3. \A d \in Descriptors : Placed(d) => Placed(d)'
    BY <2>1, <2>2 DEF Placed, ToSet
  <2>4. \A d \in Descriptors : Performing(d) => Performing(d)'
    BY <2>1 DEF Performing
  <2> QED
    BY <1>5, <2>3, <2>4, KnownKept
<1>6. CASE Poll(t)
  <2>0. PICK events \in SetToSeqs(Events) : own' = [own EXCEPT ![t] = own[t] \o States(events)]
    BY <1>6 DEF Poll
  <2>1. PICK found : found = States(events) /\ own' = [own EXCEPT ![t] = own[t] \o found]
    BY <2>0
  <2>2. /\ at[t] \in {"blocking", "polling"} /\ UNCHANGED <<queue, doing, waiting, data>>
        /\ edge' = [d \in Descriptors |-> edge[d] /\ ~Ready(d)]
        /\ \A s \in Threads \ {t} : at'[s] = at[s]
        /\ own'[t] = own[t] \o found /\ \A s \in Threads \ {t} : own'[s] = own[s]
    BY <1>6, <2>1 DEF Poll, Shapes, Typed
  <2>3. found \in Seq(Descriptors)
    BY <2>1, StatesQueued
  <2>4. found \in Seq(Queued)
    BY <2>3, SeqMonotonic DEF Queued
  <2>5. ToSet(own'[t]) = ToSet(own[t]) \cup ToSet(found)
    BY <1>0, <2>2, <2>4, ToSetJoin
  <2>6. \A d \in Descriptors : Placed(d) => Placed(d)'
    <3> SUFFICES ASSUME NEW d \in Descriptors, Placed(d) PROVE Placed(d)'
      OBVIOUS
    <3>1. CASE d \in ToSet(queue)
      BY <2>2, <3>1 DEF Placed, ToSet
    <3>2. ASSUME NEW s \in Threads, d \in ToSet(own[s]) PROVE d \in ToSet(own'[s])
      BY <2>2, <2>5, <3>2
    <3> QED
      BY <3>1, <3>2 DEF Placed, ToSet
  <2>7. \A d \in Descriptors : Performing(d) => Performing(d)'
    BY <2>2 DEF Performing
  <2>8. \A d \in Descriptors : Wanted(d)' => Wanted(d)
    BY <2>2 DEF Wanted
  <2>9. \A d \in Descriptors : edge[d] /\ Wanted(d) => edge'[d] \/ Placed(d)'
    <3> SUFFICES ASSUME NEW d \in Descriptors, Ready(d) PROVE Placed(d)'
      BY <2>2
    <3>1. d \in ToSet(own'[t])
      BY <2>1, <2>5, StatesQueued
    <3> QED
      BY <3>1 DEF Placed, ToSet
  <2> QED
    BY <2>6, <2>7, <2>8, <2>9 DEF Known
<1>7. CASE PerformIo(t)
  <2>1. /\ at[t] = "performing" /\ UNCHANGED <<queue, own, edge>>
        /\ waiting' = [waiting EXCEPT ![doing[t]] =
             SubSeq(@, Performed(doing[t]) + 1, Len(@))]
        /\ data' = [data EXCEPT ![doing[t]] = @ - Performed(doing[t])]
    BY <1>7 DEF PerformIo, poolVars
  <2>2. PICK d \in Descriptors : d = doing[t]
    BY <2>1 DEF Shapes, Shape
  <2>3. \A s \in Threads \ {t} : at'[s] = at[s] /\ doing'[s] = doing[s]
    BY <1>7 DEF PerformIo, Shapes, Typed
  <2>4. \A b \in Descriptors \ {d} : waiting'[b] = waiting[b] /\ data'[b] = data[b]
    BY <2>1, <2>2 DEF Shapes, Typed
  <2>5. ~Wanted(d)'
    <3>1. /\ waiting[d] \in Seq(Operations) /\ Len(waiting[d]) \in Nat /\ data[d] \in Nat
          /\ waiting'[d] = SubSeq(waiting[d], Performed(d) + 1, Len(waiting[d]))
          /\ data'[d] = data[d] - Performed(d)
      <4>1. waiting[d] \in Seq(Operations) /\ data[d] \in Nat
        BY ReactorAssumption DEF Shapes, Typed
      <4>2. waiting \in [Descriptors -> Seq(Operations)] /\ data \in [Descriptors -> 0..MaxData]
        BY DEF Shapes, Typed
      <4>3. waiting'[d] = SubSeq(waiting[d], Performed(d) + 1, Len(waiting[d]))
        BY <2>1, <2>2, <4>2
      <4>4. data'[d] = data[d] - Performed(d)
        BY <2>1, <2>2, <4>2
      <4> QED
        BY <4>1, <4>3, <4>4, LenProperties
    <3>2. CASE Len(waiting[d]) < data[d]
      <4>1. waiting'[d] = <<>>
        BY <3>1, <3>2, SubSeqEmpty DEF Performed
      <4> QED
        BY <4>1 DEF Wanted
    <3>3. CASE ~(Len(waiting[d]) < data[d])
      BY <3>1, <3>3 DEF Performed, Wanted
    <3> QED
      BY <3>2, <3>3
  <2>6. ASSUME NEW b \in Descriptors \ {d}, Wanted(b)'
        PROVE  edge'[b] \/ Placed(b)' \/ Performing(b)'
    <3>1. edge[b] \/ Placed(b) \/ Performing(b)
      BY <2>4, <2>6 DEF Known, Wanted
    <3>2. Performing(b) => Performing(b)'
      BY <2>2, <2>3 DEF Performing
    <3>3. Placed(b) => Placed(b)'
      BY <2>1 DEF Placed
    <3> QED
      BY <2>1, <3>1, <3>2, <3>3
  <2> QED
    BY <2>5, <2>6 DEF Known
<1>8. CASE Compensate(t)
  <2>1. UNCHANGED <<queue, own, doing, reactorVars>>
        /\ \A s \in Threads : at[s] = "performing" => at'[s] = "performing"
    BY <1>8 DEF Compensate, Shapes, Typed
  <2> QED
    BY <2>1, KnownKept DEF Placed, Performing
<1> QED
  BY <1>1, <1>2, <1>3, <1>4, <1>5, <1>6, <1>7, <1>8 DEF Run, Return

LEMMA KnownCaller ==
  ASSUME Shapes, Linked, Known, NEW t \in Callers, Complete(t) \/ Use(t)
  PROVE  Known'
<1>0. queue \in Seq(Queued) /\ \A s \in Threads : own[s] \in Seq(Items \cup Descriptors)
  BY DEF Shapes, Typed
<1>1. CASE (Signal(t) \/ Stop(t)) /\ UNCHANGED reactorVars
  <2>1. UNCHANGED <<queue, own, doing>>
        /\ \A s \in Threads : at[s] = "performing" => at'[s] = "performing"
    BY <1>1 DEF Signal, Stop, poolVars, Shapes, Typed
  <2> QED
    BY <1>1, <2>1, KnownKept DEF Placed, Performing
<1>2. CASE Push(t) /\ UNCHANGED reactorVars
  <2>1. queue' = queue \o call[t].ops /\ UNCHANGED <<own, at, doing>>
    BY <1>2 DEF Push, threadVars
  <2>2. call[t].ops \in Seq(Queued)
    BY SeqMonotonic DEF Shapes, CallsTyped, Queued
  <2>3. ToSet(queue') = ToSet(queue) \cup ToSet(call[t].ops)
    BY <1>0, <2>1, <2>2, ToSetJoin
  <2>4. \A d \in Descriptors : Placed(d) => Placed(d)'
    BY <2>1, <2>3 DEF Placed, ToSet
  <2> QED
    BY <1>2, <2>1, <2>4, KnownKept DEF Performing
<1>3. CASE InitTask(t) /\ UNCHANGED reactorVars
  <2>1. queue' = Append(queue, Task) /\ UNCHANGED <<own, at, doing>>
    BY <1>3 DEF InitTask, threadVars
  <2>2. ToSet(queue') = ToSet(queue) \cup {Task}
    BY <1>0, <2>1, ToSetAppend DEF Queued
  <2>3. \A d \in Descriptors : Placed(d) => Placed(d)'
    BY <2>1, <2>2 DEF Placed, ToSet
  <2> QED
    BY <1>3, <2>1, <2>3, KnownKept DEF Performing
<1>4. CASE StopByUser(t) /\ UNCHANGED reactorVars
  BY <1>4, KnownKept DEF StopByUser, poolVars, threadVars, Placed, Performing
<1>5. ASSUME NEW w \in Items, NEW continuation \in BOOLEAN, PostImmediate(t, w, continuation),
             UNCHANGED <<queue, at, doing>>, NEW d \in Descriptors
      PROVE  (Placed(d) => Placed(d)') /\ (Performing(d) => Performing(d)')
  <2>1. \A s \in Threads : own'[s] = own[s] \/ own'[s] = Append(own[s], w)
    BY <1>5 DEF PostImmediate, Shapes, Typed
  <2>2. ASSUME NEW s \in Threads PROVE ToSet(own[s]) \subseteq ToSet(own'[s])
    <3>1. ToSet(Append(own[s], w)) = ToSet(own[s]) \cup {w}
      BY <1>0, ToSetAppend
    <3> QED
      BY <2>1, <3>1
  <2>3. Placed(d) => Placed(d)'
    <3>1. CASE d \in ToSet(queue)
      BY <1>5, <3>1 DEF Placed, ToSet
    <3>2. ASSUME NEW s \in Threads, d \in ToSet(own[s]) PROVE d \in ToSet(own'[s])
      BY <2>2, <3>2
    <3> QED
      BY <3>1, <3>2 DEF Placed, ToSet
  <2> QED
    BY <1>5, <2>3 DEF Performing
<1>6. CASE PostHandler(t) /\ UNCHANGED reactorVars
  <2>1. PICK w \in Handlers \ pending, continuation \in BOOLEAN : PostImmediate(t, w, continuation)
    BY <1>6 DEF PostHandler
  <2>2. w \in Items /\ UNCHANGED <<queue, at, doing>>
    BY <1>6 DEF PostHandler, Items
  <2> QED
    BY <1>5, <1>6, <2>1, <2>2, KnownKept
<1>7. ASSUME NEW d \in Descriptors, NEW w \in Operations, NEW continuation \in BOOLEAN,
             StartReady(t, d, w, continuation)
      PROVE  Known'
  <2>1. /\ PostImmediate(t, w, continuation) /\ w \in Items
        /\ UNCHANGED <<queue, at, doing, waiting, edge>>
        /\ data' = IF registered[d] THEN [data EXCEPT ![d] = @ - 1] ELSE data
    BY <1>7 DEF StartReady, Items
  <2>2. \A b \in Descriptors : Wanted(b)' => Wanted(b)
    <3>1. \A b \in Descriptors : data[b] \in Nat
      BY ReactorAssumption DEF Shapes, Typed
    <3>2. \A b \in Descriptors : data'[b] = data[b] \/ data'[b] = data[b] - 1
      BY <2>1 DEF Shapes, Typed
    <3>3. \A b \in Descriptors : data'[b] > 0 => data[b] > 0
      BY <3>1, <3>2
    <3> QED
      BY <2>1, <3>3 DEF Wanted
  <2>3. \A b \in Descriptors : (Placed(b) => Placed(b)') /\ (Performing(b) => Performing(b)')
    BY <1>5, <2>1
  <2> QED
    BY <2>1, <2>2, <2>3 DEF Known
<1>8. ASSUME NEW d \in Descriptors, NEW w \in Operations, NEW speculative \in BOOLEAN,
             StartWaiting(t, d, w, speculative)
      PROVE  Known'
  <2>1. /\ registered[d] /\ UNCHANGED <<queue, own, at, doing, data>>
        /\ edge' = [edge EXCEPT ![d] = edge[d] \/ Speculates(d)]
        /\ \A b \in Descriptors \ {d} : waiting'[b] = waiting[b]
    BY <1>8 DEF StartWaiting, threadVars, Shapes, Typed
  <2>2. \A b \in Descriptors : (Placed(b) => Placed(b)') /\ (Performing(b) => Performing(b)')
    BY <2>1 DEF Placed, Performing
  <2>3. edge'[d] = (edge[d] \/ Speculates(d)) /\ \A b \in Descriptors \ {d} : edge'[b] = edge[b]
    BY <2>1 DEF Shapes, Typed
  <2>4. Wanted(d)' => Wanted(d) \/ edge'[d]
    BY <2>1, <2>3 DEF Wanted, Speculates
  <2>5. \A b \in Descriptors \ {d} : Wanted(b)' => Wanted(b)
    BY <2>1 DEF Wanted
  <2> QED
    BY <2>2, <2>3, <2>4, <2>5 DEF Known
<1>9. ASSUME NEW d \in Descriptors, Register(t, d)
      PROVE  Known'
  BY <1>9 DEF Register, serviceVars, poolVars, threadVars, Known, Wanted, Placed, Performing
<1>10. ASSUME NEW d \in Descriptors, CancelOps(t, d) \/ Deregister(t, d)
       PROVE  Known'
  <2>1. /\ UNCHANGED <<queue, own, at, doing>> /\ waiting'[d] = <<>>
        /\ \A b \in Descriptors \ {d} :
             waiting'[b] = waiting[b] /\ data'[b] = data[b] /\ edge'[b] = edge[b]
    BY <1>10 DEF CancelOps, Deregister, Abort, poolVars, threadVars, Shapes, Typed
  <2>2. \A b \in Descriptors : (Placed(b) => Placed(b)') /\ (Performing(b) => Performing(b)')
    BY <2>1 DEF Placed, Performing
  <2> QED
    BY <2>1, <2>2 DEF Known, Wanted
<1>11. CASE CloseSocket(t)
  BY <1>11 DEF CloseSocket, serviceVars, poolVars, threadVars, Known, Wanted, Placed, Performing
<1> QED
  BY <1>1, <1>2, <1>3, <1>4, <1>6, <1>7, <1>8, <1>9, <1>10, <1>11 DEF Complete, Use, StartOp

LEMMA KnownStep == Shapes /\ Linked /\ Known /\ [Next]_vars => Known'
<1> SUFFICES ASSUME Shapes, Linked, Known, [Next]_vars PROVE Known'
  OBVIOUS
<1>1. CASE Reset /\ UNCHANGED reactorVars
  BY <1>1, KnownKept DEF Reset, threadVars, Placed, Performing
<1>2. ASSUME NEW d \in Descriptors, Arrive(d)
      PROVE  Known'
  <2>1. /\ UNCHANGED <<queue, own, at, doing, waiting>> /\ edge'[d] = TRUE
        /\ \A b \in Descriptors \ {d} : data'[b] = data[b] /\ edge'[b] = edge[b]
    BY <1>2 DEF Arrive, serviceVars, poolVars, threadVars, Shapes, Typed
  <2>2. \A b \in Descriptors : (Placed(b) => Placed(b)') /\ (Performing(b) => Performing(b)')
    BY <2>1 DEF Placed, Performing
  <2> QED
    BY <2>1, <2>2 DEF Known, Wanted
<1>3. CASE UNCHANGED vars
  BY <1>3, KnownKept DEF vars, serviceVars, poolVars, threadVars, Placed, Performing
<1>4. ASSUME NEW t \in Callers, ArriveLate(t)
      PROVE  Known'
  BY <1>4 DEF ArriveLate, serviceVars, poolVars, threadVars, Known, Wanted, Placed, Performing
<1> QED
  BY <1>1, <1>2, <1>3, <1>4, KnownThread, KnownCaller DEF Next
-----------------------------------------------------------------------------

\* The inductive invariant.
Inv == Shapes /\ Apart /\ Linked /\ WorkCounted /\ Interruptible /\ Wakeful /\ Known

LEMMA InvInductive ==
  ASSUME ~Overlapping
  PROVE  /\ Init => Inv
         /\ Inv /\ [Next]_vars => Inv'
<1>1. Init => Interruptible /\ Wakeful /\ Known
  BY DEF Init, ServiceInit, Interruptible, Wakeful, Known, Wanted, Resting
<1>2. Init => Apart
  BY DEF Init, Apart
<1> QED
  BY <1>1, <1>2, ShapesInitially, LinkedInitially, WorkInitially, ShapesStep, ApartStep, LinkedStep,
     WorkStep, WakefulStep, KnownStep DEF Inv

LEMMA InvTyped == Inv => TypeOK
<1> SUFFICES ASSUME Inv PROVE TypeOK
  OBVIOUS
<1>1. work \in Nat
  <2>1. /\ Cardinality(pending) \in Nat /\ Cardinality(Settling) \in Nat
        /\ Cardinality(Uncounted) \in Nat /\ Cardinality(Uncounted) <= Cardinality(pending)
        /\ work \in Int
    BY CountsFinite DEF Inv, Shapes, Typed
  <2> QED
    BY <2>1 DEF Inv, WorkCounted
<1>2. {task, interrupted, awakened, stopped, signalled} \subseteq BOOLEAN
  BY DEF Inv, Shapes, Typed
<1> QED
  BY <1>1, <1>2 DEF TypeOK, Inv, Shapes, Typed, CallsTyped, Queued

\* Unless sockets are opened with the state of one that is being closed, the invariant
\* holds throughout.
LEMMA InvHolds == ~Overlapping => (Spec => []Inv)
<1> SUFFICES ASSUME ~Overlapping PROVE Spec => []Inv
  OBVIOUS
<1>1. Init => Inv
  BY InvInductive
<1>2. Inv /\ [Next]_vars => Inv'
  BY InvInductive
<1> QED
  BY <1>1, <1>2, PTL DEF Spec

\* The variables have their types; in particular the count never drops below zero.
\* Here and below, as long as no socket is opened with the state of one that another
\* thread has not closed yet.
THEOREM TypeCorrect == ~Overlapping => (Spec => []TypeOK)
BY InvHolds, InvTyped, PTL

\* outstanding_work_ is exact at every instant.
THEOREM WorkCountedCorrect == ~Overlapping => (Spec => []WorkCounted)
<1>1. Inv => WorkCounted
  BY DEF Inv
<1> QED
  BY <1>1, InvHolds, PTL

\* No operation is ever linked twice, none that is due is lost, and the task is
\* one and behind the descriptors that it found.  With sockets that are opened and
\* closed at the same time epoll may report one state twice, and the run io_overlap
\* shows that it is then queued twice.
THEOREM QueuedOnceCorrect == ~Overlapping => (Spec => []QueuedOnce)
<1>1. Inv => QueuedOnce
  BY LinkedOnce DEF Inv
<1> QED
  BY <1>1, InvHolds, PTL

LEMMA InvStranded == Inv => NoneStranded
<1> SUFFICES ASSUME Inv PROVE NoneStranded
  OBVIOUS
<1>1. Coming \subseteq OnTheirWay
  BY DEF Coming, Way, OnTheirWay
<1>2. (queue # <<>> /\ ~stopped /\ \E t \in Threads : at[t] \in {"asleep", "woken", "blocking"})
        => OnTheirWay # {} \/ Waking
  BY <1>1 DEF Inv, Wakeful, Resting
<1>3. ASSUME NEW d \in Descriptors, Placed(d)
      PROVE  \E p \in Slots : Held(p) = d
  <2>1. \E k, a, i : Lies(k, a, i, d)
    BY <1>3 DEF Placed, ToSet, Lies
  <2> QED
    BY <2>1, SlotsLie
<1> QED
  BY <1>2, <1>3 DEF NoneStranded, Inv, Known, Wanted, Performing

\* No wake-up is lost, neither of a thread nor of an operation whose data has come.
THEOREM NoneStrandedCorrect == ~Overlapping => (Spec => []NoneStranded)
BY InvHolds, InvStranded, PTL
=============================================================================
