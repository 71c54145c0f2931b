------------------------- MODULE HandlerPoolProofs -------------------------
(***************************************************************************)
(* Proof that scheduler and reactor together implement HandlerPool, for    *)
(* any number of threads, handlers, operations and descriptors.            *)
(***************************************************************************)
EXTENDS AsioIoServiceProofs

\* What the users of the service see of its threads and handlers.
LEMMA DueFacts ==
  ASSUME Shapes, Linked
  PROVE  /\ \A x : x \in DueItems <=>
                     x \in pending /\ \A s \in Threads : at[s] = "user" => doing[s] # x
         /\ \A s \in Threads : at[s] = "user" => doing[s] \in pending
         /\ \A s, u \in Threads : at[s] = "user" /\ at[u] = "user" /\ doing[s] = doing[u] => s = u
         /\ \A s \in Threads : Upcall[s] = Nothing <=> at[s] # "user"
         /\ Threads \subseteq Callers
<1>1. \A s \in Threads : at[s] = "user" => doing[s] \in Items /\ Lies("upcall", s, 1, doing[s])
  BY DEF Shapes, Shape, Lies
<1>2. \A s \in Threads : at[s] = "user" => doing[s] \in pending
  BY <1>1 DEF Linked, Due
<1>3. \A s, u \in Threads : at[s] = "user" /\ at[u] = "user" /\ doing[s] = doing[u] => s = u
  BY <1>1 DEF Linked, Once
<1>4. \A s \in Threads : Upcall[s] = Nothing <=> at[s] # "user"
  BY <1>1, IoServiceAssumption DEF Upcall
<1> QED
  BY <1>2, <1>3, <1>4 DEF DueItems, Callers

\* An item that is linked anywhere but in an upcall is due.
LEMMA LinkedDue ==
  ASSUME Shapes, Linked, NEW x \in Items, NEW k, NEW a, NEW i, k # "upcall", Lies(k, a, i, x)
  PROVE  x \in DueItems
<1>1. x \in pending
  BY DEF Linked, Due
<1>2. ASSUME NEW s \in Threads, at[s] = "user" PROVE doing[s] # x
  <2>1. Lies("upcall", s, 1, doing[s])
    BY <1>2 DEF Lies
  <2> QED
    BY <2>1 DEF Linked, Once
<1> QED
  BY <1>1, <1>2, DueFacts

\* What a step of one thread changes of the view.
LEMMA ThreadView ==
  ASSUME NEW t \in Threads, \A s \in Threads \ {t} : at'[s] = at[s] /\ doing'[s] = doing[s]
  PROVE  /\ Place' = [Place EXCEPT ![t] = Place'[t]]
         /\ Upcall' = [Upcall EXCEPT ![t] = Upcall'[t]]
<1>1. \A s \in Threads \ {t} : Place'[s] = Place[s] /\ Upcall'[s] = Upcall[s]
  BY DEF Place, Upcall
<1>2. /\ Place = [s \in Threads |-> Place[s]] /\ Place' = [s \in Threads |-> Place'[s]]
      /\ Upcall = [s \in Threads |-> Upcall[s]] /\ Upcall' = [s \in Threads |-> Upcall'[s]]
  BY DEF Place, Upcall
<1> QED
  BY <1>1, <1>2

LEMMA CallView ==
  ASSUME NEW c \in Callers, \A b \in Callers \ {c} : call'[b] = call[b]
  PROVE  /\ call'[c].f = "stop" => Stopping' = Stopping \cup {c}
         /\ call'[c].f # "stop" => Stopping' = Stopping \ {c}
         /\ call'[c].f # "stop" /\ call[c].f # "stop" => Stopping' = Stopping
BY DEF Stopping

\* Handlers become due and upcalls end in no other steps than those that say so.
LEMMA SameDue ==
  ASSUME pending' = pending,
         \A s \in Threads : (at'[s] = "user" <=> at[s] = "user") /\ (at[s] = "user" => doing'[s] = doing[s])
  PROVE  DueItems' = DueItems /\ Upcall' = Upcall
<1>1. Upcall' = Upcall
  BY DEF Upcall
<1>2. \A x : x \in DueItems' <=> x \in DueItems
  BY DEF DueItems
<1> QED
  BY <1>1, <1>2

\* A step that moves one thread between places that look the same, and calls of
\* one caller that are no stop, cannot be seen.
LEMMA Hidden ==
  ASSUME pending' = pending, stopped' = stopped,
         \A s \in Threads : /\ Place'[s] = Place[s]
                            /\ at'[s] = "user" <=> at[s] = "user"
                            /\ at[s] = "user" => doing'[s] = doing[s],
         \A c \in Callers : call'[c].f = "stop" <=> call[c].f = "stop"
  PROVE  UNCHANGED Pool!poolState
<1>1. DueItems' = DueItems /\ Upcall' = Upcall
  BY SameDue
<1>2. Place' = Place
  BY DEF Place
<1>3. Stopping' = Stopping
  BY DEF Stopping
<1> QED
  BY <1>1, <1>2, <1>3 DEF Pool!poolState

\* The count of the work is zero, or a handler that ends is about to make it so,
\* only when nothing is due and no upcall under way.
LEMMA NothingLeft ==
  ASSUME Shapes, Linked, WorkCounted,
         \/ work = 0
         \/ \E t \in Settling : credit[t] = 0 /\ work = 1
  PROVE  DueItems = {} /\ \A s \in Threads : at[s] # "user"
<1>1. /\ IsFiniteSet(pending) /\ IsFiniteSet(Settling)
      /\ Cardinality(pending) \in Nat /\ Cardinality(Settling) \in Nat
      /\ Cardinality(Uncounted) \in Nat /\ Cardinality(Uncounted) <= Cardinality(pending)
      /\ Uncounted \subseteq pending /\ Settling \subseteq Threads
  BY CountsFinite DEF Shapes, Uncounted, Settling
<1>2. Cardinality(Settling) = 0 <=> Settling = {}
  BY <1>1, FS_EmptySet
<1>3. Cardinality(Uncounted) = Cardinality(pending)
      /\ \A t \in Settling : credit[t] = 0
  <2>1. CASE work = 0
    BY <1>1, <1>2, <2>1 DEF WorkCounted
  <2>2. CASE work # 0
    <3>1. PICK t \in Settling : credit[t] = 0 /\ work = 1
      BY <2>2
    <3>2. Cardinality(Settling) # 0
      BY <1>2, <3>1
    <3>3. Cardinality(Settling) = 1 /\ Cardinality(Uncounted) = Cardinality(pending)
      BY <1>1, <3>1, <3>2 DEF WorkCounted
    <3>4. \A s \in Settling : s = t
      BY <1>1, <3>1, <3>3, FS_Singleton
    <3> QED
      BY <3>1, <3>3, <3>4
  <2> QED
    BY <2>1, <2>2
<1>4. Uncounted = pending
  BY <1>1, <1>3, FS_Subset
<1>5. \A t \in Settling : own[t] = <<>>
  <2> SUFFICES ASSUME NEW t \in Settling PROVE own[t] = <<>>
    OBVIOUS
  <2>1. t \in Threads /\ credit[t] = Len(own[t]) /\ own[t] \in Seq(Items)
    BY DEF Settling, Shapes, Shape, Crediting
  <2> QED
    BY <1>3, <2>1, EmptySeq
<1>6. \A s \in Threads : at[s] # "user"
  <2> SUFFICES ASSUME NEW s \in Threads, at[s] = "user" PROVE FALSE
    OBVIOUS
  <2>1. doing[s] \in Uncounted /\ Lies("upcall", s, 1, doing[s])
    BY <1>4, DueFacts DEF Lies
  <2>2. PICK u \in Threads : doing[s] \in ToSet(own[u])
    BY <2>1 DEF Uncounted
  <2>3. PICK i \in DOMAIN own[u] : own[u][i] = doing[s]
    BY <2>2 DEF ToSet
  <2>4. Lies("own", u, i, doing[s])
    BY <2>3 DEF Lies
  <2> QED
    BY <2>1, <2>4 DEF Linked, Once
<1>7. pending = {}
  <2> SUFFICES ASSUME NEW w \in pending PROVE FALSE
    OBVIOUS
  <2>1. PICK t \in Threads : w \in ToSet(own[t]) /\ at[t] \in {"user", "returned", "thrown"}
    BY <1>4 DEF Uncounted
  <2>2. own[t] = <<>>
    BY <1>5, <1>6, <2>1 DEF Settling
  <2>3. ToSet(<<>>) = {}
    BY DEF ToSet
  <2> QED
    BY <2>1, <2>2, <2>3
<1> QED
  BY <1>6, <1>7 DEF DueItems
-----------------------------------------------------------------------------
LEMMA SignalOneHidden ==
  ASSUME NEW t \in Callers, Free(t), SignalOne(t) \/ WakeOne(t) \/ UNCHANGED call, Shapes
  PROVE  \A c \in Callers : call'[c].f = "stop" <=> call[c].f = "stop"
<1>1. call' = call \/ Calls(t, "signal", <<>>) \/ call' = [call EXCEPT ![t] = NoCall]
  BY DEF SignalOne, WakeOne
<1>2. call[t].f = "none" /\ DOMAIN call = Callers
  BY DEF Free, NoCall, Shapes, CallsTyped
<1>3. \A c \in Callers \ {t} : call'[c] = call[c]
  BY <1>1, <1>2 DEF Calls
<1>4. call'[t].f # "stop"
  BY <1>1, <1>2 DEF Calls, NoCall
<1> QED
  BY <1>2, <1>3, <1>4

(* Threads that run.                                                       *)

\* Calling run, with work or without.
LEMMA EnterPool ==
  ASSUME Shapes, Linked, WorkCounted, NEW t \in Threads, Enter(t)
  PROVE  Pool!Next
<1>1. /\ UNCHANGED <<stopped, pending, doing>> /\ t \in Callers
      /\ at[t] \in {"outside", "caught"} /\ call[t].f = "none"
      /\ at \in [Threads -> Places] /\ DOMAIN call = Callers
  BY DEF Enter, poolVars, Free, NoCall, Shapes, Typed, CallsTyped, Callers
<1>2. CASE work = 0
  <2>1. at' = at /\ call'[t].f = "stop" /\ \A b \in Callers \ {t} : call'[b] = call[b]
    BY <1>1, <1>2 DEF Enter, Calls
  <2>2. Stopping' = Stopping \cup {t}
    BY <1>1, <2>1, CallView
  <2>3. UNCHANGED <<DueItems, Place, Upcall>>
    BY <1>1, <2>1 DEF DueItems, Place, Upcall
  <2>4. DueItems = {} /\ \A s \in Threads : Upcall[s] = Nothing
    BY <1>2, NothingLeft, DueFacts
  <2>5. Pool!GiveUp(t)
    BY <1>1, <2>2, <2>3, <2>4 DEF Pool!GiveUp
  <2> QED
    BY <2>5 DEF Pool!Next
<1>3. CASE work # 0
  <2>1. at' = [at EXCEPT ![t] = "loop"] /\ call' = call
    BY <1>3 DEF Enter
  <2>2. Place[t] = "outside" /\ Place'[t] = "inside"
    BY <1>1, <2>1 DEF Place
  <2>3. Place' = [Place EXCEPT ![t] = "inside"]
    BY <1>1, <2>1, <2>2, ThreadView
  <2>4. DueItems' = DueItems /\ Upcall' = Upcall
    BY <1>1, <2>1, SameDue
  <2>5. Stopping' = Stopping
    BY <2>1 DEF Stopping
  <2>6. Pool!Enter(t)
    BY <1>1, <2>2, <2>3, <2>4, <2>5 DEF Pool!Enter
  <2> QED
    BY <2>6 DEF Pool!Next
<1> QED
  BY <1>2, <1>3

LEMMA LeavePool ==
  ASSUME Shapes, NEW t \in Threads, Leave(t)
  PROVE  Pool!Next
<1>1. /\ at[t] = "loop" /\ stopped /\ at' = [at EXCEPT ![t] = "outside"]
      /\ UNCHANGED <<stopped, pending, doing, call>> /\ at \in [Threads -> Places]
  BY DEF Leave, AtHead, Shapes, Typed
<1>2. Place[t] = "inside" /\ Place'[t] = "outside"
  BY <1>1 DEF Place
<1>3. Place' = [Place EXCEPT ![t] = "outside"]
  BY <1>1, <1>2, ThreadView
<1>4. DueItems' = DueItems /\ Upcall' = Upcall
  BY <1>1, SameDue
<1>5. Stopping' = Stopping
  BY <1>1 DEF Stopping
<1>6. Pool!Leave(t)
  BY <1>1, <1>2, <1>3, <1>4, <1>5 DEF Pool!Leave
<1> QED
  BY <1>6 DEF Pool!Next

\* Sleeping, waking, polling, and settling what a poll or an upcall left.
LEMMA QuietPool ==
  ASSUME Shapes, NEW t \in Threads,
         \/ Sleep(t) \/ WakeUp(t) \/ WakeSpuriously(t) \/ TakeTask(t) \/ TaskCleanup(t)
         \/ Deliver(t) \/ Poll(t) \/ Compensate(t)
  PROVE  UNCHANGED Pool!poolState
<1>0. t \in Callers /\ at \in [Threads -> Places]
  BY DEF Callers, Shapes, Typed
<1>1. UNCHANGED <<stopped, pending, doing>> /\ \A s \in Threads \ {t} : at'[s] = at[s]
  BY <1>0 DEF Sleep, WakeUp, WakeSpuriously, TakeTask, TaskCleanup, Deliver, Poll, Compensate, poolVars
<1>2. \A c \in Callers : call'[c].f = "stop" <=> call[c].f = "stop"
  <2>1. CASE TakeTask(t)
    <3>1. Free(t) /\ (SignalOne(t) \/ UNCHANGED call)
      BY <2>1 DEF TakeTask, AtHead
    <3> QED
      BY <1>0, <3>1, SignalOneHidden
  <2>2. CASE ~TakeTask(t)
    BY <2>2 DEF Sleep, WakeUp, WakeSpuriously, TaskCleanup, Deliver, Poll, Compensate
  <2> QED
    BY <2>1, <2>2
<1>3. \/ /\ at[t] \in {"loop", "asleep", "woken", "polling", "blocking", "polled", "counted", "compensating"}
         /\ at'[t] \in {"loop", "asleep", "woken", "polling", "blocking", "polled", "returned"}
      \/ at[t] = "unwinding" /\ at'[t] = "caught"
  <2>1. CASE Sleep(t) \/ WakeUp(t) \/ WakeSpuriously(t)
    BY <1>0, <2>1 DEF Sleep, WakeUp, WakeSpuriously, AtHead
  <2>2. CASE TakeTask(t) \/ TaskCleanup(t)
    BY <1>0, <2>2 DEF TakeTask, TaskCleanup, AtHead
  <2>3. CASE Deliver(t)
    BY <1>0, <2>3 DEF Deliver
  <2>4. CASE Poll(t) \/ Compensate(t)
    BY <1>0, <2>4 DEF Poll, Compensate
  <2> QED
    BY <2>1, <2>2, <2>3, <2>4
<1>4. Place'[t] = Place[t] /\ at[t] # "user" /\ at'[t] # "user"
  BY <1>3 DEF Place
<1>5. \A s \in Threads : /\ Place'[s] = Place[s]
                         /\ at'[s] = "user" <=> at[s] = "user"
                         /\ at[s] = "user" => doing'[s] = doing[s]
  BY <1>1, <1>4 DEF Place
<1> QED
  BY <1>1, <1>2, <1>5, Hidden

\* A thread that begins an upcall takes it from what is due.
LEMMA BeginPool ==
  ASSUME Shapes, Linked, NEW t \in Threads, NEW w \in DueItems,
         at[t] = "performing" \/ (at[t] = "loop" /\ ~stopped),
         at' = [at EXCEPT ![t] = "user"], doing' = [doing EXCEPT ![t] = w],
         UNCHANGED <<stopped, pending>>,
         \A c \in Callers : call'[c].f = "stop" <=> call[c].f = "stop"
  PROVE  Pool!Next
<1>1. /\ at \in [Threads -> Places] /\ doing \in [Threads -> Items \cup Descriptors \cup {Nothing}]
      /\ pending \subseteq Items
  BY DEF Shapes, Typed
<1>2. /\ at'[t] = "user" /\ doing'[t] = w
      /\ \A s \in Threads \ {t} : at'[s] = at[s] /\ doing'[s] = doing[s]
  BY <1>1
<1>3. /\ Place[t] = "serving" \/ (Place[t] = "inside" /\ ~stopped)
      /\ Place'[t] = "serving" /\ Upcall'[t] = w /\ Upcall[t] = Nothing
  BY <1>2 DEF Place, Upcall
<1>4. Place' = [Place EXCEPT ![t] = "serving"] /\ Upcall' = [Upcall EXCEPT ![t] = w]
  BY <1>2, <1>3, ThreadView
<1>5. DueItems' = DueItems \ {w}
  <2>1. \A x : x \in DueItems' <=> x \in pending /\ \A s \in Threads : at'[s] = "user" => doing'[s] # x
    BY DEF DueItems
  <2>2. \A x : x \in DueItems' <=> x \in DueItems \ {w}
    BY <1>2, <2>1, DueFacts
  <2> QED
    BY <2>2
<1>6. Stopping' = Stopping
  BY DEF Stopping
<1>7. Pool!Begin(t, w) /\ w \in Items
  BY <1>1, <1>3, <1>4, <1>5, <1>6 DEF Pool!Begin, DueItems
<1> QED
  BY <1>7 DEF Pool!Next

LEMMA TakeOperationPool ==
  ASSUME Shapes, Linked, NEW t \in Threads, TakeOperation(t)
  PROVE  Pool!Next
<1>1. /\ at[t] = "loop" /\ ~stopped /\ Free(t) /\ queue # <<>> /\ Head(queue) # Task
      /\ doing' = [doing EXCEPT ![t] = Head(queue)]
      /\ at' = [at EXCEPT ![t] = IF Head(queue) \in Descriptors THEN "performing" ELSE "user"]
      /\ UNCHANGED <<stopped, pending>>
      /\ at \in [Threads -> Places] /\ DOMAIN doing = Threads /\ t \in Callers
  BY DEF TakeOperation, AtHead, Shapes, Typed, Callers
<1>2. \A c \in Callers : call'[c].f = "stop" <=> call[c].f = "stop"
  <2>1. WakeOne(t) \/ UNCHANGED call
    BY DEF TakeOperation
  <2> QED
    BY <1>1, <2>1, SignalOneHidden
<1>3. Head(queue) \in Items \cup Descriptors /\ Lies("queue", Task, 1, Head(queue))
  <2>1. queue \in Seq(Queued)
    BY DEF Shapes, Typed
  <2> QED
    BY <1>1, <2>1, TailAt DEF Queued, Lies
<1>4. CASE Head(queue) \in Descriptors
  <2>1. at'[t] = "performing" /\ \A s \in Threads \ {t} : at'[s] = at[s] /\ doing'[s] = doing[s]
    BY <1>1, <1>4
  <2>2. Place[t] = "inside" /\ Place'[t] = "serving"
    BY <1>1, <2>1 DEF Place
  <2>3. Place' = [Place EXCEPT ![t] = "serving"]
    BY <2>1, <2>2, ThreadView
  <2>4. DueItems' = DueItems /\ Upcall' = Upcall
    BY <1>1, <2>1, SameDue
  <2>5. Stopping' = Stopping
    BY <1>2 DEF Stopping
  <2>6. Pool!Turn(t)
    BY <1>1, <2>2, <2>3, <2>4, <2>5 DEF Pool!Turn
  <2> QED
    BY <2>6 DEF Pool!Next
<1>5. CASE Head(queue) \notin Descriptors
  <2>1. Head(queue) \in DueItems
    BY <1>3, <1>5, LinkedDue
  <2>2. at' = [at EXCEPT ![t] = "user"]
    BY <1>1, <1>5
  <2> QED
    BY <1>1, <1>2, <2>1, <2>2, BeginPool
<1> QED
  BY <1>4, <1>5

LEMMA PerformIoPool ==
  ASSUME Shapes, Linked, NEW t \in Threads, PerformIo(t)
  PROVE  Pool!Next
<1>1. PICK d \in Descriptors : d = doing[t]
  BY DEF PerformIo, Shapes, Shape
<1>2. /\ at[t] = "performing" /\ Free(t) /\ UNCHANGED <<stopped, pending>>
      /\ at \in [Threads -> Places] /\ DOMAIN doing = Threads /\ t \in Callers
      /\ DOMAIN call = Callers
  BY DEF PerformIo, poolVars, Shapes, Typed, CallsTyped, Callers
<1>3. /\ \A c \in Callers \ {t} : call'[c] = call[c]
      /\ call[t].f # "stop" /\ call'[t].f # "stop"
  BY <1>2 DEF PerformIo, Calls, Free, NoCall
<1>4. CASE Performed(d) = 0
  <2>1. at' = [at EXCEPT ![t] = "compensating"] /\ doing' = [doing EXCEPT ![t] = Nothing]
    BY <1>1, <1>4 DEF PerformIo
  <2>2. at'[t] = "compensating" /\ \A s \in Threads \ {t} : at'[s] = at[s] /\ doing'[s] = doing[s]
    BY <1>2, <2>1
  <2>3. Place[t] = "serving" /\ Place'[t] = "inside" /\ Upcall[t] = Nothing
    BY <1>2, <2>2 DEF Place, Upcall
  <2>4. Place' = [Place EXCEPT ![t] = "inside"]
    BY <2>2, <2>3, ThreadView
  <2>5. DueItems' = DueItems /\ Upcall' = Upcall
    BY <1>2, <2>2, SameDue
  <2>6. Stopping' = Stopping
    BY <1>2, <1>3, CallView
  <2>7. Pool!TurnBack(t)
    BY <1>2, <2>3, <2>4, <2>5, <2>6 DEF Pool!TurnBack
  <2> QED
    BY <2>7 DEF Pool!Next
<1>5. CASE Performed(d) # 0
  <2>1. at' = [at EXCEPT ![t] = "user"] /\ doing' = [doing EXCEPT ![t] = Head(waiting[d])]
    BY <1>1, <1>5 DEF PerformIo
  <2>2. waiting[d] \in Seq(Operations) /\ data[d] \in Nat
    BY ReactorAssumption DEF Shapes, Typed
  <2>3. waiting[d] # <<>>
    <3>1. Len(waiting[d]) \in Nat
      BY <2>2, LenProperties
    <3>2. Len(waiting[d]) # 0
      BY <1>5, <2>2, <3>1 DEF Performed
    <3> QED
      BY <3>2, EmptySeq
  <2>4. Head(waiting[d]) \in Items /\ Lies("waiting", d, 1, Head(waiting[d]))
    BY <2>2, <2>3, TailAt DEF Lies, Items
  <2>5. Head(waiting[d]) \in DueItems
    BY <2>4, LinkedDue
  <2> QED
    BY <1>2, <1>3, <2>1, <2>5, BeginPool
<1> QED
  BY <1>4, <1>5

LEMMA HandlerEndsPool ==
  ASSUME Shapes, Linked, NEW t \in Threads, HandlerEnds(t)
  PROVE  Pool!Next
<1>1. PICK how \in {"returned", "thrown"} : at' = [at EXCEPT ![t] = how]
  BY DEF HandlerEnds
<1>2. /\ at[t] = "user" /\ pending' = pending \ {doing[t]} /\ doing' = [doing EXCEPT ![t] = Nothing]
      /\ UNCHANGED <<stopped, call>> /\ at \in [Threads -> Places] /\ DOMAIN doing = Threads
  BY DEF HandlerEnds, poolVars, Shapes, Typed
<1>3. at'[t] = how /\ \A s \in Threads \ {t} : at'[s] = at[s] /\ doing'[s] = doing[s]
  BY <1>1, <1>2
<1>4. /\ Upcall[t] # Nothing /\ Upcall'[t] = Nothing
      /\ Place'[t] \in {"inside", "outside"}
  BY <1>2, <1>3, DueFacts DEF Upcall, Place
<1>5. Place' = [Place EXCEPT ![t] = Place'[t]] /\ Upcall' = [Upcall EXCEPT ![t] = Nothing]
  BY <1>3, <1>4, ThreadView
<1>6. DueItems' = DueItems
  <2>1. \A x : x \in DueItems' <=> x \in pending' /\ \A s \in Threads : at'[s] = "user" => doing'[s] # x
    BY DEF DueItems
  <2>2. \A x : x \in DueItems' <=> x \in DueItems
    BY <1>2, <1>3, <2>1, DueFacts
  <2> QED
    BY <2>2
<1>7. Stopping' = Stopping
  BY <1>2 DEF Stopping
<1>8. Pool!End(t)
  BY <1>2, <1>4, <1>5, <1>6, <1>7 DEF Pool!End
<1> QED
  BY <1>8 DEF Pool!Next

\* The count drops to zero only when nothing is left.
LEMMA WorkCleanupPool ==
  ASSUME Shapes, Linked, WorkCounted, NEW t \in Threads, WorkCleanup(t)
  PROVE  [Pool!Next]_(Pool!poolState)
<1>1. /\ at[t] \in {"returned", "thrown"} /\ UNCHANGED <<stopped, pending, doing>>
      /\ at' = [at EXCEPT ![t] = AfterCounting(at[t])] /\ call[t].f = "none"
      /\ at \in [Threads -> Places] /\ t \in Callers /\ DOMAIN call = Callers
  BY DEF WorkCleanup, Free, NoCall, Shapes, Typed, CallsTyped, Callers
<1>2. \A s \in Threads : /\ Place'[s] = Place[s]
                         /\ at'[s] = "user" <=> at[s] = "user"
                         /\ at[s] = "user" => doing'[s] = doing[s]
  BY <1>1 DEF Place, AfterCounting
<1>3. CASE credit[t] = 0 /\ work = 1
  <2>1. call'[t].f = "stop" /\ \A b \in Callers \ {t} : call'[b] = call[b]
    BY <1>1, <1>3 DEF WorkCleanup, Calls
  <2>2. Stopping' = Stopping \cup {t}
    BY <1>1, <2>1, CallView
  <2>3. DueItems' = DueItems /\ Upcall' = Upcall
    BY <1>1, <1>2, SameDue
  <2>4. Place' = Place
    BY <1>2 DEF Place
  <2>5. DueItems = {} /\ \A s \in Threads : Upcall[s] = Nothing
    BY <1>1, <1>3, NothingLeft, DueFacts DEF Settling
  <2>6. Pool!GiveUp(t)
    BY <1>1, <2>2, <2>3, <2>4, <2>5 DEF Pool!GiveUp
  <2> QED
    BY <2>6 DEF Pool!Next
<1>4. CASE ~(credit[t] = 0 /\ work = 1)
  BY <1>1, <1>2, <1>4, Hidden DEF WorkCleanup
<1> QED
  BY <1>3, <1>4
-----------------------------------------------------------------------------
(* Callers, inside the pool and outside.                                   *)

\* The locked half of a post or of a start, its signal, and what only the reactor sees.
LEMMA QuietCaller ==
  ASSUME Shapes, NEW t \in Callers,
         \/ Signal(t) \/ Push(t) \/ InitTask(t)
         \/ \E d \in Descriptors : Register(t, d) \/ CancelOps(t, d) \/ Deregister(t, d)
  PROVE  UNCHANGED Pool!poolState
<1>0. at \in [Threads -> Places] /\ DOMAIN call = Callers /\ (Free(t) => call[t].f = "none")
  BY DEF Shapes, Typed, CallsTyped, Free, NoCall
<1>1. /\ UNCHANGED <<stopped, pending, doing>>
      /\ \A s \in Threads : at'[s] = at[s] \/ (at[s] = "asleep" /\ at'[s] = "woken")
  <2>1. CASE Signal(t)
    BY <1>0, <2>1 DEF Signal, poolVars
  <2>2. CASE Push(t) \/ InitTask(t)
    BY <2>2 DEF Push, InitTask, threadVars
  <2>3. ASSUME NEW d \in Descriptors, Register(t, d) \/ CancelOps(t, d) \/ Deregister(t, d)
        PROVE  UNCHANGED <<stopped, pending, doing, at>>
    BY <2>3 DEF Register, CancelOps, Deregister, Abort, serviceVars, poolVars, threadVars
  <2> QED
    BY <2>1, <2>2, <2>3
<1>2. \A c \in Callers : call'[c].f = "stop" <=> call[c].f = "stop"
  <2>1. CASE call' = call
    BY <2>1
  <2>2. CASE /\ call[t].f # "stop"
             /\ \/ call' = [call EXCEPT ![t] = NoCall]
                \/ \E f \in {"none", "signal", "push"} : \E ops : Calls(t, f, ops)
    BY <1>0, <2>2 DEF Calls, NoCall
  <2>3. CASE Signal(t)
    BY <2>2, <2>3 DEF Signal
  <2>4. CASE Push(t) \/ InitTask(t)
    BY <1>0, <2>2, <2>4 DEF Push, InitTask, Using, WakeOne, SignalOne
  <2>5. ASSUME NEW d \in Descriptors, Register(t, d)
        PROVE  call' = call
    BY <2>5 DEF Register, serviceVars
  <2>6. ASSUME NEW d \in Descriptors, CancelOps(t, d) \/ Deregister(t, d)
        PROVE  call[t].f # "stop" /\ (Calls(t, "push", waiting[d]) \/ call' = call)
    BY <1>0, <2>6 DEF CancelOps, Deregister, Abort, Using
  <2> QED
    BY <2>1, <2>2, <2>3, <2>4, <2>5, <2>6
<1>3. \A s \in Threads : /\ Place'[s] = Place[s]
                         /\ at'[s] = "user" <=> at[s] = "user"
                         /\ at[s] = "user" => doing'[s] = doing[s]
  BY <1>1 DEF Place
<1> QED
  BY <1>1, <1>2, <1>3, Hidden

\* The stop itself: every sleeper is woken, but stays inside.
LEMMA StopPool ==
  ASSUME Shapes, NEW t \in Callers, Stop(t)
  PROVE  Pool!Next
<1>1. /\ call[t].f = "stop" /\ stopped' = TRUE /\ UNCHANGED <<pending, doing>>
      /\ call'[t].f = "none" /\ \A c \in Callers \ {t} : call'[c] = call[c]
  BY DEF Stop, Calls, Shapes, CallsTyped
<1>2. \A s \in Threads : at'[s] = at[s] \/ (at[s] = "asleep" /\ at'[s] = "woken")
  BY DEF Stop
<1>3. Place' = Place
  BY <1>2 DEF Place
<1>4. DueItems' = DueItems /\ Upcall' = Upcall
  BY <1>1, <1>2, SameDue
<1>5. Stopping' = Stopping \ {t} /\ t \in Stopping
  BY <1>1, CallView DEF Stopping
<1>6. Pool!Stop(t)
  BY <1>1, <1>3, <1>4, <1>5 DEF Pool!Stop
<1> QED
  BY <1>6 DEF Pool!Next

\* A user calls stop, in an upcall or outside the pool.
LEMMA StopByUserPool ==
  ASSUME Shapes, Linked, NEW t \in Callers, StopByUser(t)
  PROVE  Pool!Next
<1>1. /\ UNCHANGED <<stopped, pending, at, doing>> /\ (t \in Threads => at[t] = "user")
      /\ call'[t].f = "stop" /\ \A c \in Callers \ {t} : call'[c] = call[c]
  BY DEF StopByUser, Using, Calls, poolVars, threadVars, Shapes, CallsTyped
<1>2. UNCHANGED <<DueItems, Place, Upcall>>
  BY <1>1 DEF DueItems, Place, Upcall
<1>3. Stopping' = Stopping \cup {t}
  BY <1>1, CallView
<1>4. t \in Threads => Upcall[t] # Nothing
  BY <1>1, DueFacts
<1>5. Pool!Ask(t)
  BY <1>1, <1>2, <1>3, <1>4 DEF Pool!Ask
<1> QED
  BY <1>5 DEF Pool!Next

\* What becomes pending is due from then on.
LEMMA PostPool ==
  ASSUME Shapes, Linked, NEW w \in Items \ pending, pending' = pending \cup {w},
         UNCHANGED <<at, doing, stopped>>,
         \A c \in Callers : call'[c].f = "stop" <=> call[c].f = "stop"
  PROVE  Pool!Next
<1>1. w \notin DueItems
  BY DEF DueItems
<1>2. \A s \in Threads : at[s] = "user" => doing[s] # w
  BY DueFacts
<1>3. ~Pool!InUpcall(w)
  BY <1>2, IoServiceAssumption DEF Pool!InUpcall, Upcall
<1>4. Place' = Place /\ Upcall' = Upcall /\ Stopping' = Stopping
  BY DEF Place, Upcall, Stopping
<1>5. DueItems' = DueItems \cup {w}
  BY <1>2 DEF DueItems
<1>6. Pool!Post(w)
  BY <1>1, <1>3, <1>4, <1>5 DEF Pool!Post
<1> QED
  BY <1>6 DEF Pool!Next

\* The handlers and operations that users post and start.
LEMMA UsePool ==
  ASSUME Shapes, Linked, NEW t \in Callers, PostHandler(t) \/ StartOp(t)
  PROVE  Pool!Next
<1>0. DOMAIN call = Callers /\ (Free(t) => call[t].f = "none")
  BY DEF Shapes, CallsTyped, Free, NoCall
<1>1. ASSUME NEW w \in Items \ pending, NEW continuation \in BOOLEAN,
             PostImmediate(t, w, continuation), Free(t), UNCHANGED <<at, doing, stopped>>
      PROVE  Pool!Next
  <2>1. Calls(t, "push", <<w>>) \/ call' = call
    BY <1>1 DEF PostImmediate
  <2>2. \A c \in Callers : call'[c].f = "stop" <=> call[c].f = "stop"
    BY <1>0, <1>1, <2>1 DEF Calls
  <2>3. pending' = pending \cup {w}
    BY <1>1 DEF PostImmediate
  <2> QED
    BY <1>1, <2>2, <2>3, PostPool
<1>2. CASE PostHandler(t)
  <2>1. PICK w \in Handlers \ pending, continuation \in BOOLEAN : PostImmediate(t, w, continuation)
    BY <1>2 DEF PostHandler
  <2>2. Free(t) /\ w \in Items \ pending /\ UNCHANGED <<at, doing, stopped>>
    BY <1>2 DEF PostHandler, Using, Items
  <2> QED
    BY <1>1, <2>1, <2>2
<1>3. CASE StartOp(t)
  <2>1. PICK d \in Descriptors, w \in Operations \ pending, speculative \in BOOLEAN,
             continuation \in BOOLEAN :
               StartReady(t, d, w, continuation) \/ StartWaiting(t, d, w, speculative)
    BY <1>3 DEF StartOp
  <2>2. w \in Items \ pending
    BY DEF Items
  <2>3. CASE StartReady(t, d, w, continuation)
    BY <1>1, <2>2, <2>3 DEF StartReady, Using
  <2>4. CASE StartWaiting(t, d, w, speculative)
    BY <2>2, <2>4, PostPool DEF StartWaiting, threadVars
  <2> QED
    BY <2>1, <2>3, <2>4
<1> QED
  BY <1>2, <1>3

LEMMA ResetPool ==
  ASSUME Reset
  PROVE  Pool!Next
<1>1. /\ stopped /\ stopped' = FALSE /\ UNCHANGED <<at, doing, call, pending>>
      /\ \A t \in Threads : at[t] \in {"outside", "caught"}
  BY DEF Reset, threadVars
<1>2. UNCHANGED <<DueItems, Place, Upcall, Stopping>>
  BY <1>1 DEF DueItems, Place, Upcall, Stopping
<1>3. \A t \in Threads : Place[t] = "outside"
  BY <1>1 DEF Place
<1>4. Pool!Reset
  BY <1>1, <1>2, <1>3 DEF Pool!Reset
<1> QED
  BY <1>4 DEF Pool!Next
-----------------------------------------------------------------------------

LEMMA InitPool == Init => Pool!Init
<1> SUFFICES ASSUME Init PROVE Pool!Init
  OBVIOUS
<1>1. DueItems = {} /\ stopped = FALSE
  BY DEF Init, ServiceInit, DueItems
<1>2. Place = [t \in Threads |-> "outside"] /\ Upcall = [t \in Threads |-> Nothing]
  BY DEF Init, ServiceInit, Place, Upcall
<1>3. Stopping = {}
  BY DEF Init, ServiceInit, Stopping, NoCall
<1> QED
  BY <1>1, <1>2, <1>3 DEF Pool!Init

\* Every step of scheduler and reactor is a step of the pool, or cannot be seen.
LEMMA PoolStep == Inv /\ [Next]_vars => [Pool!Next]_(Pool!poolState)
<1> SUFFICES ASSUME Shapes, Linked, WorkCounted, [Next]_vars
             PROVE  [Pool!Next]_(Pool!poolState)
  BY DEF Inv
<1>1. ASSUME NEW t \in Threads, Run(t)
      PROVE  [Pool!Next]_(Pool!poolState)
  BY <1>1, EnterPool, LeavePool, QuietPool, TakeOperationPool, PerformIoPool, WorkCleanupPool DEF Run
<1>2. ASSUME NEW t \in Threads, Return(t)
      PROVE  Pool!Next
  BY <1>2, HandlerEndsPool DEF Return
<1>3. ASSUME NEW t \in Threads, WakeSpuriously(t)
      PROVE  UNCHANGED Pool!poolState
  BY <1>3, QuietPool
<1>4. ASSUME NEW t \in Callers, Complete(t) \/ Use(t), ~CloseSocket(t)
      PROVE  [Pool!Next]_(Pool!poolState)
  BY <1>4, QuietCaller, StopPool, StopByUserPool, UsePool DEF Complete, Use
<1>5. ASSUME \/ UNCHANGED vars
             \/ \E d \in Descriptors : Arrive(d)
             \/ \E t \in Callers : ArriveLate(t) \/ CloseSocket(t)
      PROVE  UNCHANGED Pool!poolState
  <2>1. UNCHANGED <<stopped, pending, at, doing, call>>
    BY <1>5 DEF Arrive, ArriveLate, CloseSocket, vars, serviceVars, poolVars, threadVars
  <2> QED
    BY <2>1 DEF Pool!poolState, DueItems, Place, Upcall, Stopping
<1>6. CASE Reset
  BY <1>6, ResetPool
<1> QED
  BY <1>1, <1>2, <1>3, <1>4, <1>5, <1>6 DEF Next

\* Scheduler and reactor implement the pool of handlers that the users of io_service
\* rely on: one upcall for each handler, no turn after a stop, no giving up with work due.
\* As before, no socket is opened with the state of one that is being closed.
THEOREM PoolCorrect == ~Overlapping => (Spec => ServesAsPool)
BY InvHolds, InitPool, PoolStep, PTL DEF Spec, ServesAsPool, Pool!Spec
=============================================================================
