--------------------------- MODULE AsioIoService ---------------------------
(***************************************************************************)
(* Scheduler and reactor together: threads that run, others that post, and *)
(* the network.                                                            *)
(***************************************************************************)
EXTENDS EpollReactor

\* What a thread does on its own account between two upcalls.
Run(t) ==
  \/ /\ \/ Enter(t) \/ Leave(t) \/ Sleep(t) \/ WakeUp(t)
        \/ TakeTask(t) \/ TakeOperation(t) \/ TaskCleanup(t) \/ WorkCleanup(t) \/ Deliver(t)
     /\ UNCHANGED reactorVars
  \/ Poll(t) \/ PerformIo(t) \/ Compensate(t)

\* The rest of a function that a caller is in.
Complete(t) ==
  \/ (Signal(t) \/ Stop(t) \/ Push(t)) /\ UNCHANGED reactorVars
  \/ CloseSocket(t)

\* What code of the user may call.
Use(t) ==
  /\ closing[t] = Nothing
  /\ \/ (PostHandler(t) \/ InitTask(t) \/ StopByUser(t)) /\ UNCHANGED reactorVars
     \/ StartOp(t)
     \/ \E d \in Descriptors : Register(t, d) \/ CancelOps(t, d) \/ Deregister(t, d)

Return(t) == closing[t] = Nothing /\ HandlerEnds(t) /\ UNCHANGED reactorVars

Next ==
  \/ \E t \in Threads : Run(t) \/ Return(t) \/ (WakeSpuriously(t) /\ UNCHANGED reactorVars)
  \/ \E t \in Callers : Complete(t) \/ Use(t)
  \/ \E d \in Descriptors : Arrive(d)
  \/ \E t \in Callers : ArriveLate(t)
  \/ Reset /\ UNCHANGED reactorVars

Spec == Init /\ [][Next]_vars

----------------------------------------------------------------------------

Places == {"outside", "loop", "asleep", "woken", "polling", "blocking", "polled", "performing",
           "user", "returned", "thrown", "counted", "unwinding", "caught", "compensating"}

\* The variables have their types.
TypeOK ==
  /\ queue \in Seq(Items \cup Descriptors \cup {Task})
  /\ {task, interrupted, awakened, stopped, signalled} \subseteq BOOLEAN
  /\ work \in Nat
  /\ mutex \in Threads \cup {Nothing}
  /\ at \in [Threads -> Places]
  /\ doing \in [Threads -> Items \cup Descriptors \cup {Nothing}]
  /\ own \in [Threads -> Seq(Items \cup Descriptors)]
  /\ credit \in [Threads -> Nat]
  /\ call \in [Callers -> [f : {"none", "push", "signal", "stop"}, ops : Seq(Items)]]
  /\ pending \subseteq Items
  /\ registered \in [Descriptors -> BOOLEAN]
  /\ waiting \in [Descriptors -> Seq(Operations)]
  /\ data \in [Descriptors -> 0..MaxData]
  /\ edge \in [Descriptors -> BOOLEAN]
  /\ closing \in [Callers -> Descriptors \cup {Nothing}]
  /\ late \subseteq {c \in Callers : closing[c] # Nothing}

\* Continuations that a thread has posted and not yet added to the count.
Uncounted == {w \in pending : \E t \in Threads :
                w \in ToSet(own[t]) /\ at[t] \in {"user", "returned", "thrown"}}

Settling == {t \in Threads : at[t] \in {"returned", "thrown"}}

\* outstanding_work_ is exact at every instant: the handlers that are due, but for
\* the continuations that a thread still has to add and the operations it still has
\* to take off.  So run does not return for want of work while a handler is due.
WorkCounted == work + Cardinality(Uncounted) = Cardinality(pending) + Cardinality(Settling)

InReactor == {t \in Threads : at[t] \in {"blocking", "polling", "polled"}}

\* Where operations are linked or being worked on: the queues of the scheduler, of the
\* threads, of calls under way and of the descriptors, and the threads themselves.
Slots ==
  {<<"queue", Task, i>> : i \in DOMAIN queue}
  \cup (UNION {{<<"own", t, i>> : i \in DOMAIN own[t]} : t \in Threads})
  \cup (UNION {{<<"call", t, i>> : i \in DOMAIN call[t].ops} : t \in Callers})
  \cup (UNION {{<<"waiting", d, i>> : i \in DOMAIN waiting[d]} : d \in Descriptors})
  \cup {<<"upcall", t, 1>> : t \in {s \in Threads : at[s] = "user"}}
  \cup {<<"reactor", t, 1>> : t \in InReactor}

Held(p) ==
  CASE p[1] = "queue"   -> queue[p[3]]
    [] p[1] = "own"     -> own[p[2]][p[3]]
    [] p[1] = "call"    -> call[p[2]].ops[p[3]]
    [] p[1] = "waiting" -> waiting[p[2]][p[3]]
    [] p[1] = "upcall"  -> doing[p[2]]
    [] p[1] = "reactor" -> Task

\* The task is in one place, and behind every descriptor that it queued, so that when
\* a thread polls none is left from the poll before.
TaskBehind ==
  /\ \A s, t \in InReactor : s = t
  /\ InReactor # {} => Task \notin ToSet(queue)
  /\ task <=> InReactor # {} \/ Task \in ToSet(queue)
  /\ \A i, j \in DOMAIN queue : queue[i] = Task /\ queue[j] \in Descriptors \cup {Task} => j <= i
  /\ \A t \in InReactor : at[t] # "polled" => ToSet(queue) \cap Descriptors = {}

\* The queues are intrusive, and an operation that is linked twice would tear them.  No
\* operation is ever in two places, no handler that is due is lost, and the reactor polls
\* only when the descriptors of the last poll have left the queue, as the comment in
\* epoll_reactor::run says it relies on.
QueuedOnce ==
  /\ \A p, q \in Slots : Held(p) = Held(q) => p = q
  /\ pending = {Held(p) : p \in Slots} \cap Items
  /\ TaskBehind

\* Threads that come by the queue with no need of a wake-up and of no upcall's end.
OnTheirWay == {t \in Threads : at[t] \in {"loop", "polling", "polled", "compensating", "returned",
                                         "counted", "thrown", "unwinding", "caught"}
                              \/ (at[t] = "blocking" /\ (awakened \/ Events # {}))}

\* The event is signalled and a waiter has been woken, or is about to be.
Waking ==
  /\ signalled
  /\ \/ \E t \in Threads : at[t] = "woken"
     \/ (\E t \in Threads : at[t] = "asleep") /\ \E t \in Callers : call[t].f = "signal"

\* No wake-up is lost.  While the queue holds something and a thread sleeps or blocks
\* in epoll, some thread is on its way to the queue.  This takes a thread that left run
\* by an exception for one that calls it again: what its handler posted as a continuation
\* was queued without a wake-up.  An operation whose data has come is known to epoll,
\* or its descriptor is queued or being performed.
NoneStranded ==
  /\ (queue # <<>> /\ ~stopped /\ \E t \in Threads : at[t] \in {"asleep", "woken", "blocking"})
       => OnTheirWay # {} \/ Waking
  /\ \A d \in Descriptors :
       waiting[d] # <<>> /\ data[d] > 0
         => \/ edge[d] \/ \E p \in Slots : Held(p) = d
            \/ \E t \in Threads : at[t] = "performing" /\ doing[t] = d

\* Threads as their users see them: outside run, inside, or bound to serve a descriptor
\* or an upcall.  One that an exception takes out of run is as good as outside.
Place == [t \in Threads |->
            IF at[t] \in {"outside", "thrown", "unwinding", "caught"} THEN "outside"
            ELSE IF at[t] \in {"performing", "user"} THEN "serving" ELSE "inside"]
Upcall == [t \in Threads |-> IF at[t] = "user" THEN doing[t] ELSE Nothing]
DueItems == pending \ {doing[t] : t \in {s \in Threads : at[s] = "user"}}
Stopping == {c \in Callers : call[c].f = "stop"}

\* Scheduler and reactor together are a pool of handlers: everything posted or started
\* gets one upcall at most, from one thread, each thread makes one upcall at a time,
\* none turns to anything more once the service is stopped, and the service stops
\* itself only when nothing is due and nobody is at work.
Pool == INSTANCE HandlerPool WITH due <- DueItems, place <- Place, upcall <- Upcall,
                                  stopping <- Stopping

ServesAsPool == Pool!Spec
=============================================================================
