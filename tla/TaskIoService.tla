--------------------------- MODULE TaskIoService ---------------------------
(***************************************************************************)
(* The scheduler of asio: task_io_service, its posix_event and the         *)
(* io_service's run, post and stop.  Threads that run share a queue of     *)
(* operations; one of them at a time takes the task off it, which is the   *)
(* reactor, and may block in it.  What happens under mutex_ without a      *)
(* break is one step; the signal that follows an unlock is another.        *)
(***************************************************************************)
EXTENDS Naturals, FiniteSets, SequencesExt

CONSTANTS Threads,      \* threads that call run
          Outsiders,    \* threads that post and start operations without running
          Handlers,     \* handlers given to post
          Operations,   \* operations of the reactor, each with its handler
          Descriptors,  \* descriptor states, which are operations too
          Task,         \* task_operation_, the place of the task in the queue
          Uses,         \* what the code of each caller does with the service
          Nothing

Items == Handlers \cup Operations
Callers == Threads \cup Outsiders

ASSUME IoServiceAssumption ==
  /\ Uses \in [Callers -> SUBSET {"init", "post", "stop", "register", "start", "cancel", "close"}]
  /\ IsFiniteSet(Threads) /\ IsFiniteSet(Items) /\ IsFiniteSet(Descriptors)
  /\ Threads \cap Outsiders = {} /\ Handlers \cap Operations = {}
  /\ Items \cap Descriptors = {}
  /\ Task \notin Items \cup Descriptors
  /\ Nothing \notin Items \cup Descriptors \cup Callers

VARIABLES queue,        \* op_queue_
          task,         \* whether task_ is set
          interrupted,  \* task_interrupted_
          awakened,     \* whether epoll has an event of the interrupter to report
          work,         \* outstanding_work_
          stopped,      \* stopped_
          signalled,    \* the lowest bit of the event's state_
          mutex,        \* who holds mutex_ from one step to the next
          at,           \* where in do_run_one each thread is
          doing,        \* the operation it completes
          own,          \* its private_op_queue
          credit,       \* its private_outstanding_work
          call,         \* what each caller has left to do in a function of the scheduler
          pending       \* handlers posted or started whose upcall has not returned

poolVars == <<queue, task, interrupted, awakened, work, stopped, signalled, mutex>>
threadVars == <<at, doing, own, credit>>
serviceVars == <<poolVars, threadVars, call, pending>>

NoCall == [f |-> "none", ops |-> <<>>]

ServiceInit ==
  /\ queue = <<>> /\ task = FALSE /\ interrupted = TRUE
  /\ awakened = TRUE  \* the constructor of the reactor interrupts
  /\ work = 0 /\ stopped = FALSE /\ signalled = FALSE /\ mutex = Nothing
  /\ at = [t \in Threads |-> "outside"]
  /\ doing = [t \in Threads |-> Nothing]
  /\ own = [t \in Threads |-> <<>>]
  /\ credit = [t \in Threads |-> 0]
  /\ call = [t \in Callers |-> NoCall]
  /\ pending = {}

Free(t) == call[t] = NoCall

\* Threads in pthread_cond_wait count as waiters until they have the mutex again.
Waiters == {t \in Threads : at[t] \in {"asleep", "woken"}}

\* Code of the user, in a handler or in a thread that does not run, does this now.
Using(t, use) == Free(t) /\ use \in Uses[t] /\ (t \in Threads => at[t] = "user")

Calls(t, f, ops) == call' = [call EXCEPT ![t] = [f |-> f, ops |-> ops]]

----------------------------------------------------------------------------
(* Waking.                                                                 *)

\* if (!task_interrupted_ && task_) task_->interrupt()
InterruptTask ==
  IF ~interrupted /\ task
  THEN interrupted' = TRUE /\ awakened' = TRUE
  ELSE UNCHANGED <<interrupted, awakened>>

\* unlock_and_signal_one: the signal comes after the unlock, if anyone waits.
SignalOne(t) ==
  /\ signalled' = TRUE
  /\ IF Waiters # {} THEN Calls(t, "signal", <<>>) ELSE call' = [call EXCEPT ![t] = NoCall]

\* A slip: a waiter is taken for granted and the task left in epoll.
WakeWaiterOnly(t) ==
  /\ SignalOne(t)
  /\ UNCHANGED <<interrupted, awakened>>

\* wake_one_thread_and_unlock: a waiter, or else the task.
WakeOne(t) ==
  /\ SignalOne(t)
  /\ IF Waiters # {} THEN UNCHANGED <<interrupted, awakened>> ELSE InterruptTask

\* pthread_cond_signal; it has no effect if the waiters were woken meanwhile.
Signal(t) ==
  /\ call[t].f = "signal"
  /\ \/ \E s \in Threads : at[s] = "asleep" /\ at' = [at EXCEPT ![s] = "woken"]
     \/ (\A s \in Threads : at[s] # "asleep") /\ UNCHANGED at
  /\ Calls(t, "none", <<>>)
  /\ UNCHANGED <<poolVars, doing, own, credit, pending>>

\* stop_all_threads
Stop(t) ==
  /\ call[t].f = "stop" /\ mutex = Nothing
  /\ stopped' = TRUE /\ signalled' = TRUE
  /\ at' = [s \in Threads |-> IF at[s] = "asleep" THEN "woken" ELSE at[s]]
  /\ InterruptTask
  /\ Calls(t, "none", <<>>)
  /\ UNCHANGED <<queue, task, work, mutex, doing, own, credit, pending>>

----------------------------------------------------------------------------
(* Queueing.                                                               *)

\* The locked half of a post and of post_deferred_completions.
Push(t) ==
  /\ call[t].f = "push" /\ mutex = Nothing
  /\ queue' = queue \o call[t].ops
  /\ WakeOne(t)
  /\ UNCHANGED <<task, work, stopped, mutex, threadVars, pending>>

\* post_immediate_completion: a continuation stays with the thread that runs.
PostImmediate(t, w, continuation) ==
  /\ pending' = pending \cup {w}
  /\ IF continuation /\ t \in Threads
     THEN /\ credit' = [credit EXCEPT ![t] = @ + 1]
          /\ own' = [own EXCEPT ![t] = Append(@, w)]
          /\ UNCHANGED <<work, call>>
     ELSE /\ work' = work + 1
          /\ Calls(t, "push", <<w>>)
          /\ UNCHANGED <<credit, own>>

PostHandler(t) ==
  /\ Using(t, "post")
  /\ \E w \in Handlers \ pending, continuation \in BOOLEAN : PostImmediate(t, w, continuation)
  /\ UNCHANGED <<queue, task, interrupted, awakened, stopped, signalled, mutex, at, doing>>

\* init_task, by the first socket that is made.
InitTask(t) ==
  /\ Using(t, "init") /\ mutex = Nothing
  /\ ~task
  /\ task' = TRUE
  /\ queue' = Append(queue, Task)
  /\ WakeOne(t)
  /\ UNCHANGED <<work, stopped, mutex, threadVars, pending>>

StopByUser(t) ==
  /\ Using(t, "stop")
  /\ Calls(t, "stop", <<>>)
  /\ UNCHANGED <<poolVars, threadVars, pending>>

\* reset: not while a run is unfinished.
Reset ==
  /\ stopped /\ mutex = Nothing
  /\ \A t \in Threads : at[t] \in {"outside", "caught"} /\ Free(t)
  /\ stopped' = FALSE
  /\ UNCHANGED <<queue, task, interrupted, awakened, work, signalled, mutex, threadVars, call,
                 pending>>

----------------------------------------------------------------------------
(* run and do_run_one.                                                     *)

\* run: without work it stops the service; the count is read without the mutex.
Enter(t) ==
  /\ at[t] \in {"outside", "caught"} /\ Free(t)
  /\ IF work = 0
     THEN Calls(t, "stop", <<>>) /\ UNCHANGED at
     ELSE at' = [at EXCEPT ![t] = "loop"] /\ UNCHANGED call
  /\ UNCHANGED <<poolVars, doing, own, credit, pending>>

\* At the head of the loop, with the mutex.
AtHead(t) == at[t] = "loop" /\ Free(t) /\ mutex \in {Nothing, t}

Leave(t) ==
  /\ AtHead(t) /\ stopped
  /\ at' = [at EXCEPT ![t] = "outside"]
  /\ mutex' = Nothing
  /\ UNCHANGED <<queue, task, interrupted, awakened, work, stopped, signalled, doing, own, credit,
                 call, pending>>

\* wakeup_event_.clear and wait.
Sleep(t) ==
  /\ AtHead(t) /\ ~stopped /\ queue = <<>>
  /\ signalled' = FALSE
  /\ at' = [at EXCEPT ![t] = "asleep"]
  /\ mutex' = Nothing
  /\ UNCHANGED <<queue, task, interrupted, awakened, work, stopped, doing, own, credit, call,
                 pending>>

\* pthread_cond_wait may return without a signal.
WakeSpuriously(t) ==
  /\ at[t] = "asleep"
  /\ at' = [at EXCEPT ![t] = "woken"]
  /\ UNCHANGED <<poolVars, doing, own, credit, call, pending>>

\* The loop of posix_event::wait.
WakeUp(t) ==
  /\ at[t] = "woken" /\ mutex = Nothing
  /\ IF signalled
     THEN at' = [at EXCEPT ![t] = "loop"] /\ mutex' = t
     ELSE at' = [at EXCEPT ![t] = "asleep"] /\ UNCHANGED mutex
  /\ UNCHANGED <<queue, task, interrupted, awakened, work, stopped, signalled, doing, own, credit,
                 call, pending>>

\* The task is next: the reactor may block only if no handler waits behind it.
TakeTask(t) ==
  /\ AtHead(t) /\ ~stopped
  /\ queue # <<>> /\ Head(queue) = Task
  /\ queue' = Tail(queue)
  /\ interrupted' = (Tail(queue) # <<>>)
  /\ IF Tail(queue) # <<>> THEN SignalOne(t) ELSE UNCHANGED <<signalled, call>>
  /\ at' = [at EXCEPT ![t] = IF Tail(queue) = <<>> THEN "blocking" ELSE "polling"]
  /\ mutex' = Nothing
  /\ UNCHANGED <<task, awakened, work, stopped, doing, own, credit, pending>>

\* An operation is next; one more thread is woken if more are behind it.
TakeOperation(t) ==
  /\ AtHead(t) /\ ~stopped
  /\ queue # <<>> /\ Head(queue) # Task
  /\ queue' = Tail(queue)
  /\ IF Tail(queue) # <<>> THEN WakeOne(t) ELSE UNCHANGED <<signalled, call, interrupted, awakened>>
  /\ doing' = [doing EXCEPT ![t] = Head(queue)]
  /\ at' = [at EXCEPT ![t] = IF Head(queue) \in Descriptors THEN "performing" ELSE "user"]
  /\ mutex' = Nothing
  /\ UNCHANGED <<task, work, stopped, own, credit, pending>>

\* A slip: the task goes back before the operations it found.
TaskFirst(t) ==
  /\ at[t] = "polled" /\ Free(t) /\ mutex = Nothing
  /\ interrupted' = TRUE
  /\ queue' = Append(queue, Task) \o own[t]
  /\ own' = [own EXCEPT ![t] = <<>>]
  /\ at' = [at EXCEPT ![t] = "loop"]
  /\ mutex' = t
  /\ UNCHANGED <<task, awakened, work, stopped, signalled, doing, credit, call, pending>>

\* task_cleanup: what the task found goes to the queue, and the task behind it.
TaskCleanup(t) ==
  /\ at[t] = "polled" /\ Free(t) /\ mutex = Nothing
  /\ interrupted' = TRUE
  /\ queue' = Append(queue \o own[t], Task)
  /\ own' = [own EXCEPT ![t] = <<>>]
  /\ at' = [at EXCEPT ![t] = "loop"]
  /\ mutex' = t
  /\ UNCHANGED <<task, awakened, work, stopped, signalled, doing, credit, call, pending>>

\* The upcall returns, or throws through run.
HandlerEnds(t) ==
  /\ at[t] = "user" /\ Free(t)
  /\ \E how \in {"returned", "thrown"} : at' = [at EXCEPT ![t] = how]
  /\ pending' = pending \ {doing[t]}
  /\ doing' = [doing EXCEPT ![t] = Nothing]
  /\ UNCHANGED <<poolVars, own, credit, call>>

AfterCounting(where) == IF where = "returned" THEN "counted" ELSE "unwinding"

\* A slip: the handler that ended is not set off against those it posted.
CountAll(t) ==
  /\ at[t] \in {"returned", "thrown"} /\ Free(t)
  /\ work' = IF credit[t] = 0 THEN work - 1 ELSE work + credit[t]
  /\ IF credit[t] = 0 /\ work = 1 THEN Calls(t, "stop", <<>>) ELSE UNCHANGED call
  /\ credit' = [credit EXCEPT ![t] = 0]
  /\ at' = [at EXCEPT ![t] = AfterCounting(@)]
  /\ UNCHANGED <<queue, task, interrupted, awakened, stopped, signalled, mutex, doing, own, pending>>

\* work_cleanup, its count: the operation is over, its continuations begin.
WorkCleanup(t) ==
  /\ at[t] \in {"returned", "thrown"} /\ Free(t)
  /\ work' = (work + credit[t]) - 1
  /\ IF credit[t] = 0 /\ work = 1 THEN Calls(t, "stop", <<>>) ELSE UNCHANGED call
  /\ credit' = [credit EXCEPT ![t] = 0]
  /\ at' = [at EXCEPT ![t] = AfterCounting(@)]
  /\ UNCHANGED <<queue, task, interrupted, awakened, stopped, signalled, mutex, doing, own, pending>>

\* Its queue: no one is woken, as the thread that returns runs on with the mutex.
Deliver(t) ==
  /\ at[t] \in {"counted", "unwinding"} /\ Free(t)
  /\ own[t] # <<>> => mutex = Nothing
  /\ queue' = queue \o own[t]
  /\ own' = [own EXCEPT ![t] = <<>>]
  /\ mutex' = IF own[t] # <<>> /\ at[t] = "counted" THEN t ELSE mutex
  /\ at' = [at EXCEPT ![t] = IF @ = "counted" THEN "loop" ELSE "caught"]
  /\ UNCHANGED <<task, interrupted, awakened, work, stopped, signalled, doing, credit, call, pending>>
=============================================================================
