---------------------------- MODULE EpollReactor ----------------------------
(***************************************************************************)
(* The reactor of asio on Linux, epoll_reactor, under the scheduler.  The  *)
(* descriptors are registered edge-triggered: epoll reports one that has   *)
(* data once, and again when data arrives or its registration is renewed.  *)
(* The operations of a descriptor are of one type, which reads or accepts. *)
(***************************************************************************)
EXTENDS TaskIoService

CONSTANTS MaxData,     \* how much unread data or connections the network lets pile up
          Overlapping  \* whether the program opens sockets in one thread while another closes one

ASSUME ReactorAssumption ==
  /\ MaxData \in Nat \ {0}
  /\ Overlapping \in BOOLEAN
  /\ IsFiniteSet(Outsiders)

VARIABLES registered,  \* whether the descriptor state is in use
          waiting,     \* its op_queue_[read_op]
          data,        \* what there is to read or to accept
          edge,        \* whether epoll has an event of it to report
          closing,     \* the state of the socket that a caller closes, freed before the socket is
          late         \* callers whose half-closed socket epoll has an event of to report

reactorVars == <<registered, waiting, data, edge, closing, late>>
vars == <<serviceVars, reactorVars>>

Init ==
  /\ ServiceInit
  /\ registered = [d \in Descriptors |-> FALSE]
  /\ waiting = [d \in Descriptors |-> <<>>]
  /\ data = [d \in Descriptors |-> 0]
  /\ edge = [d \in Descriptors |-> FALSE]
  /\ closing = [c \in Callers |-> Nothing]
  /\ late = {}

\* register_descriptor, which may reuse the state of a descriptor that was closed, or
\* that another thread has freed and is about to close.  If epoll_ctl fails its caller
\* gives the socket up, and the state is neither used nor freed: nothing changes here.
Register(t, d) ==
  /\ Using(t, "register") /\ task /\ ~registered[d]
  /\ Overlapping \/ \A c \in Callers : closing[c] # d
  /\ registered' = [registered EXCEPT ![d] = TRUE]
  /\ UNCHANGED <<serviceVars, waiting, data, edge, closing, late>>

\* start_op on a descriptor that is closed, or that can be served at once.
StartReady(t, d, w, continuation) ==
  /\ Using(t, "start")
  /\ data' = IF registered[d] THEN [data EXCEPT ![d] = @ - 1] ELSE data
  /\ PostImmediate(t, w, continuation)
  /\ UNCHANGED <<queue, task, interrupted, awakened, stopped, signalled, mutex, at, doing,
                 registered, waiting, edge, closing, late>>

Speculates(d) == registered[d] /\ waiting[d] = <<>> /\ data[d] > 0

\* start_op that has to wait.  The first to wait has tried to perform, or else
\* renews the registration, and epoll reports what is there already.
StartWaiting(t, d, w, speculative) ==
  /\ Using(t, "start") /\ registered[d]
  /\ ~(speculative /\ Speculates(d))
  /\ edge' = [edge EXCEPT ![d] = @ \/ Speculates(d)]
  /\ waiting' = [waiting EXCEPT ![d] = Append(@, w)]
  /\ work' = work + 1
  /\ pending' = pending \cup {w}
  /\ UNCHANGED <<queue, task, interrupted, awakened, stopped, signalled, mutex, threadVars, call,
                 registered, data, closing, late>>

\* async_accept asks for no speculation and calls itself a continuation; a read
\* speculates, and is a continuation as its handler says.
StartOp(t) ==
  /\ task
  /\ \E d \in Descriptors, w \in Operations \ pending, speculative, continuation \in BOOLEAN :
       \/ /\ ~registered[d] \/ (speculative /\ Speculates(d))
          /\ StartReady(t, d, w, continuation)
       \/ StartWaiting(t, d, w, speculative)

\* cancel_ops and deregister_descriptor: what waits is aborted.
Abort(t, d) ==
  /\ waiting' = [waiting EXCEPT ![d] = <<>>]
  /\ IF waiting[d] # <<>> THEN Calls(t, "push", waiting[d]) ELSE UNCHANGED call
  /\ UNCHANGED <<poolVars, threadVars, pending>>

CancelOps(t, d) ==
  /\ Using(t, "cancel") /\ registered[d] /\ waiting[d] # <<>>
  /\ Abort(t, d)
  /\ UNCHANGED <<registered, data, edge, closing, late>>

\* deregister_descriptor, by which close and destroy begin: the state is free again.
\* A socket that accept made, a possible_dup, leaves the epoll set here; one that open
\* made is still open, and epoll still watches it on behalf of that state.
Deregister(t, d) ==
  /\ Using(t, "close") /\ registered[d]
  /\ Abort(t, d)
  /\ registered' = [registered EXCEPT ![d] = FALSE]
  /\ data' = [data EXCEPT ![d] = 0]
  /\ edge' = [edge EXCEPT ![d] = FALSE]
  /\ \/ UNCHANGED <<closing, late>>
     \/ /\ closing' = [closing EXCEPT ![t] = d]
        /\ late' = IF edge[d] /\ data[d] > 0 THEN late \cup {t} ELSE late

\* socket_ops::close, by which they end: epoll forgets the socket.
CloseSocket(t) ==
  /\ closing[t] # Nothing /\ Free(t)
  /\ closing' = [closing EXCEPT ![t] = Nothing]
  /\ late' = late \ {t}
  /\ UNCHANGED <<serviceVars, registered, waiting, data, edge>>

\* Data or a connection arrives between the two.
ArriveLate(t) ==
  /\ closing[t] # Nothing /\ t \notin late
  /\ late' = late \cup {t}
  /\ UNCHANGED <<serviceVars, registered, waiting, data, edge, closing>>

\* Data or a connection arrives.
Arrive(d) ==
  /\ registered[d] /\ data[d] < MaxData
  /\ data' = [data EXCEPT ![d] = @ + 1]
  /\ edge' = [edge EXCEPT ![d] = TRUE]
  /\ UNCHANGED <<serviceVars, registered, waiting, closing, late>>

Ready(d) == edge[d] /\ data[d] > 0

\* What epoll_wait reports: the state of each socket with an event, and which socket
\* it is, as one that is being closed and a new one may share the state.
Events == {<<d, Nothing>> : d \in {e \in Descriptors : Ready(e)}} \cup {<<closing[c], c>> : c \in late}

States(events) == [i \in DOMAIN events |-> events[i][1]]

\* epoll_reactor::run: epoll_wait, and the states of sockets with events are queued.
Poll(t) ==
  /\ at[t] \in {"polling", "blocking"} /\ Free(t)
  /\ at[t] = "blocking" => awakened \/ Events # {}
  /\ \E events \in SetToSeqs(Events) : own' = [own EXCEPT ![t] = @ \o States(events)]
  /\ edge' = [d \in Descriptors |-> edge[d] /\ ~Ready(d)]
  /\ late' = {}
  /\ awakened' = FALSE
  /\ at' = [at EXCEPT ![t] = "polled"]
  /\ UNCHANGED <<queue, task, interrupted, work, stopped, signalled, mutex, doing, credit, call,
                 pending, registered, waiting, data, closing>>

\* How many of the waiting operations perform_io can perform.
Performed(d) == IF Len(waiting[d]) < data[d] THEN Len(waiting[d]) ELSE data[d]

\* perform_io: the first operation performed is completed now, the others are queued.
PerformIo(t) ==
  LET d == doing[t] IN
  /\ at[t] = "performing" /\ Free(t)
  /\ waiting' = [waiting EXCEPT ![d] = SubSeq(@, Performed(d) + 1, Len(@))]
  /\ data' = [data EXCEPT ![d] = @ - Performed(d)]
  /\ IF Performed(d) = 0
     THEN /\ doing' = [doing EXCEPT ![t] = Nothing]
          /\ at' = [at EXCEPT ![t] = "compensating"]
     ELSE /\ doing' = [doing EXCEPT ![t] = Head(waiting[d])]
          /\ at' = [at EXCEPT ![t] = "user"]
  /\ IF Performed(d) > 1
     THEN Calls(t, "push", SubSeq(waiting[d], 2, Performed(d)))
     ELSE UNCHANGED call
  /\ UNCHANGED <<poolVars, own, credit, pending, registered, edge, closing, late>>

\* A slip: the scheduler's work_finished is not made up for.
CompensateNot(t) ==
  /\ at[t] = "compensating"
  /\ at' = [at EXCEPT ![t] = "returned"]
  /\ UNCHANGED <<poolVars, doing, own, credit, call, pending, reactorVars>>

\* ~perform_io_cleanup_on_block_exit when nothing was performed.
Compensate(t) ==
  /\ at[t] = "compensating"
  /\ work' = work + 1
  /\ at' = [at EXCEPT ![t] = "returned"]
  /\ UNCHANGED <<queue, task, interrupted, awakened, stopped, signalled, mutex, doing, own, credit,
                 call, pending, reactorVars>>
=============================================================================
