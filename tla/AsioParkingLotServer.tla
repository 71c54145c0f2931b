------------------------ MODULE AsioParkingLotServer ------------------------
(***************************************************************************)
(* The C++ server of netparkingsim: a single thread runs the handlers of   *)
(* the io_service, one after the other.  A session reads one line, answers *)
(* it and is destroyed.  An exception in a handler leaves io_service::run  *)
(* and ends the process.  The calls of the atomic lot are single steps, as *)
(* AtomicParkingLot has them when only one thread calls.                   *)
(***************************************************************************)
EXTENDS BreakableConnections

CONSTANTS Capacity,   \* the number of spots of each server's lot
          MaxSockets  \* how many connections each server has descriptors for

\* main refuses to start with fewer spots.
ASSUME AsioServerAssumption ==
  /\ Capacity \in Nat \ {0}
  /\ MaxSockets \in [Servers -> Nat \ {0}]
  /\ Nothing \notin Conns

VARIABLES up,       \* whether the process of each server is running
          count,    \* the field count of its atomic_parking_lot
          serving,  \* the session whose handler has something left to send
          session   \* of each connection, how far its session is

serverVars == <<up, count, serving, session>>

ServerInit ==
  /\ up = [s \in Servers |-> TRUE]
  /\ count = [s \in Servers |-> 0]
  /\ serving = [s \in Servers |-> Nothing]
  /\ session = [k \in Conns |-> [at |-> "none", line |-> Nothing, reply |-> Nothing]]

\* The thread of server s is in epoll or picks the next handler.
Idles(s) == up[s] /\ serving[s] = Nothing

\* The process ends, by exit or by an exception that main catches and reports.
EndProcess(s) ==
  /\ up' = [up EXCEPT ![s] = FALSE]
  /\ serving' = [serving EXCEPT ![s] = Nothing]
  /\ CloseServer(s)

Held(s) == {k \in Conns : Server(k) = s /\ conn[k].server = "open"}

\* The handler of async_accept starts a session and accepts again.  Without a
\* descriptor it is told of an error and accepts again, which changes nothing:
\* the connection stays in the backlog, and other handlers have their turn.
Accept(k) ==
  /\ Idles(Server(k))
  /\ conn[k].server = "backlog"
  /\ Cardinality(Held(Server(k))) < MaxSockets[Server(k)]
  /\ conn' = [conn EXCEPT ![k].server = "open"]
  /\ session' = [session EXCEPT ![k].at = "reading"]
  /\ UNCHANGED <<up, count, serving>>

\* A slip: the handler keeps the session when the read fails.
ReadFailsKept(k) ==
  /\ Idles(Server(k))
  /\ session[k].at = "reading"
  /\ conn[k].request = Nothing
  /\ conn[k].client = "closed" \/ k \in broken
  /\ UNCHANGED <<conn, up, count, serving, session>>

\* A slip: the handler answers even so, and the send throws.
ReadFailsThrows(k) ==
  /\ Idles(Server(k))
  /\ session[k].at = "reading"
  /\ conn[k].request = Nothing
  /\ conn[k].client = "closed" \/ k \in broken
  /\ EndProcess(Server(k))
  /\ UNCHANGED <<count, session>>

\* The handler of async_read_until gets an error: the last reference to the
\* session goes, and its socket is closed.
ReadFails(k) ==
  /\ Idles(Server(k))
  /\ session[k].at = "reading"
  /\ conn[k].request = Nothing
  /\ conn[k].client = "closed" \/ k \in broken
  /\ session' = [session EXCEPT ![k].at = "ended"]
  /\ conn' = [conn EXCEPT ![k].server = "closed"]
  /\ UNCHANGED <<up, count, serving>>

\* A slip: a handler that logs after it has parked.
LogThrowsLate(k) ==
  /\ Idles(Server(k))
  /\ session[k].at = "reading"
  /\ conn[k].request # Nothing
  /\ k \in broken
  /\ EndProcess(Server(k))
  /\ count' = [count EXCEPT ![Server(k)] = IF conn[k].request = "in" /\ @ < Capacity
                                             THEN @ + 1 ELSE @]
  /\ UNCHANGED session

\* log_req throws in remote_endpoint(), before the request has any effect.
LogThrows(k) ==
  /\ Idles(Server(k))
  /\ session[k].at = "reading"
  /\ conn[k].request # Nothing
  /\ k \in broken
  /\ EndProcess(Server(k))
  /\ UNCHANGED <<count, session>>

\* The handler has its answer, and has done to the lot what it says.
Compute(k, reply, change) ==
  /\ session' = [session EXCEPT ![k] = [at |-> "served", line |-> conn[k].request,
                                        reply |-> reply]]
  /\ count' = [count EXCEPT ![Server(k)] = @ + change]

\* A slip: the operators of the two comparisons are swapped.
HandleConfused(k) ==
  /\ Idles(Server(k))
  /\ session[k].at = "reading"
  /\ LET cars == count[Server(k)] IN
       \/ conn[k].request = "in" /\ cars <= Capacity /\ Compute(k, "ok", 1)
       \/ conn[k].request = "in" /\ cars > Capacity /\ Compute(k, "fail", 0)
       \/ conn[k].request = "out" /\ cars > 0 /\ Compute(k, "ok", -1)
       \/ conn[k].request = "out" /\ cars <= 0 /\ Compute(k, "fail", 0)
       \/ conn[k].request = "free" /\ Compute(k, "number", 0)
       \/ conn[k].request = "quit" /\ Compute(k, "ok", 0)
  /\ conn' = [conn EXCEPT ![k].request = Nothing]
  /\ serving' = [serving EXCEPT ![Server(k)] = k]
  /\ UNCHANGED up

\* The handler of async_read_until, up to the send.
Handle(k) ==
  /\ Idles(Server(k))
  /\ session[k].at = "reading"
  /\ LET cars == count[Server(k)] IN
       \/ conn[k].request = "in" /\ cars < Capacity /\ Compute(k, "ok", 1)
       \/ conn[k].request = "in" /\ cars >= Capacity /\ Compute(k, "fail", 0)
       \/ conn[k].request = "out" /\ cars > 0 /\ Compute(k, "ok", -1)
       \/ conn[k].request = "out" /\ cars <= 0 /\ Compute(k, "fail", 0)
       \/ conn[k].request = "free" /\ Compute(k, "number", 0)
       \/ conn[k].request = "quit" /\ Compute(k, "ok", 0)
  /\ conn' = [conn EXCEPT ![k].request = Nothing]
  /\ serving' = [serving EXCEPT ![Server(k)] = k]
  /\ UNCHANGED up

\* A slip: after quit the server goes on.
SendAndGoOn(k) ==
  /\ serving[Server(k)] = k
  /\ session[k].at = "served"
  /\ conn' = [conn EXCEPT ![k].answer = IF conn[k].client = "open" THEN session[k].reply ELSE @,
                          ![k].server = "closed"]
  /\ session' = [session EXCEPT ![k].at = "ended"]
  /\ serving' = [serving EXCEPT ![Server(k)] = Nothing]
  /\ UNCHANGED <<up, count>>

\* A slip: the session reads on, with its answer in the buffer.
SendBuffered(k) ==
  /\ serving[Server(k)] = k
  /\ session[k].at = "served"
  /\ session' = [session EXCEPT ![k].at = "reading"]
  /\ serving' = [serving EXCEPT ![Server(k)] = Nothing]
  /\ UNCHANGED <<conn, up, count>>

\* socket.send, and the end of the handler: the session goes and closes its
\* socket.  After a quit the handler does not end.
Send(k) ==
  /\ serving[Server(k)] = k
  /\ session[k].at = "served"
  /\ LET quits == session[k].line = "quit"
         sent  == conn[k].client = "open" /\ k \notin broken
     IN  /\ conn' = [conn EXCEPT ![k].answer = IF sent THEN session[k].reply ELSE @,
                                 ![k].server = IF quits THEN @ ELSE "closed"]
         /\ session' = [session EXCEPT ![k].at = IF quits THEN "exiting" ELSE "ended"]
         /\ serving' = [serving EXCEPT ![Server(k)] = IF quits THEN @ ELSE Nothing]
  /\ UNCHANGED <<up, count>>

\* send throws, when the request has had its effect.
SendThrows(k) ==
  /\ serving[Server(k)] = k
  /\ session[k].at = "served"
  /\ k \in broken
  /\ EndProcess(Server(k))
  /\ UNCHANGED <<count, session>>

\* std::exit
Exit(k) ==
  /\ serving[Server(k)] = k
  /\ session[k].at = "exiting"
  /\ EndProcess(Server(k))
  /\ UNCHANGED <<count, session>>

Serve(k) ==
  \/ Accept(k) \/ ReadFails(k) \/ LogThrows(k) \/ Handle(k)
  \/ Send(k) \/ SendThrows(k) \/ Exit(k)
=============================================================================
