-------------------------- MODULE ParkingLotServer --------------------------
(***************************************************************************)
(* The servers of netparkingsim, ParkingLotServerMain and its session      *)
(* threads: main accepts connections for ever and starts a ServerSession   *)
(* for each; the session reads a line at a time, logs it, does what it     *)
(* asks to the lot they all share, and answers.  A call of the lot is one  *)
(* step: SynchronizedParkingLot is proved to make it look like one.        *)
(***************************************************************************)
EXTENDS Connections

CONSTANT Capacity  \* the number of spots of each server's lot

\* main complains of a number below 1, and goes on with it.
ASSUME ServerAssumption == Capacity \in Int

VARIABLES up,      \* whether the process of each server is running
          count,   \* the field count of its SynchronizedParkingLot
          session  \* of each connection, the thread that serves it

serverVars == <<up, count, session>>

\* The thread keeps the last line it read and the answer it computed.
ServerInit ==
  /\ up = [s \in Servers |-> TRUE]
  /\ count = [s \in Servers |-> 0]
  /\ session = [k \in Conns |-> [at |-> "none", line |-> Nothing, reply |-> Nothing]]

\* main: accept, and start a session.  The order of the backlog is left open.
Accept(k) ==
  /\ up[Server(k)]
  /\ conn[k].server = "backlog"
  /\ conn' = [conn EXCEPT ![k].server = "open"]
  /\ session' = [session EXCEPT ![k].at = "reading"]
  /\ UNCHANGED <<up, count>>

ReadLine(k) ==
  /\ session[k].at = "reading"
  /\ conn[k].request # Nothing
  /\ conn' = [conn EXCEPT ![k].request = Nothing]
  /\ session' = [session EXCEPT ![k].at = "handling", ![k].line = conn[k].request]
  /\ UNCHANGED <<up, count>>

\* A slip: null is not taken for the end of the stream.
EndOfStreamIgnored(k) ==
  /\ session[k].at = "reading"
  /\ conn[k].request = Nothing
  /\ conn[k].client = "closed"
  /\ UNCHANGED <<conn, up, count, session>>

\* readLine returns null, or throws; either ends the thread.
EndOfStream(k) ==
  /\ session[k].at = "reading"
  /\ conn[k].request = Nothing
  /\ conn[k].client = "closed"
  /\ session' = [session EXCEPT ![k].at = "ended"]
  /\ UNCHANGED <<conn, up, count>>

\* A slip: cars counted out instead of in.
ComputeInverted(k, reply, change) ==
  /\ session' = [session EXCEPT ![k].at = "replying", ![k].reply = reply]
  /\ count' = [count EXCEPT ![Server(k)] = @ - change]

\* The answer to the request and what it does to the lot.
Compute(k, reply, change) ==
  /\ session' = [session EXCEPT ![k].at = "replying", ![k].reply = reply]
  /\ count' = [count EXCEPT ![Server(k)] = @ + change]

\* A slip: a request that fails is told that it has succeeded.
HandleAlwaysOk(k) ==
  /\ session[k].at = "handling"
  /\ LET line == session[k].line  cars == count[Server(k)] IN
       \/ line = "in" /\ Compute(k, "ok", IF cars < Capacity THEN 1 ELSE 0)
       \/ line = "out" /\ Compute(k, "ok", IF cars > 0 THEN -1 ELSE 0)
       \/ line = "free" /\ Compute(k, "number", 0)
       \/ line = "quit" /\ Compute(k, "ok", 0)
       \/ line \notin {"in", "out", "free", "quit"} /\ Compute(k, "unknown", 0)
  /\ UNCHANGED <<conn, up>>

\* The handler of the request, up to its answer.
Handle(k) ==
  /\ session[k].at = "handling"
  /\ LET line == session[k].line  cars == count[Server(k)] IN
       \/ line = "in" /\ cars < Capacity /\ Compute(k, "ok", 1)
       \/ line = "in" /\ cars >= Capacity /\ Compute(k, "fail", 0)
       \/ line = "out" /\ cars > 0 /\ Compute(k, "ok", -1)
       \/ line = "out" /\ cars <= 0 /\ Compute(k, "fail", 0)
       \/ line = "free" /\ Compute(k, "number", 0)
       \/ line = "quit" /\ Compute(k, "ok", 0)
       \/ line \notin {"in", "out", "free", "quit"} /\ Compute(k, "unknown", 0)
  /\ UNCHANGED <<conn, up>>

\* A slip: an answer that is not flushed.
ReplyUnflushed(k) ==
  /\ session[k].at = "replying"
  /\ session' = [session EXCEPT ![k].at = IF session[k].line = "quit" THEN "exiting"
                                                                     ELSE "reading"]
  /\ UNCHANGED <<conn, up, count>>

\* println and flush.  PrintWriter hides the exception if the client is gone.
Reply(k) ==
  /\ session[k].at = "replying"
  /\ SendAnswer(k, session[k].reply)
  /\ session' = [session EXCEPT ![k].at = IF session[k].line = "quit" THEN "exiting"
                                                                     ELSE "reading"]
  /\ UNCHANGED <<up, count>>

\* System.exit: every thread of the process stops wherever it is.
EndProcess(s) ==
  /\ up' = [up EXCEPT ![s] = FALSE]
  /\ CloseServer(s)
  /\ session' = [k \in Conns |-> IF Server(k) = s /\ session[k].at # "none"
                                   THEN [session[k] EXCEPT !.at = "ended"]
                                   ELSE session[k]]
  /\ UNCHANGED count

\* The request was quit.
Exit(k) ==
  /\ session[k].at = "exiting"
  /\ EndProcess(Server(k))

\* accept throws, as it does when sockets that no session has closed have used
\* up the descriptors, and main exits.
AcceptFails(s) ==
  /\ up[s]
  /\ EndProcess(s)

Serve(k) == ReadLine(k) \/ EndOfStream(k) \/ Handle(k) \/ Reply(k) \/ Exit(k)
=============================================================================
