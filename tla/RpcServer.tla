----------------------------- MODULE RpcServer -----------------------------
(***************************************************************************)
(* The server of rpcparkingsim.  main accepts a connection, exchanges the  *)
(* stream headers with its client and starts a Session thread, which reads *)
(* a method and its arguments, invokes the method on the one               *)
(* ParkingLotService and writes what it returns.  Reflection reaches every *)
(* public method, those of java.lang.Object included.                      *)
(***************************************************************************)
EXTENDS ObjectStreams, JavaInts

CONSTANT Capacity  \* the number of spots

\* Users may type any int.
ASSUME RpcServerAssumption ==
  /\ Capacity \in 0..MaxInt
  /\ {"accepting", "dead"} \cap Clients = {}
  /\ Amounts \subseteq JavaInt

VARIABLES running,    \* whether the process of the server runs
          listening,  \* whether its listening socket is open
          main,       \* "accepting", the client accepted last, or "dead"
          count,      \* the field of the SynchronizedParkingLot
          session     \* of each client, its Session thread

serverVars == <<running, listening, main, count, session>>

\* What invoke returns: the text of a granted request, a refusal, a number of
\* vacant spots, another text, or an object that is no String.
Reply == [type : {"String", "Object"}, value : JavaInt]
NoReply == [type |-> "none", value |-> 0]

NoSession == [at |-> "none", method |-> "none", args |-> <<>>, reply |-> NoReply]

ServerInit ==
  /\ running = TRUE
  /\ listening = TRUE
  /\ main = "accepting"
  /\ count = 0
  /\ session = [c \in Clients |-> NoSession]

Live(c) == session[c].at \notin {"none", "ended"}

Accept(c) ==
  /\ running
  /\ main = "accepting"
  /\ link[c].server = "backlog"
  /\ link' = [link EXCEPT ![c].server = "open"]
  /\ main' = c
  /\ UNCHANGED <<running, listening, count, session>>

\* A slip: the header stays in a buffer until the first answer.
GreetUnflushed(c) ==
  /\ running
  /\ main = c
  /\ link[c].up # <<>>
  /\ ReadUp(c)
  /\ session' = [session EXCEPT ![c].at = "reading"]
  /\ main' = "accepting"
  /\ UNCHANGED <<running, listening, count>>

\* main has read the client's header: it sends its own and starts a session.
Greet(c) ==
  /\ running
  /\ main = c
  /\ link[c].up # <<>>
  /\ link' = [link EXCEPT ![c].up = Tail(@),
                          ![c].down = IF link[c].client = "open"
                                        THEN Append(@, "header") ELSE @]
  /\ session' = [session EXCEPT ![c].at = "reading"]
  /\ main' = "accepting"
  /\ UNCHANGED <<running, listening, count>>

\* A slip: the read of the header is tried again and again.
GreetRetries(c) ==
  /\ running
  /\ main = c
  /\ AtEndUp(c)
  /\ UNCHANGED <<link, running, listening, main, count, session>>

\* A slip: the read of the header gives up on a client that is slow.
GreetTimesOut(c) ==
  /\ running
  /\ main = c
  /\ link[c].up = <<>>
  /\ main' = "dead"
  /\ UNCHANGED <<link, running, listening, count, session>>

\* The client has gone.  Without a header of its own the constructor of
\* ObjectInputStream throws; with one, that of ObjectOutputStream may throw when
\* it writes, as WriteReply.  Nobody accepts connections any more.
GreetFails(c) ==
  /\ running
  /\ main = c
  /\ link[c].client = "closed"
  /\ main' = "dead"
  /\ UNCHANGED <<link, running, listening, count, session>>

\* Nothing refers to the listening socket when main is dead: collecting it
\* closes it, and what waits in its backlog with it.
CollectListener ==
  /\ running /\ listening
  /\ main = "dead"
  /\ listening' = FALSE
  /\ CloseServer({c \in Clients : link[c].server = "backlog"})
  /\ UNCHANGED <<running, main, count, session>>

\* The end of the process stops all threads, wherever they are.
Stop ==
  /\ running' = FALSE
  /\ listening' = FALSE
  /\ CloseServer(Clients)
  /\ session' = [c \in Clients |-> IF Live(c) THEN [session[c] EXCEPT !.at = "ended"]
                                              ELSE session[c]]
  /\ UNCHANGED <<main, count>>

\* accept throws: System.exit(1).
AcceptFails ==
  /\ running
  /\ main = "accepting"
  /\ Stop

\* The process lasts until main and the last session have ended.
LastThreadEnds ==
  /\ running
  /\ main = "dead"
  /\ \A c \in Clients : ~Live(c)
  /\ Stop

ReadMethod(c) ==
  /\ session[c].at = "reading"
  /\ link[c].up # <<>>
  /\ session' = [session EXCEPT ![c] = [at |-> "args", method |-> Head(link[c].up),
                                        args |-> <<>>, reply |-> NoReply]]
  /\ ReadUp(c)
  /\ UNCHANGED <<running, listening, main, count>>

ReadArgs(c) ==
  /\ session[c].at = "args"
  /\ link[c].up # <<>>
  /\ session' = [session EXCEPT ![c].at = "invoking", ![c].args = Head(link[c].up)]
  /\ ReadUp(c)
  /\ UNCHANGED <<running, listening, main, count>>

\* serveOnce returns false; run closes the streams, and so the socket.
EndSession(c) ==
  /\ session' = [session EXCEPT ![c].at = "ended"]
  /\ CloseServer({c})
  /\ UNCHANGED <<running, listening, main, count>>

\* A slip: a session that waits for the arguments waits for ever.
EndOfStreamIgnored(c) ==
  /\ session[c].at = "reading"
  /\ AtEndUp(c)
  /\ EndSession(c)

\* The client has gone, at whatever point of a request.
EndOfStream(c) ==
  /\ session[c].at \in {"reading", "args"}
  /\ AtEndUp(c)
  /\ EndSession(c)

\* The invoked method returns.
Return(c, type, value, cars) ==
  /\ session' = [session EXCEPT ![c].at = "replying",
                                ![c].reply = [type |-> type, value |-> value]]
  /\ count' = cars
  /\ UNCHANGED <<link, running, listening, main>>

\* A slip: the test of park() kept for park(n).
CallLotUnitTest(c) ==
  /\ session[c].at = "invoking"
  /\ LET n == session[c].args[1] IN
       \/ session[c].method = "in" /\ count < Capacity /\ Return(c, "String", 1, count + n)
       \/ session[c].method = "in" /\ count >= Capacity /\ Return(c, "String", 0, count)
       \/ session[c].method = "out" /\ count >= n /\ Return(c, "String", 1, count - n)
       \/ session[c].method = "out" /\ count < n /\ Return(c, "String", 0, count)

\* ParkingLotService.in and out, park(int) and unpark(int) of the lot in one step.
CallLot(c) ==
  /\ session[c].at = "invoking"
  /\ LET n == session[c].args[1]
         more == Wrap(count + n)
         less == Wrap(count - n)
     IN \/ session[c].method = "in" /\ more <= Capacity /\ Return(c, "String", 1, more)
        \/ session[c].method = "in" /\ more > Capacity /\ Return(c, "String", 0, count)
        \/ session[c].method = "out" /\ less >= 0 /\ Return(c, "String", 1, less)
        \/ session[c].method = "out" /\ less < 0 /\ Return(c, "String", 0, count)

\* free(), hello() or toString(), and hashCode() or getClass().
CallOther(c) ==
  /\ session[c].at = "invoking"
  /\ \/ session[c].method = "free" /\ Return(c, "String", Wrap(Capacity - count), count)
     \/ session[c].method = "hello" /\ Return(c, "String", 0, count)
     \/ session[c].method = "hashCode" /\ Return(c, "Object", 0, count)

\* notify() or wait(): the session does not own the monitor of the service.
CallThrows(c) ==
  /\ session[c].at = "invoking"
  /\ session[c].method = "notify"
  /\ EndSession(c)

\* A slip: exit() is left to the session that serves it.
CallExitEndsSession(c) ==
  /\ session[c].at = "invoking"
  /\ session[c].method = "exit"
  /\ EndSession(c)

\* System.exit(0)
CallExit(c) ==
  /\ session[c].at = "invoking"
  /\ session[c].method = "exit"
  /\ Stop

Invoke(c) == CallLot(c) \/ CallOther(c) \/ CallThrows(c) \/ CallExit(c)

\* A slip: an answer that stays in a buffer.
ReplyBuffered(c) ==
  /\ session[c].at = "replying"
  /\ session' = [session EXCEPT ![c].at = "reading"]
  /\ UNCHANGED <<link, running, listening, main, count>>

\* writeObject; to a client that has gone it may succeed or throw.
WriteReply(c) ==
  /\ session[c].at = "replying"
  /\ \/ /\ SendDown(c, session[c].reply)
        /\ session' = [session EXCEPT ![c].at = "reading"]
        /\ UNCHANGED <<running, listening, main, count>>
     \/ link[c].client = "closed" /\ EndSession(c)

Serve(c) == ReadMethod(c) \/ ReadArgs(c) \/ EndOfStream(c) \/ Invoke(c) \/ WriteReply(c)
=============================================================================
