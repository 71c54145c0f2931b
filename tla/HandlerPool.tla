---------------------------- MODULE HandlerPool ----------------------------
(***************************************************************************)
(* What asio's io_service is for those who use it: a pool of threads in    *)
(* run, which make one upcall for every handler that was posted and every  *)
(* operation that was started, until the pool is stopped or nothing is     *)
(* left to do.                                                             *)
(***************************************************************************)
CONSTANTS Threads,  \* threads that call run
          Callers,  \* those and the others that use the service
          Items,    \* handlers and operations
          Nothing   \* no upcall

VARIABLES due,       \* what was given to the service and has had no upcall yet
          place,     \* each thread is outside run, inside, or bound to serve
          upcall,    \* the item whose upcall it is in
          stopping,  \* the callers that are about to stop the service
          stopped    \* whether it is stopped

poolState == <<due, place, upcall, stopping, stopped>>

Init ==
  /\ due = {}
  /\ place = [t \in Threads |-> "outside"]
  /\ upcall = [t \in Threads |-> Nothing]
  /\ stopping = {}
  /\ stopped = FALSE

InUpcall(w) == \E t \in Threads : upcall[t] = w

\* A handler, or an operation, is given to the service.
Post(w) ==
  /\ w \notin due /\ ~InUpcall(w)
  /\ due' = due \cup {w}
  /\ UNCHANGED <<place, upcall, stopping, stopped>>

\* A thread calls run.
Enter(t) ==
  /\ place[t] = "outside"
  /\ place' = [place EXCEPT ![t] = "inside"]
  /\ UNCHANGED <<due, upcall, stopping, stopped>>

\* run returns, because the service is stopped.
Leave(t) ==
  /\ place[t] = "inside" /\ stopped
  /\ place' = [place EXCEPT ![t] = "outside"]
  /\ UNCHANGED <<due, upcall, stopping, stopped>>

\* No thread turns to anything more once the service is stopped.
Turn(t) ==
  /\ place[t] = "inside" /\ ~stopped
  /\ place' = [place EXCEPT ![t] = "serving"]
  /\ UNCHANGED <<due, upcall, stopping, stopped>>

\* There was nothing to do after all.
TurnBack(t) ==
  /\ place[t] = "serving" /\ upcall[t] = Nothing
  /\ place' = [place EXCEPT ![t] = "inside"]
  /\ UNCHANGED <<due, upcall, stopping, stopped>>

\* The upcall for an item that is due begins.
Begin(t, w) ==
  /\ upcall[t] = Nothing /\ w \in due
  /\ place[t] = "serving" \/ (place[t] = "inside" /\ ~stopped)
  /\ place' = [place EXCEPT ![t] = "serving"]
  /\ upcall' = [upcall EXCEPT ![t] = w]
  /\ due' = due \ {w}
  /\ UNCHANGED <<stopping, stopped>>

\* It returns, or throws through run.
End(t) ==
  /\ upcall[t] # Nothing
  /\ upcall' = [upcall EXCEPT ![t] = Nothing]
  /\ \E to \in {"inside", "outside"} : place' = [place EXCEPT ![t] = to]
  /\ UNCHANGED <<due, stopping, stopped>>

\* The user calls stop, from an upcall or from outside the pool.
Ask(c) ==
  /\ c \in Threads => upcall[c] # Nothing
  /\ stopping' = stopping \cup {c}
  /\ UNCHANGED <<due, place, upcall, stopped>>

\* The service stops itself when there is nothing to do, and only then.
GiveUp(t) ==
  /\ due = {} /\ \A s \in Threads : upcall[s] = Nothing
  /\ stopping' = stopping \cup {t}
  /\ UNCHANGED <<due, place, upcall, stopped>>

Stop(c) ==
  /\ c \in stopping
  /\ stopping' = stopping \ {c}
  /\ stopped' = TRUE
  /\ UNCHANGED <<due, place, upcall>>

\* reset, when no run is unfinished.
Reset ==
  /\ stopped /\ \A t \in Threads : place[t] = "outside"
  /\ stopped' = FALSE
  /\ UNCHANGED <<due, place, upcall, stopping>>

Next ==
  \/ \E w \in Items : Post(w) \/ \E t \in Threads : Begin(t, w)
  \/ \E t \in Threads : Enter(t) \/ Leave(t) \/ Turn(t) \/ TurnBack(t) \/ End(t) \/ GiveUp(t)
  \/ \E c \in Callers : Ask(c) \/ Stop(c)
  \/ Reset

Spec == Init /\ [][Next]_poolState
=============================================================================
