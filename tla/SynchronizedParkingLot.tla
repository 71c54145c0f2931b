----------------------- MODULE SynchronizedParkingLot -----------------------
(***************************************************************************)
(* The class SynchronizedParkingLot of rpcparkingsim, whose unit methods   *)
(* park(), unpark() and remaining() are those of the class of the same     *)
(* name in netparkingsim/core.  All methods are synchronized: a thread     *)
(* enters the object's monitor, evaluates the guard, reads count, writes   *)
(* it back and leaves the monitor, each in a step of its own.              *)
(***************************************************************************)
EXTENDS JavaInts

CONSTANTS Threads,   \* the session threads that share the lot
          Capacity,  \* the constructor's argument, which nothing validates
          Amounts,   \* the arguments of park(int) and unpark(int)
          NoThread   \* holder of the monitor when it is free

ASSUME LotAssumption ==
  /\ Capacity \in JavaInt
  /\ Amounts \subseteq JavaInt
  /\ NoThread \notin Threads

VARIABLES count,    \* the field count
          monitor,  \* the thread inside a synchronized method
          pc,       \* where each thread is in its call
          op,       \* the method it calls, with the argument
          acc,      \* the value of count it read for ++count, --count, += or -=
          reply     \* what the method returns

vars == <<count, monitor, pc, op, acc, reply>>

Operation ==
  [method : {"park", "unpark"}, n : Amounts]
    \cup [method : {"parkOne", "unparkOne", "remaining"}, n : {1}]

\* A thread that is in no method of the lot.
NoCall == [method |-> "none", n |-> 0]

\* A slip: the bounds tested one off, < for <= and >= for >.
AdmitsOneTooMany(o) ==
  CASE o.method \in {"park", "parkOne"}     -> count <= Capacity
    [] o.method \in {"unpark", "unparkOne"} -> count >= 0
    [] OTHER                                -> FALSE

\* The condition under which each method changes count.
Admits(o) ==
  CASE o.method = "parkOne"   -> count < Capacity
    [] o.method = "park"      -> Wrap(count + o.n) <= Capacity
    [] o.method = "unparkOne" -> count > 0
    [] o.method = "unpark"    -> Wrap(count - o.n) >= 0
    [] OTHER                  -> FALSE

Init ==
  /\ count = 0
  /\ monitor = NoThread
  /\ pc = [t \in Threads |-> "idle"]
  /\ op = [t \in Threads |-> NoCall]
  /\ acc = [t \in Threads |-> 0]
  /\ reply = [t \in Threads |-> 0]

Goto(t, from, to) ==
  /\ pc[t] = from
  /\ pc' = [pc EXCEPT ![t] = to]

Call(t, o) ==
  /\ Goto(t, "idle", "called")
  /\ op' = [op EXCEPT ![t] = o]
  /\ UNCHANGED <<count, monitor, acc, reply>>

\* A slip: a method that is not synchronized.
EnterUnsynchronized(t) ==
  /\ monitor' = IF monitor = NoThread THEN t ELSE monitor
  /\ Goto(t, "called", "test")
  /\ UNCHANGED <<count, op, acc, reply>>

Enter(t) ==
  /\ monitor = NoThread
  /\ monitor' = t
  /\ Goto(t, "called", "test")
  /\ UNCHANGED <<count, op, acc, reply>>

Admit(t) ==
  /\ Admits(op[t])
  /\ Goto(t, "test", "load")
  /\ UNCHANGED <<count, monitor, op, acc, reply>>

\* return false
Reject(t) ==
  /\ op[t].method # "remaining"
  /\ ~Admits(op[t])
  /\ Goto(t, "test", "exit")
  /\ reply' = [reply EXCEPT ![t] = 0]
  /\ UNCHANGED <<count, monitor, op, acc>>

Remaining(t) ==
  /\ op[t].method = "remaining"
  /\ Goto(t, "test", "exit")
  /\ reply' = [reply EXCEPT ![t] = Wrap(Capacity - count)]
  /\ UNCHANGED <<count, monitor, op, acc>>

Load(t) ==
  /\ Goto(t, "load", "store")
  /\ acc' = [acc EXCEPT ![t] = count]
  /\ UNCHANGED <<count, monitor, op, reply>>

\* The write half of ++count, --count, count += n and count -= n; return true.
Store(t) ==
  /\ Goto(t, "store", "exit")
  /\ count' = IF op[t].method \in {"park", "parkOne"}
                THEN Wrap(acc[t] + op[t].n)
                ELSE Wrap(acc[t] - op[t].n)
  /\ acc' = [acc EXCEPT ![t] = 0]
  /\ reply' = [reply EXCEPT ![t] = 1]
  /\ UNCHANGED <<monitor, op>>

\* A slip: a path that returns without leaving the monitor.
ExitHoldingMonitor(t) ==
  /\ monitor = t
  /\ Goto(t, "exit", "idle")
  /\ op' = [op EXCEPT ![t] = NoCall]
  /\ reply' = [reply EXCEPT ![t] = 0]
  /\ UNCHANGED <<count, monitor, acc>>

\* The end of the synchronized method, and the return to the caller.
Exit(t) ==
  /\ monitor = t
  /\ monitor' = NoThread
  /\ Goto(t, "exit", "idle")
  /\ op' = [op EXCEPT ![t] = NoCall]
  /\ reply' = [reply EXCEPT ![t] = 0]
  /\ UNCHANGED <<count, acc>>

\* The steps of a thread that is inside the monitor.
Inside(t) == Admit(t) \/ Reject(t) \/ Remaining(t) \/ Load(t) \/ Store(t) \/ Exit(t)

Next ==
  \E t \in Threads :
    \/ \E o \in Operation : Call(t, o)
    \/ Enter(t)
    \/ Inside(t)

Spec == Init /\ [][Next]_vars

\* The scheduler lets the holder of the monitor run.  Nothing makes a thread
\* call, and monitor entry is not fair in Java.
FairSpec == Spec /\ \A t \in Threads : WF_vars(Inside(t))
-----------------------------------------------------------------------------
\* Every field and local holds a value of its type.
TypeOK ==
  /\ count \in JavaInt
  /\ monitor \in Threads \cup {NoThread}
  /\ pc \in [Threads -> {"idle", "called", "test", "load", "store", "exit"}]
  /\ op \in [Threads -> Operation \cup {NoCall}]
  /\ acc \in [Threads -> JavaInt]
  /\ reply \in [Threads -> JavaInt]

\* Never a negative number of cars, never more cars than spots.  A lot whose
\* capacity is negative stays empty.
OccupancyBound == count >= 0 /\ (count <= Capacity \/ count = 0)

\* The arguments for which the lot keeps its promise: no negative number of
\* cars, and none so large that adding it to a full lot overflows an int.
Safe(o) == o.method \in {"park", "unpark"} => o.n >= 0 /\ o.n + Capacity <= MaxInt

SafeAmounts == \A o \in Operation : Safe(o)

\* Exactly one thread is between entry and exit, what it tested still holds
\* when it writes, and what it read is still the value of count.
MonitorInv ==
  \A t \in Threads :
    /\ pc[t] \in {"test", "load", "store", "exit"} <=> monitor = t
    /\ pc[t] \in {"load", "store"} => Admits(op[t])
    /\ pc[t] = "store" => acc[t] = count

\* Every call of a thread takes effect at once, between invocation and return,
\* as the interface promises.
Stage(t) == CASE pc[t] = "idle" -> "idle"
              [] pc[t] = "exit" -> "answered"
              [] OTHER          -> "called"

Atomic == INSTANCE ParkingLot WITH occupied <- count,
                                   stage <- [t \in Threads |-> Stage(t)]

Linearizable == Atomic!Spec

\* While there are no more cars than spots and none less than none, each step
\* of a call whose argument is safe is a step of the contract, whatever other
\* callers pass: only a call with an unsafe argument can take the lot out of
\* its bounds, or be told anything but what it did.
ContractKept ==
  [][OccupancyBound /\ (\A t \in Threads : pc'[t] # pc[t] => Safe(op[t]))
       => Atomic!Next \/ UNCHANGED Atomic!lotVars]_vars

\* A thread inside a method leaves it, so the others can enter.
MonitorReleased == \A t \in Threads : monitor = t ~> monitor # t
=============================================================================
