----------------------------- MODULE ParkingLot -----------------------------
(***************************************************************************)
(* What a counting parking lot promises the threads that share it: every   *)
(* call takes effect at one instant between its invocation and its return, *)
(* and brings cars in only if all of them fit, or takes them out only if   *)
(* all of them are there.  This is the contract of the ParkingLot          *)
(* interfaces of netparkingsim/core and rpcparkingsim; the classes that    *)
(* implement them are shown to implement this module.                      *)
(***************************************************************************)
EXTENDS Integers

CONSTANTS Threads,   \* the threads that call the lot
          Capacity,  \* number of spots
          Amounts    \* the values of n in park(n) and unpark(n)

VARIABLES occupied,  \* number of cars in the lot
          stage,     \* of each thread's call: "idle", "called" or "answered"
          op,        \* the method called and its argument
          reply      \* what the call returns (a boolean is 1 or 0, as in the JVM)

lotVars == <<occupied, stage, op, reply>>

\* park() and unpark() move one car, park(n) and unpark(n) move n.
Operation ==
  [method : {"park", "unpark"}, n : Amounts]
    \cup [method : {"parkOne", "unparkOne", "remaining"}, n : {1}]

NoCall == [method |-> "none", n |-> 0]

Parks(o) == o.method \in {"park", "parkOne"}
Unparks(o) == o.method \in {"unpark", "unparkOne"}

Init ==
  /\ occupied = 0
  /\ stage = [t \in Threads |-> "idle"]
  /\ op = [t \in Threads |-> NoCall]
  /\ reply = [t \in Threads |-> 0]

Call(t, o) ==
  /\ stage[t] = "idle"
  /\ stage' = [stage EXCEPT ![t] = "called"]
  /\ op' = [op EXCEPT ![t] = o]
  /\ UNCHANGED <<occupied, reply>>

Answer(t, r) ==
  /\ stage[t] = "called"
  /\ stage' = [stage EXCEPT ![t] = "answered"]
  /\ reply' = [reply EXCEPT ![t] = r]
  /\ UNCHANGED op

\* All n cars come in, or all n go out, and the caller is told so.
Grant(t) ==
  /\ op[t].n >= 0
  /\ \/ /\ Parks(op[t])
        /\ occupied + op[t].n <= Capacity
        /\ occupied' = occupied + op[t].n
     \/ /\ Unparks(op[t])
        /\ op[t].n <= occupied
        /\ occupied' = occupied - op[t].n
  /\ Answer(t, 1)

\* No car moves: they do not all fit, or are not all there.
Refuse(t) ==
  /\ \/ Parks(op[t]) /\ occupied + op[t].n > Capacity
     \/ Unparks(op[t]) /\ op[t].n > occupied
  /\ Answer(t, 0)
  /\ UNCHANGED occupied

Report(t) ==
  /\ op[t].method = "remaining"
  /\ Answer(t, Capacity - occupied)
  /\ UNCHANGED occupied

Return(t) ==
  /\ stage[t] = "answered"
  /\ stage' = [stage EXCEPT ![t] = "idle"]
  /\ op' = [op EXCEPT ![t] = NoCall]
  /\ reply' = [reply EXCEPT ![t] = 0]
  /\ UNCHANGED occupied

Next ==
  \E t \in Threads :
    \/ \E o \in Operation : Call(t, o)
    \/ Grant(t) \/ Refuse(t) \/ Report(t)
    \/ Return(t)

Spec == Init /\ [][Next]_lotVars
=============================================================================
