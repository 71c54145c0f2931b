-------------------------- MODULE AtomicParkingLot --------------------------
(***************************************************************************)
(* The class atomic_parking_lot of netparkingsim/cpp-asio.  The counter is *)
(* a std::atomic<int>, so the test of park() and unpark() is one atomic    *)
(* load and ++count or --count one atomic update, but nothing joins the    *)
(* two: another thread may run between them.                               *)
(***************************************************************************)
EXTENDS Integers, FiniteSets

CONSTANTS Threads,  \* the threads that call the lot
          Capacity  \* the constructor's argument; the server rejects n <= 0

ASSUME AtomicAssumption ==
  /\ Threads # {}
  /\ IsFiniteSet(Threads)
  /\ Capacity \in Nat \ {0}

VARIABLES count,  \* the atomic counter
          pc,     \* where each thread is in its call
          op,     \* the method it calls
          reply   \* what the method returns (a bool is 1 or 0)

vars == <<count, pc, op, reply>>

Operation == [method : {"parkOne", "unparkOne", "remaining"}, n : {1}]

\* A thread that is in no method of the lot.
NoCall == [method |-> "none", n |-> 0]

\* A slip: the bounds tested one off.
AdmitsOneTooMany(o) ==
  \/ o.method = "parkOne" /\ count <= Capacity
  \/ o.method = "unparkOne" /\ count >= 0

Admits(o) ==
  \/ o.method = "parkOne" /\ count < Capacity
  \/ o.method = "unparkOne" /\ count > 0

Init ==
  /\ count = 0
  /\ pc = [t \in Threads |-> "idle"]
  /\ op = [t \in Threads |-> NoCall]
  /\ reply = [t \in Threads |-> 0]

Goto(t, from, to) ==
  /\ pc[t] = from
  /\ pc' = [pc EXCEPT ![t] = to]

Call(t, o) ==
  /\ Goto(t, "idle", "test")
  /\ op' = [op EXCEPT ![t] = o]
  /\ UNCHANGED <<count, reply>>

Admit(t) ==
  /\ Admits(op[t])
  /\ Goto(t, "test", "update")
  /\ UNCHANGED <<count, op, reply>>

\* return false
Reject(t) ==
  /\ op[t].method # "remaining"
  /\ ~Admits(op[t])
  /\ Goto(t, "test", "done")
  /\ reply' = [reply EXCEPT ![t] = 0]
  /\ UNCHANGED <<count, op>>

Remaining(t) ==
  /\ op[t].method = "remaining"
  /\ Goto(t, "test", "done")
  /\ reply' = [reply EXCEPT ![t] = Capacity - count]
  /\ UNCHANGED <<count, op>>

\* ++count or --count, then return true
Update(t) ==
  /\ Goto(t, "update", "done")
  /\ count' = IF op[t].method = "parkOne" THEN count + 1 ELSE count - 1
  /\ reply' = [reply EXCEPT ![t] = 1]
  /\ UNCHANGED op

Return(t) ==
  /\ Goto(t, "done", "idle")
  /\ op' = [op EXCEPT ![t] = NoCall]
  /\ reply' = [reply EXCEPT ![t] = 0]
  /\ UNCHANGED count

Step(t) == Admit(t) \/ Reject(t) \/ Remaining(t) \/ Update(t) \/ Return(t)

Next ==
  \E t \in Threads :
    \/ \E o \in Operation : Call(t, o)
    \/ Step(t)

Spec == Init /\ [][Next]_vars
-----------------------------------------------------------------------------
\* Every field and local keeps to the values its declaration allows.
TypeOK ==
  /\ count \in Int
  /\ pc \in [Threads -> {"idle", "test", "update", "done"}]
  /\ op \in [Threads -> Operation \cup {NoCall}]
  /\ reply \in [Threads -> Int]

\* The threads that have passed the test of park() or of unpark() and have
\* not yet moved the counter.
Pending(method) == {t \in Threads : pc[t] = "update" /\ op[t].method = method}

\* The price of the gap between the test and the update: the threads that are
\* in it together can carry the counter past each bound, but by at most one
\* car for every thread but one.  With a single thread the bounds are exact.
OvershootBound ==
  /\ count <= Capacity + Cardinality(Threads) - 1
  /\ count >= 1 - Cardinality(Threads)

\* What bounds the overshoot: a pending thread counts as if it had moved.
PendingBound ==
  /\ count + Cardinality(Pending("parkOne")) <= Capacity + Cardinality(Threads) - 1
  /\ count - Cardinality(Pending("unparkOne")) >= 1 - Cardinality(Threads)

\* The inductive form of the bounds.
OvershootInv == TypeOK /\ PendingBound

Stage(t) == CASE pc[t] = "idle" -> "idle"
              [] pc[t] = "done" -> "answered"
              [] OTHER          -> "called"

Atomic == INSTANCE ParkingLot WITH occupied <- count,
                                   stage <- [t \in Threads |-> Stage(t)],
                                   Amounts <- {}

\* The calls take effect one at a time, as the interface promises.  The class
\* keeps that promise only to a single thread, which is how the server uses it.
Linearizable == Atomic!Spec
=============================================================================
