------------------------------ MODULE CarPark ------------------------------
(***************************************************************************)
(* The simulation of parkingsim: every Car is run by a thread of its own,  *)
(* and the cars of one ParkingLot share it.  The three classes of lot      *)
(* differ in what excludes their callers (the object's monitor, a          *)
(* ReentrantLock released in finally, the lock of an ArrayBlockingQueue),  *)
(* not in what they do: a method waits for the lock, works on the cars,    *)
(* possibly throws, and releases the lock.  Printing a car prints its lot, *)
(* which calls remainingCapacity() once more.                              *)
(***************************************************************************)
EXTENDS Integers, FiniteSets

CONSTANTS Cars,           \* the cars of the lot, one thread each
          Capacity,       \* its number of spots
          Interruptible,  \* the cars whose threads somebody may interrupt
          NoCar           \* holder of the lock when it is free

\* The constructors of all three lots throw on a negative capacity.
ASSUME CarParkAssumption ==
  /\ IsFiniteSet(Cars)
  /\ Capacity \in Nat
  /\ Interruptible \subseteq Cars
  /\ NoCar \notin Cars

VARIABLES cars,    \* the cars in the lot: a car parks once, so a set
          lock,    \* the car whose thread is inside the lot
          phase,   \* where each car is in Car.run
          step,    \* and where in the method of the lot that it calls there
          room,    \* what remainingCapacity() returned to it
          raised   \* whether the method threw IllegalStateException

vars == <<cars, lock, phase, step, room, raised>>

\* The phases in which the thread calls the lot, and the one that each leads
\* to when the method returns.
Queries == {"checking", "announcing", "leaving", "refused", "reporting"}
Calls == Queries \cup {"parking", "unparking"}

\* The phases in which a thread has ended.
Ended == {"gone", "turnedAway", "crashed", "interrupted"}

Init ==
  /\ cars = {}
  /\ lock = NoCar
  /\ phase = [c \in Cars |-> "starting"]
  /\ step = [c \in Cars |-> "outside"]
  /\ room = [c \in Cars |-> 0]
  /\ raised = [c \in Cars |-> FALSE]

\* Thread.sleep(startDelay) and Thread.sleep(parkTime)
WakeUp(c) ==
  /\ \/ phase[c] = "starting" /\ phase' = [phase EXCEPT ![c] = "checking"]
     \/ phase[c] = "parked" /\ phase' = [phase EXCEPT ![c] = "unparking"]
  /\ UNCHANGED <<cars, lock, step, room, raised>>

\* The sleep throws InterruptedException.  The catch block prints the car, and so
\* calls the lot once more before run() ends.
Interrupt(c) ==
  /\ c \in Interruptible
  /\ phase[c] \in {"starting", "parked"}
  /\ phase' = [phase EXCEPT ![c] = "reporting"]
  /\ UNCHANGED <<cars, lock, step, room, raised>>

\* A slip: a method that does not take the lock.
AcquireUnlocked(c) ==
  /\ phase[c] \in Calls
  /\ step[c] = "outside"
  /\ lock' = IF lock = NoCar THEN c ELSE lock
  /\ step' = [step EXCEPT ![c] = "inside"]
  /\ UNCHANGED <<cars, phase, room, raised>>

Acquire(c) ==
  /\ phase[c] \in Calls
  /\ step[c] = "outside"
  /\ lock = NoCar
  /\ lock' = c
  /\ step' = [step EXCEPT ![c] = "inside"]
  /\ UNCHANGED <<cars, phase, room, raised>>

\* A slip: the operands of the subtraction swapped.
RemainingSwapped(c) ==
  /\ phase[c] \in Queries
  /\ step[c] = "inside"
  /\ step' = [step EXCEPT ![c] = "done"]
  /\ room' = IF phase[c] = "checking"
               THEN [room EXCEPT ![c] = Cardinality(cars) - Capacity]
               ELSE room
  /\ UNCHANGED <<cars, lock, phase, raised>>

\* remainingCapacity(); only run()'s own call keeps the value.
RemainingCapacity(c) ==
  /\ phase[c] \in Queries
  /\ step[c] = "inside"
  /\ step' = [step EXCEPT ![c] = "done"]
  /\ room' = IF phase[c] = "checking"
               THEN [room EXCEPT ![c] = Capacity - Cardinality(cars)]
               ELSE room
  /\ UNCHANGED <<cars, lock, phase, raised>>

\* A slip: the last spot is kept free.
ParkThrowsEarly(c) ==
  /\ phase[c] = "parking"
  /\ step[c] = "inside"
  /\ Cardinality(cars) >= Capacity - 1
  /\ step' = [step EXCEPT ![c] = "done"]
  /\ raised' = [raised EXCEPT ![c] = TRUE]
  /\ UNCHANGED <<cars, lock, phase, room>>

\* cars.size() >= capacity: throw
ParkThrows(c) ==
  /\ phase[c] = "parking"
  /\ step[c] = "inside"
  /\ Cardinality(cars) >= Capacity
  /\ step' = [step EXCEPT ![c] = "done"]
  /\ raised' = [raised EXCEPT ![c] = TRUE]
  /\ UNCHANGED <<cars, lock, phase, room>>

FindSpot(c) ==
  /\ phase[c] = "parking"
  /\ step[c] = "inside"
  /\ Cardinality(cars) < Capacity
  /\ step' = [step EXCEPT ![c] = "admitted"]
  /\ UNCHANGED <<cars, lock, phase, room, raised>>

\* cars.add(c)
AddCar(c) ==
  /\ step[c] = "admitted"
  /\ cars' = cars \cup {c}
  /\ step' = [step EXCEPT ![c] = "done"]
  /\ UNCHANGED <<lock, phase, room, raised>>

\* A slip: the head of the queue is removed, not the car that leaves.
RemoveHead(c) ==
  /\ phase[c] = "unparking"
  /\ step[c] = "inside"
  /\ IF cars = {} THEN cars' = {} ELSE \E d \in cars : cars' = cars \ {d}
  /\ raised' = [raised EXCEPT ![c] = cars = {}]
  /\ step' = [step EXCEPT ![c] = "done"]
  /\ UNCHANGED <<lock, phase, room>>

\* unpark: cars.remove(c), or throw if the car is not there
RemoveCar(c) ==
  /\ phase[c] = "unparking"
  /\ step[c] = "inside"
  /\ cars' = cars \ {c}
  /\ raised' = [raised EXCEPT ![c] = c \notin cars]
  /\ step' = [step EXCEPT ![c] = "done"]
  /\ UNCHANGED <<lock, phase, room>>

\* What run() does when the method has returned, or thrown.
After(c) ==
  IF raised[c] THEN "crashed"
  ELSE CASE phase[c] = "checking"   -> IF room[c] > 0 THEN "announcing" ELSE "refused"
         [] phase[c] = "announcing" -> "parking"
         [] phase[c] = "parking"    -> "parked"
         [] phase[c] = "unparking"  -> "leaving"
         [] phase[c] = "leaving"    -> "gone"
         [] phase[c] = "refused"    -> "turnedAway"
         [] phase[c] = "reporting"  -> "interrupted"

\* A slip: the lock is released only when the method returns normally.
ReleaseUnlessRaised(c) ==
  /\ step[c] = "done"
  /\ lock' = IF raised[c] THEN lock ELSE NoCar
  /\ step' = [step EXCEPT ![c] = "outside"]
  /\ phase' = [phase EXCEPT ![c] = After(c)]
  /\ UNCHANGED <<cars, room, raised>>

\* The lock is released on every path, thrown exceptions included.
Release(c) ==
  /\ step[c] = "done"
  /\ lock' = NoCar
  /\ step' = [step EXCEPT ![c] = "outside"]
  /\ phase' = [phase EXCEPT ![c] = After(c)]
  /\ UNCHANGED <<cars, room, raised>>

\* The steps of a thread that nobody interrupts.
Run(c) ==
  \/ WakeUp(c)
  \/ Acquire(c)
  \/ RemainingCapacity(c)
  \/ ParkThrows(c)
  \/ FindSpot(c)
  \/ AddCar(c)
  \/ RemoveCar(c)
  \/ Release(c)

\* The program is over when the last thread has ended.
Done == (\A c \in Cars : phase[c] \in Ended) /\ UNCHANGED vars

Next == (\E c \in Cars : Run(c) \/ Interrupt(c)) \/ Done

Spec == Init /\ [][Next]_vars

\* Sleeps end, the scheduler runs every thread, and a thread that waits for
\* the lock gets it in the end: each car takes it at most five times.
FairSpec == Spec /\ \A c \in Cars : WF_vars(Run(c))
-----------------------------------------------------------------------------
\* Every variable keeps to the values the code can give it; in particular a
\* car never reads a negative number of remaining spots.
TypeOK ==
  /\ cars \subseteq Cars
  /\ lock \in Cars \cup {NoCar}
  /\ phase \in [Cars -> {"starting", "parked"} \cup Calls \cup Ended]
  /\ step \in [Cars -> {"outside", "inside", "admitted", "done"}]
  /\ room \in [Cars -> 0..Capacity]
  /\ raised \in [Cars -> BOOLEAN]

\* One thread at a time is inside the lot, and the spot that park() found free
\* is still free when it adds the car.
LockInv ==
  \A c \in Cars :
    /\ step[c] # "outside" <=> lock = c
    /\ step[c] # "outside" => phase[c] \in Calls
    /\ step[c] = "admitted" => phase[c] = "parking" /\ Cardinality(cars) < Capacity

\* The lot never holds more cars than it has spots, although every car looks
\* for a free spot in one call and takes it in another.
CapacityBound == Cardinality(cars) <= Capacity

\* The car has parked and has not been removed.  An interrupted thread parked
\* its car if it got as far as reading that there was room.
HasSpot(c) ==
  \/ phase[c] = "parking" /\ step[c] = "done" /\ ~raised[c]
  \/ phase[c] = "parked"
  \/ phase[c] = "unparking" /\ step[c] # "done"
  \/ phase[c] \in {"reporting", "interrupted"} /\ room[c] > 0

\* The lot holds exactly the cars that have parked and have not left; those
\* whose threads were interrupted while parked stay for good.  So "Unparking of
\* non-parked car" is never thrown, and a thread that dies does so in park(),
\* with its car outside.
LotLedger ==
  \A c \in Cars :
    /\ c \in cars <=> HasSpot(c)
    /\ raised[c] => \/ phase[c] = "parking" /\ step[c] = "done"
                    \/ phase[c] = "crashed"

\* The cars that go on to park are those that read of room before.
RoomInv ==
  \A c \in Cars :
    /\ phase[c] \in {"announcing", "parking", "parked"} => room[c] > 0
    /\ phase[c] = "starting" => room[c] = 0

\* The inductive form of the invariants.
LotInv == TypeOK /\ LockInv /\ RoomInv /\ CapacityBound /\ LotLedger

\* The car has had a spot at some time, whether or not it has left it again.
HadSpot(c) == HasSpot(c) \/ phase[c] \in {"unparking", "leaving", "gone"}

\* A thread is refused a spot, or dies of a full lot, only if as many cars as
\* there are spots have got one before: neither the time between Car.run's look
\* at remainingCapacity() and its park(), nor a dead or interrupted thread,
\* ever costs a spot that no car has had.
TurnedAwayForCause ==
  (\E c \in Cars : phase[c] \in {"refused", "turnedAway", "crashed"})
    => Cardinality({c \in Cars : HadSpot(c)}) >= Capacity

\* In particular, when there is a spot for every car, as in Demo, no thread
\* dies of a full lot and no car is turned away.
NoneTurnedAway ==
  Cardinality(Cars) <= Capacity
    => \A c \in Cars : phase[c] \notin {"crashed", "refused", "turnedAway"}

\* What a thread does to the lot as a counter: a call lasts from when the thread
\* has the lock to when it gives it back.
StageOf(c) == CASE step[c] = "outside"              -> "idle"
                [] step[c] \in {"inside", "admitted"} -> "called"
                [] step[c] = "done"                 -> "answered"
OpOf(c) ==
  IF step[c] = "outside" THEN [method |-> "none", n |-> 0]
  ELSE [method |-> CASE phase[c] \in Queries   -> "remaining"
                     [] phase[c] = "parking"   -> "parkOne"
                     [] phase[c] = "unparking" -> "unparkOne", n |-> 1]
ReplyOf(c) ==
  CASE step[c] # "done"        -> 0
    [] step[c] = "done" /\ phase[c] = "checking" -> room[c]
    [] step[c] = "done" /\ phase[c] \in Queries \ {"checking"} -> Capacity - Cardinality(cars)
    [] step[c] = "done" /\ phase[c] \in {"parking", "unparking"} -> IF raised[c] THEN 0 ELSE 1

\* The lists of cars do for their callers what the counters of the other lots
\* do: park() throws only at an instant when the lot is full, a car that is
\* added or removed changes the number by one, and remainingCapacity() is that
\* of one instant.
Lot == INSTANCE ParkingLot WITH Threads <- Cars, Amounts <- {1}, occupied <- Cardinality(cars),
                                stage <- [c \in Cars |-> StageOf(c)],
                                op <- [c \in Cars |-> OpOf(c)],
                                reply <- [c \in Cars |-> ReplyOf(c)]

Linearizable == Lot!Spec

\* A car that finds no parking space leaves with a message (Car.java:34-36): it
\* never dies of the exception of park().
LeavesPolitely == \A c \in Cars : phase[c] # "crashed"

\* Every thread ends, whatever the others do, throw or leave behind.
EveryThreadEnds == <>(\A c \in Cars : phase[c] \in Ended)
=============================================================================
