---------------------- MODULE MCSynchronizedParkingLot ----------------------
(***************************************************************************)
(* Instances of SynchronizedParkingLot.  Ints have four bits: -8 .. 7.     *)
(***************************************************************************)
EXTENDS SynchronizedParkingLot

\* With two spots: amounts that keep the promise, up to the largest that does,
\* the least that does not, and a negative one.
MCAmounts == {-1, 2, 5, 6}

\* A negative number of cars.
MCNegativeAmounts == {-1, 1}
=============================================================================
