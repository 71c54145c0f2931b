-------------------------- MODULE MCAsioIoService --------------------------
(***************************************************************************)
(* An instance of AsioIoService: two threads that run, one that does not.  *)
(***************************************************************************)
EXTENDS AsioIoService, TLC

CONSTANTS t1, t2, main, h1, r1, r2, d1

MCThreads == {t1, t2}
MCOutsiders == {main}
MCHandlers == {h1}
MCOperations == {r1, r2}
MCDescriptors == {d1}

\* main sets up and posts; handlers start, post, cancel, close and stop, so that
\* the other thread may be anywhere in run when they do.
MCUses ==
  [t \in Callers |-> IF t = main THEN {"init", "register", "post"}
                                 ELSE {"start", "post", "cancel", "close", "stop"}]

MCSymmetry == {p @@ q : p \in Permutations(Threads), q \in Permutations(Operations)}
=============================================================================
