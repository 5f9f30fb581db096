--------------------------- MODULE CyclicBarrier ---------------------------
(***************************************************************************)
(* What a reusable barrier promises to the threads that wait on it: nobody *)
(* returns from a round before everybody has arrived in it, and a thread   *)
(* may arrive in the next round while slower ones are still leaving the    *)
(* last.  SpinBarrier.tla is the code that has to keep this promise.       *)
(***************************************************************************)
CONSTANT Threads

VARIABLES arrived,   \* the threads waiting in the round that is being filled
          leaving    \* the threads let go by the last round, not yet returned

Init ==
  /\ arrived = {}
  /\ leaving = {}

Arrive(t) ==
  /\ t \notin arrived \cup leaving
  /\ arrived' = arrived \cup {t}
  /\ UNCHANGED leaving

\* The round is complete: everybody is let go and t, the last, is already out.
Open(t) ==
  /\ arrived = Threads
  /\ arrived' = {}
  /\ leaving' = Threads \ {t}

Return(t) ==
  /\ t \in leaving
  /\ leaving' = leaving \ {t}
  /\ UNCHANGED arrived

Next == \E t \in Threads : Arrive(t) \/ Open(t) \/ Return(t)

Spec == Init /\ [][Next]_<<arrived, leaving>>
=============================================================================
