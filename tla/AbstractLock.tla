----------------------------- MODULE AbstractLock -----------------------------
(***************************************************************************)
(* What LWIP_MUTEX promises to the rest of the program: at most one thread *)
(* is inside lwIP.  A holder is either a thread or NoThread; the lock is   *)
(* taken and given back in one step each.                                  *)
(***************************************************************************)
CONSTANTS Threads, NoThread

VARIABLE holder

Init == holder = NoThread

Acquire(t) == holder = NoThread /\ holder' = t

Release(t) == holder = t /\ holder' = NoThread

Next == \E t \in Threads : Acquire(t) \/ Release(t)

Spec == Init /\ [][Next]_holder
===============================================================================
