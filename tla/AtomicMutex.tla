------------------------------ MODULE AtomicMutex ------------------------------
(***************************************************************************)
(* The spin lock of src/src/mutex.rs.  `locked` is the AtomicBool; a       *)
(* thread that calls lock() swaps TRUE into it until the value it gets     *)
(* back is FALSE, works on lwIP while its guard lives, and swaps FALSE in  *)
(* when the guard is dropped.  Each swap is one atomic step.               *)
(***************************************************************************)
CONSTANTS Threads, NoThread

ASSUME NoThreadAssumption == NoThread \notin Threads

VARIABLES
  locked,   \* AtomicMutex.locked
  pc,       \* where each thread is: "out", "spin", "in" or "undo"
  prev      \* value returned by the last swap of each thread

lockVars == <<locked, pc, prev>>

LockInit ==
  /\ locked = FALSE
  /\ pc = [t \in Threads |-> "out"]
  /\ prev = [t \in Threads |-> FALSE]

\* A thread enters AtomicMutex::lock and starts its loop.
Lock(t) ==
  /\ pc[t] = "out"
  /\ pc' = [pc EXCEPT ![t] = "spin"]
  /\ UNCHANGED <<locked, prev>>

\* Mutant of TryLock: a failed attempt takes its swap back.
TryLockUndo(t) ==
  /\ pc[t] = "spin"
  /\ locked' = ~locked
  /\ prev' = [prev EXCEPT ![t] = locked]
  /\ pc' = [pc EXCEPT ![t] = IF locked THEN "spin" ELSE "in"]

\* Mutant of TryLock: the value of the previous swap decides.
TryLockStale(t) ==
  /\ pc[t] = "spin"
  /\ locked' = TRUE
  /\ prev' = [prev EXCEPT ![t] = locked]
  /\ pc' = [pc EXCEPT ![t] = IF prev[t] THEN "spin" ELSE "in"]

\* One round of the loop: try_lock swaps TRUE into `locked`; the old value
\* decides between Err (another round) and a guard.
TryLock(t) ==
  /\ pc[t] = "spin"
  /\ locked' = TRUE
  /\ prev' = [prev EXCEPT ![t] = locked]
  /\ pc' = [pc EXCEPT ![t] = IF locked THEN "spin" ELSE "in"]

\* Mutant of DropGuard: the guard is forgotten, not released.
DropGuardForget(t) ==
  /\ pc[t] = "in"
  /\ prev' = [prev EXCEPT ![t] = locked]
  /\ pc' = [pc EXCEPT ![t] = "undo"]
  /\ UNCHANGED locked

\* AtomicMutexGuard::drop swaps FALSE in and asserts that it got TRUE back.
DropGuard(t) ==
  /\ pc[t] = "in"
  /\ locked' = FALSE
  /\ prev' = [prev EXCEPT ![t] = locked]
  /\ pc' = [pc EXCEPT ![t] = "undo"]

\* The debug_assert on the old value, then the thread is out of lwIP.
GuardDropped(t) ==
  /\ pc[t] = "undo"
  /\ pc' = [pc EXCEPT ![t] = "out"]
  /\ UNCHANGED <<locked, prev>>

LockNext == \E t \in Threads : Lock(t) \/ TryLock(t) \/ DropGuard(t) \/ GuardDropped(t)

LockSpec == LockInit /\ [][LockNext]_lockVars

\* A thread inside lwIP returns (every critical section of the crate is finite
\* and never awaits) and a spinning thread keeps running; nothing in the loop
\* makes the lock fair, so no thread in particular is promised the lock.
LockFairness == \A t \in Threads : WF_lockVars(TryLock(t)) /\ WF_lockVars(DropGuard(t))

LockFairSpec == LockSpec /\ LockFairness

-------------------------------------------------------------------------------
LockTypeOK ==
  /\ locked \in BOOLEAN
  /\ pc \in [Threads -> {"out", "spin", "in", "undo"}]
  /\ prev \in [Threads -> BOOLEAN]

\* No two threads hold a guard of LWIP_MUTEX at once (mutex.rs try_lock).
MutualExclusion == \A s, t \in Threads : pc[s] = "in" /\ pc[t] = "in" => s = t

\* The debug_assert!(_prev) of the guard's drop: the flag was still set when
\* the holder cleared it, so no other thread released the lock under it.
GuardAssertion == \A t \in Threads : pc[t] = "undo" => prev[t]

\* Both: the lock is never held twice nor released by somebody else.
LockSound == MutualExclusion /\ GuardAssertion

\* lock() cannot wedge: while some thread spins, some thread gets in.
SomeoneEnters == (\E t \in Threads : pc[t] = "spin") ~> (\E t \in Threads : pc[t] = "in")

-------------------------------------------------------------------------------
Holder == IF \E t \in Threads : pc[t] = "in"
          THEN CHOOSE t \in Threads : pc[t] = "in"
          ELSE NoThread

Abstract == INSTANCE AbstractLock WITH holder <- Holder

\* The spin lock implements the abstract lock.
ImplementsLock == Abstract!Spec
================================================================================
