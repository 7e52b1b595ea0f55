---------------------------- MODULE RdwrLockSpec ----------------------------
(***************************************************************************)
(* What a thread of the Notification-Junction may rely on when it uses the *)
(* reader-writer lock of rdwr_lock.c: requests, grants and releases, with  *)
(* neither the counters nor the condition variable of the implementation.  *)
(***************************************************************************)
EXTENDS FiniteSets

CONSTANT Threads    \* the threads that use the lock

VARIABLES want,     \* want[t]: what t asked for and was not granted yet
          readers,  \* the threads that hold the lock for reading
          writers   \* the threads that hold the lock for writing

vars == <<want, readers, writers>>

Init == /\ want = [t \in Threads |-> "none"]
        /\ readers = {}
        /\ writers = {}

Holding == readers \cup writers

Request(t, kind) ==
    /\ want[t] = "none"
    /\ t \notin Holding
    /\ want' = [want EXCEPT ![t] = kind]
    /\ UNCHANGED <<readers, writers>>

GrantRead(t) ==
    /\ want[t] = "read"
    /\ writers = {}
    /\ want' = [want EXCEPT ![t] = "none"]
    /\ readers' = readers \cup {t}
    /\ UNCHANGED writers

GrantWrite(t) ==
    /\ want[t] = "write"
    /\ Holding = {}
    /\ want' = [want EXCEPT ![t] = "none"]
    /\ writers' = {t}
    /\ UNCHANGED readers

Release(t) ==
    /\ t \in Holding
    /\ readers' = readers \ {t}
    /\ writers' = writers \ {t}
    /\ UNCHANGED want

Grant == \E t \in Threads : GrantRead(t) \/ GrantWrite(t)

Next == \/ Grant
        \/ \E t \in Threads : Release(t) \/ \E kind \in {"read", "write"} : Request(t, kind)

SafeSpec == Init /\ [][Next]_vars

\* A lock that somebody can be given is given to somebody.
Spec == SafeSpec /\ WF_vars(Grant)
=============================================================================
