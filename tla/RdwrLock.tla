------------------------------ MODULE RdwrLock ------------------------------
(***************************************************************************)
(* The reader-writer lock of rdwr_lock.c, step by step.  Every call locks  *)
(* the mutex, looks at the two counters and either returns or waits on the *)
(* condition variable lock_free.  What a thread does between two accesses  *)
(* to shared state is one step, so that any interleaving of calls, waits,  *)
(* wakeups (spurious ones too) and returns is a behaviour of this module.  *)
(***************************************************************************)
EXTENDS Integers, FiniteSets

CONSTANTS Threads,   \* the threads that use the lock
          NoThread   \* nobody: the mutex is free

ASSUME ThreadsAssumption == IsFiniteSet(Threads) /\ NoThread \notin Threads

VARIABLES readers_reading,  \* rdwrp->readers_reading
          writer_writing,   \* rdwrp->writer_writing
          mutex,            \* the thread that holds rdwrp->mutex, or NoThread
          lock_free,        \* the threads blocked in pthread_cond_wait
          pc                \* where each thread is

vars == <<readers_reading, writer_writing, mutex, lock_free, pc>>

-----------------------------------------------------------------------------
(* Where a thread can be.  "idle", "read" and "write" are outside the lock's
   code: holding nothing, holding it for reading, holding it for writing.    *)

Entering == {"rlock", "wlock", "runlock", "wunlock"}   \* about to lock the mutex
Waiting  == {"rwait", "wwait"}                         \* inside pthread_cond_wait
Locked   == {"rtest", "wtest", "rdec", "wclr"}         \* the mutex is held
PCs      == {"idle", "read", "write"} \cup Entering \cup Waiting \cup Locked

\* The step that follows the acquisition of the mutex.
AfterMutex == [rlock |-> "rtest",   wlock |-> "wtest",  rwait |-> "rtest",
               wwait |-> "wtest", runlock |-> "rdec", wunlock |-> "wclr"]

WantRead  == {"rlock", "rtest", "rwait"}
WantWrite == {"wlock", "wtest", "wwait"}
HoldRead  == {"read", "runlock", "rdec"}
HoldWrite == {"write", "wunlock", "wclr"}

At(S)   == {t \in Threads : pc[t] \in S}
Readers == At(HoldRead)
Writers == At(HoldWrite)

-----------------------------------------------------------------------------
\* pthread_rdwr_init_np
Init == /\ readers_reading = 0
        /\ writer_writing = 0
        /\ mutex = NoThread
        /\ lock_free = {}
        /\ pc = [t \in Threads |-> "idle"]

Goto(t, place) == pc' = [pc EXCEPT ![t] = place]

\* pthread_cond_wait: give the mutex up and block, in one atomic step.
CondWait(t, place) ==
    /\ mutex' = NoThread
    /\ lock_free' = lock_free \cup {t}
    /\ Goto(t, place)
    /\ UNCHANGED <<readers_reading, writer_writing>>

\* pthread_cond_signal: one of the blocked threads, if there is one, is woken.
Signal == IF lock_free = {}
          THEN UNCHANGED lock_free
          ELSE \E t \in lock_free : lock_free' = lock_free \ {t}

-----------------------------------------------------------------------------
(* Faulty variants of the steps below.  No specification uses them: a
   mutation run puts one in the place of the step it is named after.         *)

\* runlock decrements the other counter.
RDecWriter(t) ==
    /\ pc[t] = "rdec"
    /\ IF readers_reading = 0
       THEN UNCHANGED <<writer_writing, lock_free>>
       ELSE /\ writer_writing' = writer_writing - 1
            /\ IF writer_writing' = 0 THEN Signal ELSE UNCHANGED lock_free
    /\ mutex' = NoThread
    /\ Goto(t, "idle")
    /\ UNCHANGED readers_reading

\* rlock treats readers_reading as a flag.
RTestSetsFlag(t) ==
    /\ pc[t] = "rtest"
    /\ IF writer_writing # 0
       THEN CondWait(t, "rwait")
       ELSE /\ readers_reading' = 1
            /\ mutex' = NoThread
            /\ Goto(t, "read")
            /\ UNCHANGED <<writer_writing, lock_free>>

\* wlock forgets the readers.
WTestIgnoresReaders(t) ==
    /\ pc[t] = "wtest"
    /\ IF writer_writing # 0
       THEN CondWait(t, "wwait")
       ELSE /\ writer_writing' = writer_writing + 1
            /\ mutex' = NoThread
            /\ Goto(t, "write")
            /\ UNCHANGED <<readers_reading, lock_free>>

\* runlock tests the counter before it decrements it, so the last reader
\* does not signal.
RDecTestsFirst(t) ==
    /\ pc[t] = "rdec"
    /\ IF readers_reading = 0
       THEN UNCHANGED readers_reading /\ Signal
       ELSE readers_reading' = readers_reading - 1 /\ UNCHANGED lock_free
    /\ mutex' = NoThread
    /\ Goto(t, "idle")
    /\ UNCHANGED writer_writing

\* wunlock signals instead of broadcasting.
ClearWriterSignals(t) ==
    /\ IF writer_writing = 0
       THEN UNCHANGED <<writer_writing, lock_free>>
       ELSE writer_writing' = 0 /\ Signal
    /\ mutex' = NoThread
    /\ Goto(t, "idle")
    /\ UNCHANGED readers_reading

-----------------------------------------------------------------------------
\* A thread that holds nothing calls rlock or wlock.
Request(t) ==
    /\ pc[t] = "idle"
    /\ Goto(t, "rlock") \/ Goto(t, "wlock")
    /\ UNCHANGED <<readers_reading, writer_writing, mutex, lock_free>>

\* A holder calls the unlock that matches.
Release(t) ==
    /\ \/ pc[t] = "read"  /\ Goto(t, "runlock")
       \/ pc[t] = "write" /\ Goto(t, "wunlock")
    /\ UNCHANGED <<readers_reading, writer_writing, mutex, lock_free>>

\* pthread_mutex_lock returns; for a waiter no longer in lock_free it is
\* pthread_cond_wait that returns, the mutex held again.
TakeMutex(t) ==
    /\ pc[t] \in Entering \cup Waiting
    /\ t \notin lock_free
    /\ mutex = NoThread
    /\ mutex' = t
    /\ Goto(t, AfterMutex[pc[t]])
    /\ UNCHANGED <<readers_reading, writer_writing, lock_free>>

\* The while loop of rlock.
RTest(t) ==
    /\ pc[t] = "rtest"
    /\ IF writer_writing # 0
       THEN CondWait(t, "rwait")
       ELSE /\ readers_reading' = readers_reading + 1
            /\ mutex' = NoThread
            /\ Goto(t, "read")
            /\ UNCHANGED <<writer_writing, lock_free>>

\* The while loop of wlock.
WTest(t) ==
    /\ pc[t] = "wtest"
    /\ IF writer_writing # 0 \/ readers_reading # 0
       THEN CondWait(t, "wwait")
       ELSE /\ writer_writing' = writer_writing + 1
            /\ mutex' = NoThread
            /\ Goto(t, "write")
            /\ UNCHANGED <<readers_reading, lock_free>>

\* The body of runlock; with no reader counted it returns -1.
RDec(t) ==
    /\ pc[t] = "rdec"
    /\ IF readers_reading = 0
       THEN UNCHANGED <<readers_reading, lock_free>>
       ELSE /\ readers_reading' = readers_reading - 1
            /\ IF readers_reading' = 0 THEN Signal ELSE UNCHANGED lock_free
    /\ mutex' = NoThread
    /\ Goto(t, "idle")
    /\ UNCHANGED writer_writing

\* The body of wunlock; with no writer recorded it returns -1.  The broadcast
\* wakes every blocked thread.
ClearWriter(t) ==
    /\ IF writer_writing = 0
       THEN UNCHANGED <<writer_writing, lock_free>>
       ELSE /\ writer_writing' = 0
            /\ lock_free' = {}
    /\ mutex' = NoThread
    /\ Goto(t, "idle")
    /\ UNCHANGED readers_reading

WClr(t) == pc[t] = "wclr" /\ ClearWriter(t)

\* POSIX lets pthread_cond_wait return although nobody signalled.
SpuriousWakeup(t) ==
    /\ t \in lock_free
    /\ lock_free' = lock_free \ {t}
    /\ UNCHANGED <<readers_reading, writer_writing, mutex, pc>>

\* What a thread inside one of the four functions does next.
Inside(t) == TakeMutex(t) \/ RTest(t) \/ WTest(t) \/ RDec(t) \/ WClr(t)

Next == \E t \in Threads : Request(t) \/ Release(t) \/ Inside(t) \/ SpuriousWakeup(t)

\* A thread that can run runs.  A holder may keep the lock for ever, nobody
\* has to call anything, and the mutex is not handed out in any order; but
\* pthread_cond_wait returns without a signal only finitely often.
Fairness == /\ \A t \in Threads : WF_vars(Inside(t))
            /\ <>[][~\E t \in Threads : SpuriousWakeup(t)]_vars

Spec == Init /\ [][Next]_vars
FairSpec == Spec /\ Fairness

-----------------------------------------------------------------------------
\* The types of the variables; only a thread inside pthread_cond_wait is queued
\* on lock_free.
TypeOK == /\ readers_reading \in Nat
          /\ writer_writing \in Nat
          /\ mutex \in Threads \cup {NoThread}
          /\ pc \in [Threads -> PCs]
          /\ lock_free \subseteq At(Waiting)

\* A thread that writes the hash is alone: nobody reads it and nobody else
\* writes it.
Exclusion == \A w \in Writers : Readers = {} /\ Writers = {w}

\* The counters count the holders, so that neither unlock ever takes its
\* "return -1" path for a caller that holds the lock.
CountsAccurate == /\ readers_reading = Cardinality(Readers)
                  /\ writer_writing = Cardinality(Writers)

\* No wakeup is lost: while the lock is free and threads are blocked, some
\* thread is on its way to test the counters (and will get the lock).
NoLostWakeup ==
    lock_free # {} /\ Readers \cup Writers = {}
       => At(WantRead \cup WantWrite) \ lock_free # {}

\* runlock wakes a single thread.  That is enough because a reader blocks
\* only while a writer holds the lock: whoever it wakes is a writer.
ReadersBlockOnlyOnWriter ==
    At({"rwait"}) \cap lock_free # {} => Writers # {}

\* What each thread asked for and was not granted yet.
Wanted == [t \in Threads |-> IF pc[t] \in WantRead THEN "read"
                             ELSE IF pc[t] \in WantWrite THEN "write"
                             ELSE "none"]

Abs == INSTANCE RdwrLockSpec
         WITH want <- Wanted, readers <- Readers, writers <- Writers

\* The lock implements its specification: every grant it makes is one the
\* specification allows, and a lock that can be granted is granted to somebody.
Implements == Abs!Spec

\* While the threads go on calling, a reader can starve a writer, so a request
\* is not always granted.  Once they stop asking, and if every holder lets go,
\* it is: nobody is left blocked on lock_free.
Served ==
    /\ <>[][~\E t \in Threads : Request(t)]_vars
    /\ \A t \in Threads : WF_vars(Release(t))
    => \A t \in Threads : pc[t] \in WantRead \cup WantWrite
                            ~> pc[t] \in HoldRead \cup HoldWrite
=============================================================================
