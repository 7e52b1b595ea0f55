--------------------------- MODULE RdwrLockProofs ---------------------------
(***************************************************************************)
(* Proofs about the reader-writer lock of rdwr_lock.c, for any finite set  *)
(* of threads.  The invariants of module RdwrLock are inductive only       *)
(* together: exclusion rests on the counters being accurate, and a wakeup  *)
(* is never lost because accurate counters let the woken thread in.        *)
(***************************************************************************)
EXTENDS RdwrLock, FiniteSetTheorems, TLAPS

IInv == /\ TypeOK
        /\ CountsAccurate
        /\ Exclusion
        /\ ReadersBlockOnlyOnWriter
        /\ NoLostWakeup

-----------------------------------------------------------------------------
\* A step that moves t changes a set of places by t at most.
LEMMA AtAfterGoto ==
  ASSUME NEW S, NEW t \in Threads, NEW place, pc \in [Threads -> PCs], Goto(t, place)
  PROVE  At(S)' = IF place \in S THEN At(S) \cup {t} ELSE At(S) \ {t}
  BY DEF At, Goto

\* They stay the same when t comes from and goes to a place of the same kind.
LEMMA AtStays ==
  ASSUME NEW t \in Threads, NEW place, NEW S,
         pc \in [Threads -> PCs], Goto(t, place), pc[t] \in S <=> place \in S
  PROVE  At(S)' = At(S)
<1>1. At(S)' = IF place \in S THEN At(S) \cup {t} ELSE At(S) \ {t}
  BY AtAfterGoto
<1>2. t \in At(S) <=> pc[t] \in S
  BY DEF At
<1> QED
  BY <1>1, <1>2

\* The holders are finitely many, so that they can be counted.
LEMMA HoldersFinite ==
  /\ IsFiniteSet(Readers) /\ Cardinality(Readers) \in Nat
  /\ IsFiniteSet(Writers) /\ Cardinality(Writers) \in Nat
<1>1. Readers \in SUBSET Threads /\ Writers \in SUBSET Threads
  BY DEF Readers, Writers, At
<1> QED
  BY <1>1, ThreadsAssumption, FS_Subset, FS_CardinalityType

\* A counter that counts a finite set is zero exactly when the set is empty.
LEMMA CountersSayWhoHolds ==
  ASSUME CountsAccurate
  PROVE  /\ readers_reading = 0 <=> Readers = {}
         /\ writer_writing = 0 <=> Writers = {}
  BY HoldersFinite, FS_EmptySet DEF CountsAccurate

\* How many holders are left after t came or went.
LEMMA HoldersAfterGoto ==
  ASSUME NEW t \in Threads, NEW place, pc \in [Threads -> PCs], Goto(t, place)
  PROVE  /\ Cardinality(Readers') = Cardinality(Readers)
              + (IF place \in HoldRead /\ t \notin Readers THEN 1 ELSE 0)
              - (IF place \notin HoldRead /\ t \in Readers THEN 1 ELSE 0)
         /\ Cardinality(Writers') = Cardinality(Writers)
              + (IF place \in HoldWrite /\ t \notin Writers THEN 1 ELSE 0)
              - (IF place \notin HoldWrite /\ t \in Writers THEN 1 ELSE 0)
<1>1. Readers' = IF place \in HoldRead THEN Readers \cup {t} ELSE Readers \ {t}
  BY AtAfterGoto DEF Readers, HoldRead
<1>2. Writers' = IF place \in HoldWrite THEN Writers \cup {t} ELSE Writers \ {t}
  BY AtAfterGoto DEF Writers, HoldWrite
<1>3. /\ Cardinality(Readers \cup {t}) = IF t \in Readers THEN Cardinality(Readers)
                                        ELSE Cardinality(Readers) + 1
      /\ Cardinality(Readers \ {t}) = IF t \in Readers THEN Cardinality(Readers) - 1
                                       ELSE Cardinality(Readers)
  BY HoldersFinite, FS_AddElement, FS_RemoveElement
<1>4. /\ Cardinality(Writers \cup {t}) = IF t \in Writers THEN Cardinality(Writers)
                                        ELSE Cardinality(Writers) + 1
      /\ Cardinality(Writers \ {t}) = IF t \in Writers THEN Cardinality(Writers) - 1
                                       ELSE Cardinality(Writers)
  BY HoldersFinite, FS_AddElement, FS_RemoveElement
<1>5. Cardinality(Readers) \in Nat /\ Cardinality(Writers) \in Nat
  BY HoldersFinite
<1> QED
  BY <1>1, <1>2, <1>3, <1>4, <1>5
-----------------------------------------------------------------------------
(* One lemma per step of a thread.  What each conjunct of IInv rests on is
   said where it is proved.                                                  *)

\* A thread that calls or enters the lock neither starts nor stops holding
\* it, so the counters still count.
LEMMA MoveKeepsHolders ==
  ASSUME NEW t \in Threads, NEW place \in PCs, IInv, Goto(t, place),
         UNCHANGED <<readers_reading, writer_writing>>,
         pc[t] \in HoldRead <=> place \in HoldRead,
         pc[t] \in HoldWrite <=> place \in HoldWrite
  PROVE  /\ Readers' = Readers /\ Writers' = Writers
         /\ CountsAccurate'
         /\ Exclusion'
         /\ pc' \in [Threads -> PCs]
<1>1. pc \in [Threads -> PCs]
  BY DEF IInv, TypeOK
<1>2. Readers' = Readers /\ Writers' = Writers
  BY <1>1, AtStays DEF Readers, Writers
<1>3. CountsAccurate' /\ Exclusion'
  BY <1>2 DEF IInv, CountsAccurate, Exclusion
<1> QED
  BY <1>1, <1>2, <1>3 DEF Goto

LEMMA RequestStep ==
  ASSUME NEW t \in Threads, IInv, Request(t)
  PROVE  IInv'
<1>1. PICK place \in {"rlock", "wlock"} : Goto(t, place)
  BY DEF Request
<1>2. /\ Readers' = Readers /\ Writers' = Writers
      /\ CountsAccurate' /\ Exclusion' /\ pc' \in [Threads -> PCs]
  BY <1>1, MoveKeepsHolders DEF Request, PCs, Entering, HoldRead, HoldWrite
<1>3. pc \in [Threads -> PCs] /\ t \notin lock_free
  BY DEF IInv, TypeOK, Request, At, Waiting
<1>4. TypeOK'
  BY <1>1, <1>2, <1>3 DEF IInv, TypeOK, Request, Goto, At, Waiting
<1>5. ReadersBlockOnlyOnWriter'
  BY <1>1, <1>2, <1>3 DEF IInv, ReadersBlockOnlyOnWriter, Request, Goto, At
<1>6. NoLostWakeup'
  BY <1>1, <1>2, <1>3
     DEF IInv, NoLostWakeup, Request, Goto, At, WantRead, WantWrite
<1> QED
  BY <1>2, <1>4, <1>5, <1>6 DEF IInv

LEMMA ReleaseStep ==
  ASSUME NEW t \in Threads, IInv, Release(t)
  PROVE  IInv'
<1>1. PICK place \in {"runlock", "wunlock"} :
        /\ Goto(t, place)
        /\ pc[t] = IF place = "runlock" THEN "read" ELSE "write"
  BY DEF Release
<1>2. /\ Readers' = Readers /\ Writers' = Writers
      /\ CountsAccurate' /\ Exclusion' /\ pc' \in [Threads -> PCs]
  BY <1>1, MoveKeepsHolders DEF Release, PCs, Entering, HoldRead, HoldWrite
<1>3. pc \in [Threads -> PCs] /\ t \notin lock_free
  BY <1>1 DEF IInv, TypeOK, At, Waiting
<1>4. TypeOK'
  BY <1>1, <1>2, <1>3 DEF IInv, TypeOK, Release, Goto, At, Waiting
<1>5. ReadersBlockOnlyOnWriter'
  BY <1>1, <1>2, <1>3 DEF IInv, ReadersBlockOnlyOnWriter, Release, Goto, At
<1>6. NoLostWakeup'
  BY <1>1, <1>2, <1>3
     DEF IInv, NoLostWakeup, Release, Goto, At, WantRead, WantWrite
<1> QED
  BY <1>2, <1>4, <1>5, <1>6 DEF IInv

LEMMA TakeMutexStep ==
  ASSUME NEW t \in Threads, IInv, TakeMutex(t)
  PROVE  IInv'
<1> DEFINE place == AfterMutex[pc[t]]
<1>1. /\ Goto(t, place) /\ place \in Locked
      /\ pc[t] \in WantRead <=> place \in WantRead
      /\ pc[t] \in WantWrite <=> place \in WantWrite
      /\ pc[t] \in HoldRead <=> place \in HoldRead
      /\ pc[t] \in HoldWrite <=> place \in HoldWrite
  BY DEF TakeMutex, AfterMutex, Entering, Waiting, Locked,
         WantRead, WantWrite, HoldRead, HoldWrite
<1> HIDE DEF place
<1>2. /\ Readers' = Readers /\ Writers' = Writers
      /\ CountsAccurate' /\ Exclusion' /\ pc' \in [Threads -> PCs]
  BY <1>1, MoveKeepsHolders DEF TakeMutex, PCs
<1>3. pc \in [Threads -> PCs] /\ t \notin lock_free /\ lock_free' = lock_free
  BY DEF IInv, TypeOK, TakeMutex
<1>4. TypeOK'
  BY <1>1, <1>2, <1>3 DEF IInv, TypeOK, TakeMutex, Goto, At
<1>5. ReadersBlockOnlyOnWriter'
  BY <1>1, <1>2, <1>3 DEF IInv, ReadersBlockOnlyOnWriter, Goto, At
<1>6. NoLostWakeup'
  <2>1. At(WantRead \cup WantWrite)' = At(WantRead \cup WantWrite)
    BY <1>1, <1>3 DEF Goto, At
  <2> QED
    BY <1>2, <1>3, <2>1 DEF IInv, NoLostWakeup
<1> QED
  BY <1>2, <1>4, <1>5, <1>6 DEF IInv

LEMMA SpuriousWakeupStep ==
  ASSUME NEW t \in Threads, IInv, SpuriousWakeup(t)
  PROVE  IInv'
<1>1. At(WantRead \cup WantWrite)' = At(WantRead \cup WantWrite)
      /\ At({"rwait"})' = At({"rwait"}) /\ At(Waiting)' = At(Waiting)
      /\ Readers' = Readers /\ Writers' = Writers
  BY DEF SpuriousWakeup, At, Readers, Writers
<1>2. TypeOK' /\ CountsAccurate' /\ Exclusion' /\ ReadersBlockOnlyOnWriter'
  BY <1>1 DEF IInv, TypeOK, CountsAccurate, Exclusion, ReadersBlockOnlyOnWriter,
              SpuriousWakeup
<1>3. t \in At(WantRead \cup WantWrite)
  BY DEF IInv, TypeOK, SpuriousWakeup, At, Waiting, WantRead, WantWrite
<1>4. NoLostWakeup'
  BY <1>1, <1>3 DEF NoLostWakeup, SpuriousWakeup
<1> QED
  BY <1>2, <1>4 DEF IInv
\* A thread that blocks does so because the lock is held, and if it wants to
\* read, because a writer holds it.
LEMMA CondWaitStep ==
  ASSUME NEW t \in Threads, NEW place \in Waiting, IInv, CondWait(t, place),
         pc[t] = (IF place = "rwait" THEN "rtest" ELSE "wtest"),
         writer_writing # 0 \/ (place = "wwait" /\ readers_reading # 0)
  PROVE  IInv'
<1>1. /\ Readers' = Readers /\ Writers' = Writers
      /\ CountsAccurate' /\ Exclusion' /\ pc' \in [Threads -> PCs]
  BY MoveKeepsHolders DEF CondWait, PCs, Waiting, HoldRead, HoldWrite
<1>2. pc \in [Threads -> PCs]
  BY DEF IInv, TypeOK
<1>3. /\ writer_writing # 0 => Writers # {}
      /\ readers_reading # 0 => Readers # {}
  BY CountersSayWhoHolds DEF IInv
<1>4. TypeOK'
  BY <1>1, <1>2 DEF IInv, TypeOK, CondWait, Goto, At, Waiting
<1>5. ReadersBlockOnlyOnWriter'
  BY <1>1, <1>2, <1>3 DEF IInv, ReadersBlockOnlyOnWriter, CondWait, Goto, At, Waiting
<1>6. NoLostWakeup'
  BY <1>1, <1>3 DEF NoLostWakeup
<1> QED
  BY <1>1, <1>4, <1>5, <1>6 DEF IInv

\* A reader that enters finds no writer.
LEMMA RTestStep ==
  ASSUME NEW t \in Threads, IInv, RTest(t)
  PROVE  IInv'
<1>1. CASE writer_writing # 0
  BY <1>1, CondWaitStep DEF RTest, Waiting
<1>2. CASE writer_writing = 0
  <2>1. /\ pc \in [Threads -> PCs] /\ Goto(t, "read") /\ pc[t] = "rtest"
        /\ readers_reading' = readers_reading + 1
        /\ UNCHANGED <<writer_writing, lock_free>> /\ mutex' = NoThread
    BY <1>2 DEF IInv, TypeOK, RTest
  <2>2. Writers = {} /\ t \notin Readers /\ t \notin Writers
    BY <1>2, <2>1, CountersSayWhoHolds
       DEF IInv, Readers, At, HoldRead
  <2>3. Readers' = Readers \cup {t} /\ Writers' = {}
    BY <2>1, <2>2, AtAfterGoto DEF Readers, Writers, HoldRead, HoldWrite
  <2>4. CountsAccurate'
    <3>1. /\ Cardinality(Readers \cup {t}) = Cardinality(Readers) + 1
          /\ Cardinality({}) = 0
      BY <2>2, HoldersFinite, FS_AddElement, FS_EmptySet
    <3> QED
      BY <1>2, <2>1, <2>3, <3>1 DEF IInv, CountsAccurate
  <2>5. TypeOK'
    BY <2>1 DEF IInv, TypeOK, Goto, At, PCs, Waiting
  <2>6. Exclusion' /\ NoLostWakeup'
    BY <2>3 DEF Exclusion, NoLostWakeup
  <2>7. ReadersBlockOnlyOnWriter'
    BY <2>1, <2>2 DEF IInv, ReadersBlockOnlyOnWriter, Goto, At
  <2> QED
    BY <2>4, <2>5, <2>6, <2>7 DEF IInv
<1> QED
  BY <1>1, <1>2

\* A writer that enters finds nobody.
LEMMA WTestStep ==
  ASSUME NEW t \in Threads, IInv, WTest(t)
  PROVE  IInv'
<1>1. CASE writer_writing # 0 \/ readers_reading # 0
  BY <1>1, CondWaitStep DEF WTest, Waiting
<1>2. CASE ~(writer_writing # 0 \/ readers_reading # 0)
  <2>1. /\ pc \in [Threads -> PCs] /\ Goto(t, "write") /\ pc[t] = "wtest"
        /\ writer_writing' = 1
        /\ UNCHANGED <<readers_reading, lock_free>> /\ mutex' = NoThread
    BY <1>2 DEF IInv, TypeOK, WTest
  <2>2. Writers = {} /\ Readers = {}
    BY <1>2, CountersSayWhoHolds DEF IInv
  <2>3. Readers' = {} /\ Writers' = {t}
    BY <2>1, <2>2, AtAfterGoto DEF Readers, Writers, HoldRead, HoldWrite
  <2>4. CountsAccurate'
    BY <1>2, <2>1, <2>3, FS_EmptySet, FS_Singleton DEF CountsAccurate
  <2>5. TypeOK'
    BY <2>1 DEF IInv, TypeOK, Goto, At, PCs, Waiting
  <2>6. Exclusion' /\ NoLostWakeup' /\ ReadersBlockOnlyOnWriter'
    BY <2>3 DEF Exclusion, NoLostWakeup, ReadersBlockOnlyOnWriter
  <2> QED
    BY <2>4, <2>5, <2>6 DEF IInv
<1> QED
  BY <1>1, <1>2

\* The last reader wakes one waiter; any other leaves a reader behind.
LEMMA RDecStep ==
  ASSUME NEW t \in Threads, IInv, RDec(t)
  PROVE  IInv'
<1>1. /\ pc \in [Threads -> PCs] /\ Goto(t, "idle") /\ t \in Readers
      /\ UNCHANGED writer_writing /\ mutex' = NoThread
      /\ lock_free' \subseteq lock_free
  BY DEF IInv, TypeOK, RDec, Readers, At, HoldRead, Signal
<1>2. /\ readers_reading # 0
      /\ readers_reading' = readers_reading - 1
      /\ readers_reading' = 0 => Signal
  BY <1>1, CountersSayWhoHolds DEF IInv, RDec
<1>3. Writers = {} /\ t \notin Writers
  BY <1>1 DEF IInv, Exclusion
<1>4. Readers' = Readers \ {t} /\ Writers' = {}
  BY <1>1, <1>3, AtAfterGoto DEF Readers, Writers, HoldRead, HoldWrite
<1>5. CountsAccurate'
  <2>1. Cardinality(Readers \ {t}) = Cardinality(Readers) - 1 /\ Cardinality({}) = 0
    BY <1>1, HoldersFinite, FS_RemoveElement, FS_EmptySet
  <2> QED
    BY <1>1, <1>2, <1>3, <1>4, <2>1 DEF IInv, CountsAccurate
<1>6. TypeOK'
  <2>1. readers_reading' \in Nat
    BY <1>2 DEF IInv, TypeOK
  <2>2. lock_free' \subseteq At(Waiting)'
    BY <1>1 DEF IInv, TypeOK, RDec, Goto, At, Waiting
  <2> QED
    BY <1>1, <2>1, <2>2 DEF IInv, TypeOK, Goto, PCs
<1>7. Exclusion'
  BY <1>4 DEF Exclusion
<1>8. ReadersBlockOnlyOnWriter'
  <2>1. At({"rwait"}) \cap lock_free = {}
    BY <1>3 DEF IInv, ReadersBlockOnlyOnWriter
  <2>2. At({"rwait"})' \subseteq At({"rwait"})
    BY <1>1 DEF Goto, At
  <2> QED
    BY <1>1, <2>1, <2>2 DEF ReadersBlockOnlyOnWriter
<1>9. NoLostWakeup'
  <2> SUFFICES ASSUME lock_free' # {}, Readers' = {}
               PROVE  At(WantRead \cup WantWrite)' \ lock_free' # {}
    BY DEF NoLostWakeup
  <2>1. readers_reading' = 0
    BY <1>5, FS_EmptySet DEF CountsAccurate
  <2>2. PICK u \in lock_free : lock_free' = lock_free \ {u}
    BY <1>1, <1>2, <2>1 DEF Signal
  <2>3. u \in Threads /\ pc'[u] \in Waiting
    BY <1>1, <2>2 DEF IInv, TypeOK, RDec, Goto, At, Waiting
  <2> QED
    BY <2>2, <2>3 DEF At, Waiting, WantRead, WantWrite
<1> QED
  BY <1>5, <1>6, <1>7, <1>8, <1>9 DEF IInv

\* The writer that leaves wakes everybody.
LEMMA WClrStep ==
  ASSUME NEW t \in Threads, IInv, WClr(t)
  PROVE  IInv'
<1>1. /\ pc \in [Threads -> PCs] /\ Goto(t, "idle") /\ t \in Writers
      /\ UNCHANGED readers_reading /\ mutex' = NoThread
  BY DEF IInv, TypeOK, WClr, ClearWriter, Writers, At, HoldWrite
<1>2. writer_writing' = 0 /\ lock_free' = {}
  BY <1>1, CountersSayWhoHolds DEF IInv, WClr, ClearWriter
<1>3. Readers = {} /\ Writers = {t}
  BY <1>1 DEF IInv, Exclusion
<1>4. Readers' = {} /\ Writers' = {}
  BY <1>1, <1>3, AtAfterGoto DEF Readers, Writers, HoldRead, HoldWrite
<1>5. CountsAccurate'
  BY <1>1, <1>2, <1>3, <1>4, FS_EmptySet DEF IInv, CountsAccurate
<1>6. TypeOK'
  BY <1>1, <1>2 DEF IInv, TypeOK, Goto, PCs
<1>7. Exclusion' /\ ReadersBlockOnlyOnWriter' /\ NoLostWakeup'
  BY <1>2, <1>4 DEF Exclusion, ReadersBlockOnlyOnWriter, NoLostWakeup
<1> QED
  BY <1>5, <1>6, <1>7 DEF IInv
LEMMA NextKeepsIInv == IInv /\ [Next]_vars => IInv'
<1> SUFFICES ASSUME IInv, [Next]_vars PROVE IInv'
  OBVIOUS
<1>1. CASE Next
  <2>1. PICK t \in Threads : Request(t) \/ Release(t) \/ Inside(t) \/ SpuriousWakeup(t)
    BY <1>1 DEF Next
  <2> QED
    BY <2>1, RequestStep, ReleaseStep, TakeMutexStep, RTestStep, WTestStep,
       RDecStep, WClrStep, SpuriousWakeupStep DEF Inside
<1>2. CASE UNCHANGED vars
  BY <1>2 DEF vars, IInv, TypeOK, CountsAccurate, Exclusion, ReadersBlockOnlyOnWriter,
              NoLostWakeup, Readers, Writers, At
<1> QED
  BY <1>1, <1>2

LEMMA InitIInv == Init => IInv
<1> SUFFICES ASSUME Init PROVE IInv
  OBVIOUS
<1>1. /\ Readers = {} /\ Writers = {} /\ lock_free = {}
  BY DEF Init, Readers, Writers, At, HoldRead, HoldWrite
<1>2. TypeOK
  BY DEF Init, TypeOK, PCs, At
<1>3. CountsAccurate
  BY <1>1, FS_EmptySet DEF Init, CountsAccurate
<1> QED
  BY <1>1, <1>2, <1>3 DEF IInv, Exclusion, ReadersBlockOnlyOnWriter, NoLostWakeup

\* Every reachable state of the lock satisfies the inductive invariant.
THEOREM LockInvariant == Spec => []IInv
  BY InitIInv, NextKeepsIInv, PTL DEF Spec

\* The variables keep their types; only waiting threads are queued.
THEOREM LockTypeOK == Spec => []TypeOK
<1>1. IInv => TypeOK
  BY DEF IInv
<1> QED
  BY <1>1, LockInvariant, PTL

\* However many threads share the lock, a writer is alone (rdwr_lock.c, the
\* tests of rlock and wlock).
THEOREM LockExclusion == Spec => []Exclusion
<1>1. IInv => Exclusion
  BY DEF IInv
<1> QED
  BY <1>1, LockInvariant, PTL

\* readers_reading and writer_writing are the numbers of holders.
THEOREM LockCounts == Spec => []CountsAccurate
<1>1. IInv => CountsAccurate
  BY DEF IInv
<1> QED
  BY <1>1, LockInvariant, PTL

\* No thread is left blocked on a free lock with nobody about to take it:
\* the signal of runlock and the broadcast of wunlock are enough.
THEOREM LockNoLostWakeup == Spec => []NoLostWakeup
<1>1. IInv => NoLostWakeup
  BY DEF IInv
<1> QED
  BY <1>1, LockInvariant, PTL

\* A reader is never blocked by other readers, which is why runlock may wake
\* one thread only.
THEOREM LockReadersBlockOnlyOnWriter == Spec => []ReadersBlockOnlyOnWriter
<1>1. IInv => ReadersBlockOnlyOnWriter
  BY DEF IInv
<1> QED
  BY <1>1, LockInvariant, PTL

-----------------------------------------------------------------------------
(* The safety part of "the lock implements its specification".  Entering,
   waiting and waking are stutters; a test that succeeds is a grant.         *)

\* A step that moves t changes nobody else's wishes.
LEMMA WantedAfterGoto ==
  ASSUME NEW t \in Threads, NEW place, pc \in [Threads -> PCs], Goto(t, place)
  PROVE  Wanted' = [Wanted EXCEPT ![t] = IF place \in WantRead THEN "read"
                                         ELSE IF place \in WantWrite THEN "write"
                                         ELSE "none"]
  BY DEF Wanted, Goto

LEMMA StutterRefines ==
  ASSUME IInv, NEW t \in Threads, NEW place \in PCs, Goto(t, place),
         pc[t] \in WantRead <=> place \in WantRead,
         pc[t] \in WantWrite <=> place \in WantWrite,
         pc[t] \in HoldRead <=> place \in HoldRead,
         pc[t] \in HoldWrite <=> place \in HoldWrite
  PROVE  UNCHANGED Abs!vars
<1>1. pc \in [Threads -> PCs]
  BY DEF IInv, TypeOK
<1>2. Wanted' = Wanted
  BY <1>1 DEF Wanted, Goto
<1>3. Readers' = Readers /\ Writers' = Writers
  BY <1>1, AtStays DEF Readers, Writers
<1> QED
  BY <1>2, <1>3 DEF Abs!vars

LEMMA RequestRefines ==
  ASSUME IInv, NEW t \in Threads, Request(t)
  PROVE  \E kind \in {"read", "write"} : Abs!Request(t, kind)
<1>1. pc \in [Threads -> PCs] /\ pc[t] = "idle"
  BY DEF IInv, TypeOK, Request
<1>2. PICK place \in {"rlock", "wlock"} : Goto(t, place)
  BY DEF Request
<1> DEFINE kind == IF place = "rlock" THEN "read" ELSE "write"
<1>3. Readers' = Readers /\ Writers' = Writers
  BY <1>1, <1>2, MoveKeepsHolders DEF Request, PCs, Entering, HoldRead, HoldWrite
<1>4. Wanted[t] = "none" /\ t \notin Readers \cup Writers
  BY <1>1 DEF Wanted, Readers, Writers, At, WantRead, WantWrite, HoldRead, HoldWrite
<1>5. Wanted' = [Wanted EXCEPT ![t] = kind]
  BY <1>1, <1>2, WantedAfterGoto DEF WantRead, WantWrite
<1> QED
  BY <1>3, <1>4, <1>5 DEF Abs!Request, Abs!Holding

LEMMA RTestRefines ==
  ASSUME IInv, NEW t \in Threads, RTest(t)
  PROVE  Abs!GrantRead(t) \/ UNCHANGED Abs!vars
<1>1. pc \in [Threads -> PCs] /\ pc[t] = "rtest"
  BY DEF IInv, TypeOK, RTest
<1>2. CASE writer_writing # 0
  BY <1>1, <1>2, StutterRefines
     DEF RTest, CondWait, PCs, Waiting, WantRead, WantWrite, HoldRead, HoldWrite
<1>3. CASE writer_writing = 0
  <2>1. Goto(t, "read")
    BY <1>3 DEF RTest
  <2>2. Writers = {}
    BY <1>3, CountersSayWhoHolds DEF IInv
  <2>3. Readers' = Readers \cup {t} /\ Writers' = Writers
    BY <1>1, <2>1, <2>2, AtAfterGoto DEF Readers, Writers, HoldRead, HoldWrite
  <2>4. Wanted[t] = "read" /\ Wanted' = [Wanted EXCEPT ![t] = "none"]
    <3>1. Wanted[t] = "read"
      BY <1>1 DEF Wanted, WantRead
    <3> QED
      BY <1>1, <2>1, <3>1, WantedAfterGoto DEF WantRead, WantWrite
  <2> QED
    BY <2>2, <2>3, <2>4 DEF Abs!GrantRead
<1> QED
  BY <1>2, <1>3

LEMMA WTestRefines ==
  ASSUME IInv, NEW t \in Threads, WTest(t)
  PROVE  Abs!GrantWrite(t) \/ UNCHANGED Abs!vars
<1>1. pc \in [Threads -> PCs] /\ pc[t] = "wtest"
  BY DEF IInv, TypeOK, WTest
<1>2. CASE writer_writing # 0 \/ readers_reading # 0
  BY <1>1, <1>2, StutterRefines
     DEF WTest, CondWait, PCs, Waiting, WantRead, WantWrite, HoldRead, HoldWrite
<1>3. CASE ~(writer_writing # 0 \/ readers_reading # 0)
  <2>1. Goto(t, "write")
    BY <1>3 DEF WTest
  <2>2. Writers = {} /\ Readers = {}
    BY <1>3, CountersSayWhoHolds DEF IInv
  <2>3. Readers' = Readers /\ Writers' = {t}
    BY <1>1, <2>1, <2>2, AtAfterGoto DEF Readers, Writers, HoldRead, HoldWrite
  <2>4. Wanted[t] = "write"
    BY <1>1 DEF Wanted, WantRead, WantWrite
  <2>5. Wanted' = [Wanted EXCEPT ![t] = "none"]
    BY <1>1, <2>1, WantedAfterGoto DEF WantRead, WantWrite
  <2> QED
    BY <2>2, <2>3, <2>4, <2>5 DEF Abs!GrantWrite, Abs!Holding
<1> QED
  BY <1>2, <1>3

\* Both unlock functions end in "idle" for a thread that held the lock.
LEMMA UnlockRefines ==
  ASSUME IInv, NEW t \in Threads, RDec(t) \/ WClr(t)
  PROVE  Abs!Release(t)
<1>1. /\ pc \in [Threads -> PCs] /\ pc[t] \in {"rdec", "wclr"} /\ Goto(t, "idle")
  BY DEF IInv, TypeOK, RDec, WClr, ClearWriter
<1>2. t \in Readers \cup Writers
  BY <1>1 DEF Readers, Writers, At, HoldRead, HoldWrite
<1>3. Readers' = Readers \ {t} /\ Writers' = Writers \ {t}
  BY <1>1, AtAfterGoto DEF Readers, Writers, HoldRead, HoldWrite
<1>4. Wanted' = Wanted
  BY <1>1 DEF Wanted, Goto, WantRead, WantWrite
<1> QED
  BY <1>2, <1>3, <1>4 DEF Abs!Release, Abs!Holding

LEMMA StepRefines == IInv /\ [Next]_vars => [Abs!Next]_(Abs!vars)
<1> SUFFICES ASSUME IInv, [Next]_vars PROVE Abs!Next \/ UNCHANGED Abs!vars
  OBVIOUS
<1>1. CASE UNCHANGED vars
  BY <1>1 DEF vars, Abs!vars, Wanted, Readers, Writers, At
<1>2. ASSUME NEW t \in Threads, Request(t) PROVE Abs!Next
  BY <1>2, RequestRefines DEF Abs!Next
<1>3. ASSUME NEW t \in Threads, Release(t) PROVE UNCHANGED Abs!vars
  BY <1>3, StutterRefines
     DEF Release, PCs, Entering, WantRead, WantWrite, HoldRead, HoldWrite
<1>4. ASSUME NEW t \in Threads, TakeMutex(t) PROVE UNCHANGED Abs!vars
  BY <1>4, StutterRefines
     DEF TakeMutex, AfterMutex, PCs, Entering, Waiting, Locked,
         WantRead, WantWrite, HoldRead, HoldWrite
<1>5. ASSUME NEW t \in Threads, SpuriousWakeup(t) PROVE UNCHANGED Abs!vars
  BY <1>5 DEF SpuriousWakeup, Abs!vars, Wanted, Readers, Writers, At
<1>6. ASSUME NEW t \in Threads, RTest(t) \/ WTest(t)
      PROVE  Abs!Next \/ UNCHANGED Abs!vars
  BY <1>6, RTestRefines, WTestRefines DEF Abs!Next, Abs!Grant
<1>7. ASSUME NEW t \in Threads, RDec(t) \/ WClr(t) PROVE Abs!Next
  BY <1>7, UnlockRefines DEF Abs!Next
<1> QED
  BY <1>1, <1>2, <1>3, <1>4, <1>5, <1>6, <1>7 DEF Next, Inside

LEMMA InitRefines == Init => Abs!Init
  BY DEF Init, Abs!Init, Wanted, Readers, Writers, At,
         WantRead, WantWrite, HoldRead, HoldWrite

\* rdwr_lock.c grants the lock only as the specification allows, for any
\* finite set of threads.
THEOREM LockRefines == Spec => Abs!SafeSpec
  BY InitRefines, StepRefines, LockInvariant, PTL DEF Spec, Abs!SafeSpec
=============================================================================
