--------------------------- MODULE GetnotifyProofs ---------------------------
(***************************************************************************)
(* Requests for notifications beside changing registrations, for any       *)
(* finite set of requests, APPs and NPs and any length of threadarr.       *)
(***************************************************************************)
EXTENDS Getnotify, RegistryProofs

\* What the lemmas of module RegistryProofs are about; its TypeOK knows no exit.
Sound == nj # "exiting" => IInv

\* What is known of a thread from where it is.
Placed == \A r \in Requests :
             /\ pc[r] = "ask" => ~stale[r] /\ ~torn[r]
             /\ pc[r] \in {"event", "kill"} => count[r] # 0
             /\ pc[r] = "connect" => ask[r].type = "B"
             /\ pc[r] = "fault" => nj = "crashed"

\* Every file is somebody's, and a request of type "N" that is over recorded its own.
FilesKnown ==
    /\ \A a \in files : \E r \in Asked : App(r) = a
    /\ \A r \in Asked : pc[r] = "done" /\ ask[r].type = "N" => App(r) \in pidfile

\* What a steady request has found is still there, and what it searches has not changed.
SteadyKept == \A r \in Requests : steady[r] => IsRegistered(r) /\ ~stale[r] /\ ~torn[r]

GInv == GTypeOK /\ Sound /\ Placed /\ FilesKnown /\ FilesRemoved /\ SteadyKept /\ SteadySafe

-----------------------------------------------------------------------------
\* The registry does not notice what becomes of the server.
LEMMA RegistryLeftAlone ==
  ASSUME Sound, UNCHANGED registry, nj' = nj \/ nj = "alive",
         nj' \in {"alive", "crashed", "exiting"}
  PROVE  Sound'
<1> SUFFICES ASSUME nj' # "exiting" PROVE IInv'
  BY DEF Sound
<1>1. IInv
  BY DEF Sound
<1>2. UNCHANGED <<np_hash, app_count, app_hash, np_list, np_count>> /\ nj' \in {"alive", "crashed"}
  BY DEF registry
<1> QED
  BY <1>1, <1>2 DEF IInv, TypeOK, NpCountMatches, NoDangling, HashOrder,
                    AppCountAtLeast, Members, Registered

\* Who has asked.
LEMMA AskedIs ==
  ASSUME GTypeOK, NEW r \in Asked
  PROVE  /\ r \in Requests /\ ask[r] \in Asks
         /\ App(r) \in Apps /\ Np(r) \in NPs
         /\ ask[r].count \in Nat /\ ask[r].type \in {"B", "N"}
<1>1. r \in Requests /\ ask[r] \in Asks
  BY DEF Asked, GTypeOK
<1> QED
  BY <1>1, GetnotifyAssumption DEF Asks, App, Np

\* A thread that was started goes to another place: nobody else is asked.
LEMMA AskedStays ==
  ASSUME GTypeOK, NEW r \in Asked, NEW place \in PCs \ {"ask"}, Goto(r, place)
  PROVE  /\ Asked' = Asked
         /\ pc' \in [Requests -> PCs]
         /\ \A q \in Requests : pc'[q] = IF q = r THEN place ELSE pc[q]
BY DEF Asked, GTypeOK, Goto

\* A step of one thread that writes no file, counts nothing down and leaves the
\* history alone; it may end a search.
Steps(r, place) ==
    /\ Goto(r, place)
    /\ torn' \in {torn, [torn EXCEPT ![r] = FALSE]}
    /\ UNCHANGED <<registry, ask, stale, steady, files, filefd, written, lost, signals, listening>>

LEMMA ThreadStep ==
  ASSUME GInv, NEW r \in Asked, NEW place \in PCs \ {"ask", "fault", "event", "kill"},
         Steps(r, place), UNCHANGED nj, nj \in {"alive", "exiting"},
         nj = "alive" \/ place # "done",
         handle' \in NPs \cup {NULL}, getnotify' \in [Requests -> NPs \cup {NULL}],
         count' \in [Requests -> Nat], \A q \in Requests : q # r => count'[q] = count[q],
         pidfile' \in SUBSET Apps, pidfile \subseteq pidfile',
         place = "connect" => ask[r].type = "B",
         place = "done" => App(r) \in pidfile' \/ ask[r].type = "B"
  PROVE  GInv'
<1> USE DEF GInv, Steps
<1>1. /\ Asked' = Asked /\ pc' \in [Requests -> PCs]
      /\ \A q \in Requests : pc'[q] = IF q = r THEN place ELSE pc[q]
  BY AskedStays
<1>2. \A q \in Requests : App(q)' = App(q) /\ Np(q)' = Np(q) /\ IsRegistered(q)' = IsRegistered(q)
  BY <1>1 DEF App, Np, IsRegistered, registry
<1>0. /\ torn' \in [Requests -> BOOLEAN]
      /\ \A q \in Requests : torn'[q] => torn[q]
  BY DEF GTypeOK
<1>3. GTypeOK'
  BY <1>0, <1>1 DEF GTypeOK
<1>4. Sound'
  BY RegistryLeftAlone DEF GTypeOK
<1>5. Placed'
  BY <1>0, <1>1 DEF Placed, Asked
<1>6. FilesKnown'
  BY <1>1, <1>2, AskedIs DEF FilesKnown, Asked
<1>7. FilesRemoved'
  BY <1>1, <1>2 DEF FilesRemoved, Asked
<1>8. SteadyKept'
  BY <1>0, <1>1, <1>2 DEF SteadyKept
<1>9. SteadySafe'
  BY <1>1, <1>2 DEF SteadySafe
<1> QED
  BY <1>3, <1>4, <1>5, <1>6, <1>7, <1>8, <1>9

\* A thread that follows a bad pointer: then its APP is not steady, or there is no "count".
LEMMA FaultStep ==
  ASSUME GInv, NEW r \in Asked, nj = "alive", Fault(r), ~steady[r] \/ Np(r) \notin WithCount,
         UNCHANGED <<registry, handle, thread, output, pidfile, listening>>
  PROVE  GInv'
<1> USE DEF GInv, Fault, thread, output
<1>1. /\ Asked' = Asked /\ pc' \in [Requests -> PCs]
      /\ \A q \in Requests : pc'[q] = IF q = r THEN "fault" ELSE pc[q]
  BY AskedStays DEF PCs
<1>2. \A q \in Requests : App(q)' = App(q) /\ Np(q)' = Np(q) /\ IsRegistered(q)' = IsRegistered(q)
  BY <1>1 DEF App, Np, IsRegistered, registry
<1>3. GTypeOK'
  BY <1>1 DEF GTypeOK
<1>4. Sound'
  BY RegistryLeftAlone DEF GTypeOK
<1>5. Placed'
  BY <1>1 DEF Placed, Asked
<1>6. FilesKnown'
  BY <1>1, <1>2, AskedIs DEF FilesKnown, Asked
<1>7. FilesRemoved'
  BY <1>1, <1>2 DEF FilesRemoved, Asked
<1>8. SteadyKept'
  BY <1>1, <1>2 DEF SteadyKept
<1>9. SteadySafe'
  BY <1>1, <1>2 DEF SteadySafe, Placed
<1> QED
  BY <1>3, <1>4, <1>5, <1>6, <1>7, <1>8, <1>9

\* The server exits and removes what is recorded.
LEMMA ExitStep ==
  ASSUME GInv, nj = "alive", Exit,
         UNCHANGED <<registry, handle, pc, thread, pidfile, listening>>
  PROVE  GInv'
<1> USE DEF GInv, Exit, thread
<1>1. Asked' = Asked
  BY DEF Asked
<1>2. \A q \in Requests : App(q)' = App(q) /\ Np(q)' = Np(q) /\ IsRegistered(q)' = IsRegistered(q)
  BY <1>1 DEF App, Np, IsRegistered, registry
<1>3. GTypeOK'
  BY <1>1 DEF GTypeOK
<1>4. Sound'
  BY RegistryLeftAlone DEF GTypeOK
<1>5. Placed'
  BY <1>1 DEF Placed, Asked
<1>6. FilesKnown'
  BY <1>1, <1>2 DEF FilesKnown, Asked
<1>7. FilesRemoved'
  <2> SUFFICES ASSUME NEW a \in files \ pidfile
               PROVE  \E r \in Asked : App(r) = a /\ (pc[r] # "done" \/ ask[r].type = "B")
    BY <1>1, <1>2 DEF FilesRemoved, Asked
  <2>1. PICK r \in Asked : App(r) = a
    BY DEF FilesKnown
  <2> QED
    BY <2>1, AskedIs DEF FilesKnown
<1>8. SteadyKept'
  BY <1>1, <1>2 DEF SteadyKept
<1>9. SteadySafe'
  BY <1>1, <1>2 DEF SteadySafe
<1> QED
  BY <1>3, <1>4, <1>5, <1>6, <1>7, <1>8, <1>9

-----------------------------------------------------------------------------
(* A lemma for every action. *)

LEMMA AskStep ==
  ASSUME GInv, NEW r \in Requests, Ask(r)
  PROVE  GInv'
<1> USE DEF GInv, Ask, At, output
<1>1. PICK q \in Asks : ask' = [ask EXCEPT ![r] = q]
  OBVIOUS
<1>2. r \notin Asked /\ ~stale[r] /\ ~torn[r] /\ nj = "alive"
  BY DEF Asked, Placed
<1>3. PICK place \in {"find", "fault"} :
         /\ Goto(r, place)
         /\ nj' = (IF place = "fault" THEN "crashed" ELSE nj)
         /\ place = "fault" => Cardinality(Asked) >= APPLIMIT
  BY DEF Fault
<1>4. /\ pc' \in [Requests -> PCs] /\ Asked' = Asked \cup {r}
      /\ \A p \in Requests : pc'[p] = IF p = r THEN place ELSE pc[p]
  BY <1>3 DEF GTypeOK, Goto, PCs, Asked
<1>5. /\ ask' \in [Requests -> Asks \cup {NoAsk}] /\ ask'[r] = q
      /\ \A p \in Requests : p # r => ask'[p] = ask[p]
  BY <1>1 DEF GTypeOK
<1>6. /\ steady' \in [Requests -> BOOLEAN] /\ steady'[r] = IsRegistered(r)'
      /\ \A p \in Requests : p # r => steady'[p] = steady[p]
  <2>1. IsRegistered(r)' \in BOOLEAN
    BY DEF IsRegistered
  <2> QED
    BY <2>1 DEF GTypeOK
<1>7. \A p \in Requests : p # r => /\ App(p)' = App(p) /\ Np(p)' = Np(p)
                                   /\ IsRegistered(p)' = IsRegistered(p)
  BY <1>4, <1>5 DEF App, Np, IsRegistered, registry
<1>8. GTypeOK'
  BY <1>3, <1>4, <1>5, <1>6 DEF GTypeOK
<1>9. Sound'
  BY <1>3, RegistryLeftAlone DEF GTypeOK
<1>10. Placed'
  BY <1>2, <1>3, <1>4, <1>5 DEF Placed
<1>11. FilesKnown'
  BY <1>2, <1>3, <1>4, <1>5, <1>7 DEF FilesKnown, Asked
<1>12. FilesRemoved'
  BY <1>2, <1>3 DEF FilesRemoved
<1>13. SteadyKept'
  BY <1>2, <1>6, <1>7 DEF SteadyKept
<1>14. SteadySafe'
  <2>1. ASSUME place = "fault" PROVE ~(Cardinality(Asked') <= APPLIMIT)
    <3>1. IsFiniteSet(Asked)
      BY GetnotifyAssumption, FS_Subset DEF Asked
    <3>2. Cardinality(Asked) \in Nat /\ Cardinality(Asked') = Cardinality(Asked) + 1
      BY <1>2, <1>4, <3>1, FS_AddElement, FS_CardinalityType
    <3> QED
      BY <1>3, <2>1, <3>2, GetnotifyAssumption
  <2>2. \A p \in Requests : pc[p] # "fault"
    BY <1>2 DEF Placed
  <2> QED
    BY <1>4, <2>1, <2>2 DEF SteadySafe
<1> QED
  BY <1>8, <1>9, <1>10, <1>11, <1>12, <1>13, <1>14

LEMMA ListenStep ==
  ASSUME GInv, NEW r \in Requests, Listen(r)
  PROVE  GInv'
<1> USE DEF GInv, Listen, thread, output
<1>1. Asked' = Asked /\ App(r) \in Apps
  BY AskedIs DEF Asked
<1>2. \A q \in Requests : App(q)' = App(q) /\ Np(q)' = Np(q) /\ IsRegistered(q)' = IsRegistered(q)
  BY <1>1 DEF App, Np, IsRegistered, registry
<1>3. GTypeOK'
  BY <1>1 DEF GTypeOK
<1>4. Sound'
  BY RegistryLeftAlone DEF GTypeOK
<1>5. Placed' /\ SteadyKept' /\ SteadySafe'
  BY <1>1, <1>2 DEF Placed, SteadyKept, SteadySafe
<1>6. FilesKnown' /\ FilesRemoved'
  BY <1>1, <1>2 DEF FilesKnown, FilesRemoved, Asked
<1> QED
  BY <1>3, <1>4, <1>5, <1>6

\* The steps of a thread that only leads from one place to the next.
LEMMA GoesOn ==
  ASSUME GInv, NEW r \in Asked,
         Find(r) \/ GetReg(r) \/ AppendRequest(r) \/ Open(r) \/ Dlsym(r) \/ Record(r) \/ Connect(r)
  PROVE  GInv'
<1> USE DEF GInv, At, thread, output, PCs
<1>1. GTypeOK /\ ask[r].type \in {"B", "N"} /\ ask[r].count \in Nat /\ App(r) \in Apps
  BY AskedIs
<1>2. CASE Find(r)
  <2>1. CASE Searched(r, "getreg")
    BY <1>1, <1>2, <2>1, ThreadStep DEF Find, Searched, Steps, GTypeOK
  <2>2. CASE Searched(r, Caller(r))
    <3>1. Caller(r) \in {"record", "connect"} /\ (Caller(r) = "connect" => ask[r].type = "B")
      BY <1>1 DEF Caller
    <3> QED
      BY <1>1, <1>2, <2>2, <3>1, ThreadStep DEF Find, Searched, Steps, GTypeOK
  <2>3. CASE torn[r] /\ Fault(r) /\ UNCHANGED torn
    BY <1>2, <2>3, FaultStep DEF Find, SteadyKept, Asked
  <2> QED
    BY <1>2, <2>1, <2>2, <2>3 DEF Find
<1>3. CASE GetReg(r)
  <2>1. CASE Searched(r, "append")
    BY <1>1, <1>3, <2>1, ThreadStep DEF GetReg, Searched, Steps, GTypeOK
  <2>2. CASE (~IsRegistered(r) \/ torn[r]) /\ Fault(r) /\ UNCHANGED torn
    BY <1>3, <2>2, FaultStep DEF GetReg, SteadyKept, Asked
  <2> QED
    BY <1>3, <2>1, <2>2 DEF GetReg
<1>4. CASE AppendRequest(r)
  <2>1. CASE Goto(r, "open") /\ UNCHANGED nj
    BY <1>1, <1>4, <2>1, ThreadStep DEF AppendRequest, Steps, GTypeOK
  <2>2. CASE stale[r] /\ Fault(r)
    BY <1>1, <1>4, <2>2, FaultStep DEF AppendRequest, SteadyKept, Asked
  <2> QED
    BY <1>4, <2>1, <2>2 DEF AppendRequest
<1>5. CASE Open(r)
  <2>1. CASE Searched(r, "dlsym")
    <3>1. handle' \in NPs \cup {NULL}
      BY <1>1, <1>5, AskedIs DEF Open, GTypeOK
    <3> QED
      BY <1>1, <1>5, <2>1, <3>1, ThreadStep DEF Open, Searched, Steps, GTypeOK
  <2>2. CASE (Np(r) \notin WithCount \/ torn[r]) /\ Fault(r) /\ UNCHANGED <<handle, torn>>
    BY <1>5, <2>2, FaultStep DEF Open, SteadyKept, Asked
  <2> QED
    BY <1>5, <2>1, <2>2 DEF Open
<1>6. CASE Dlsym(r)
  <2>1. CASE handle = NULL
    BY <1>6, <2>1, ExitStep DEF Dlsym
  <2>2. CASE handle # NULL
    BY <1>1, <1>6, <2>2, ThreadStep DEF Dlsym, Steps, GTypeOK
  <2> QED
    BY <2>1, <2>2
<1>7. CASE Record(r)
  BY <1>1, <1>7, ThreadStep DEF Record, Steps, GTypeOK
<1>8. CASE Connect(r)
  <2>1. CASE App(r) \in listening
    <3>1. ask[r].type = "B"
      BY <1>8 DEF Connect, Placed, Asked
    <3> QED
      BY <1>1, <1>8, <2>1, <3>1, ThreadStep DEF Connect, Steps, GTypeOK
  <2>2. CASE App(r) \notin listening
    BY <1>8, <2>2, ExitStep DEF Connect
  <2> QED
    BY <2>1, <2>2
<1> QED
  BY <1>2, <1>3, <1>4, <1>5, <1>6, <1>7, <1>8

\* The head of the loop; a thread that finds it over goes on.
LEMMA LoopStep ==
  ASSUME GInv, NEW r \in Asked, Loop(r)
  PROVE  GInv'
<1> USE DEF GInv, Loop, StillAt, thread
<1>1. App(r) \in Apps /\ ask[r].type \in {"B", "N"}
  BY AskedIs
<1>2. CASE count[r] = 0
  <2>1. Caller(r) \in {"record", "connect"} /\ (Caller(r) = "connect" => ask[r].type = "B")
    BY <1>1 DEF Caller
  <2> QED
    BY <1>1, <1>2, <2>1, ThreadStep DEF Steps, GTypeOK, PCs
<1>3. CASE count[r] # 0
  <2>1. /\ Asked' = Asked /\ pc' \in [Requests -> PCs]
        /\ \A q \in Requests : pc'[q] = IF q = r THEN "event" ELSE pc[q]
    BY <1>3, AskedStays DEF PCs
  <2>2. /\ files' \in {files, files \cup {App(r)}}
        /\ filefd' \in [Requests -> BOOLEAN]
    BY <1>3 DEF GTypeOK
  <2>3. \A q \in Requests : App(q)' = App(q) /\ Np(q)' = Np(q) /\ IsRegistered(q)' = IsRegistered(q)
    BY <2>1 DEF App, Np, IsRegistered, registry
  <2>4. GTypeOK'
    BY <1>1, <2>1, <2>2 DEF GTypeOK
  <2>5. Sound'
    BY RegistryLeftAlone DEF GTypeOK
  <2>6. Placed' /\ SteadyKept' /\ SteadySafe'
    BY <1>3, <2>1, <2>3 DEF Placed, SteadyKept, SteadySafe, Asked
  <2>7. FilesKnown'
    BY <2>1, <2>2, <2>3 DEF FilesKnown, Asked
  <2>8. FilesRemoved'
    BY <2>1, <2>2, <2>3 DEF FilesRemoved, Asked
  <2> QED
    BY <2>4, <2>5, <2>6, <2>7, <2>8
<1> QED
  BY <1>2, <1>3

LEMMA EventStep ==
  ASSUME GInv, NEW r \in Requests, Event(r)
  PROVE  GInv'
<1> USE DEF GInv, Event, StillAt, thread
<1>1. r \in Asked /\ App(r) \in Apps
  BY AskedIs DEF Asked
<1>2. /\ Asked' = Asked /\ pc' \in [Requests -> PCs]
      /\ \A q \in Requests : pc'[q] = IF q = r THEN "kill" ELSE pc[q]
  BY <1>1, AskedStays DEF PCs
<1>3. \A q \in Requests : App(q)' = App(q) /\ Np(q)' = Np(q) /\ IsRegistered(q)' = IsRegistered(q)
  BY <1>2 DEF App, Np, IsRegistered, registry
<1>4. GTypeOK'
  <2>1. written' \in [Apps -> Nat] /\ lost' \in [Apps -> Nat]
    BY <1>1 DEF GTypeOK
  <2> QED
    BY <1>1, <1>2, <2>1 DEF GTypeOK
<1>5. Sound'
  BY RegistryLeftAlone DEF GTypeOK
<1>6. Placed' /\ SteadyKept' /\ SteadySafe'
  BY <1>2, <1>3 DEF Placed, SteadyKept, SteadySafe, Asked
<1>7. FilesKnown' /\ FilesRemoved'
  BY <1>2, <1>3 DEF FilesKnown, FilesRemoved, Asked
<1> QED
  BY <1>4, <1>5, <1>6, <1>7

\* The loop counts down, and is never below zero.
LEMMA KillStep ==
  ASSUME GInv, NEW r \in Asked, Kill(r)
  PROVE  GInv'
<1> USE DEF GInv, Kill, StillAt, thread
<1>1. App(r) \in Apps
  BY AskedIs
<1>2. /\ Asked' = Asked /\ pc' \in [Requests -> PCs]
      /\ \A q \in Requests : pc'[q] = IF q = r THEN "loop" ELSE pc[q]
  BY AskedStays DEF PCs
<1>3. \A q \in Requests : App(q)' = App(q) /\ Np(q)' = Np(q) /\ IsRegistered(q)' = IsRegistered(q)
  BY <1>2 DEF App, Np, IsRegistered, registry
<1>4. /\ count' \in [Requests -> Nat]
      /\ \A q \in Requests : q # r => count'[q] = count[q]
  <2>1. count[r] \in Nat \ {0}
    BY DEF GTypeOK, Placed, Asked
  <2>2. count[r] - 1 \in Nat
    BY <2>1
  <2> QED
    BY <2>2 DEF GTypeOK
<1>5. GTypeOK'
  BY <1>1, <1>2, <1>4 DEF GTypeOK
<1>6. Sound'
  BY RegistryLeftAlone DEF GTypeOK
<1>7. Placed' /\ SteadyKept' /\ SteadySafe'
  BY <1>2, <1>3, <1>4 DEF Placed, SteadyKept, SteadySafe, Asked
<1>8. FilesKnown' /\ FilesRemoved'
  BY <1>2, <1>3 DEF FilesKnown, FilesRemoved, Asked
<1> QED
  BY <1>5, <1>6, <1>7, <1>8

\* The registrations change: no list dangles, so a steady request loses nothing.
LEMMA RegistrationStep ==
  ASSUME GInv, Registration
  PROVE  GInv'
<1> USE DEF GInv, Registration, output
<1>1. nj = "alive"
  BY DEF Next, RegisterNp, UnregisterNp, RegisterApp, UnregisterApp, UnregisterWholeApp
<1>2. IInv' /\ nj' \in {"alive", "crashed"}
  <2>1. IInv'
    BY <1>1, NextKeepsIInv DEF Sound
  <2> QED
    BY <2>1 DEF IInv, TypeOK
<1>3. Asked' = Asked /\ \A q \in Requests : App(q)' = App(q) /\ Np(q)' = Np(q)
  BY DEF Asked, App, Np
<1>4. \A q \in Requests :
         IsRegistered(q)' \in BOOLEAN /\ Freed(q) \in BOOLEAN /\ Disturbed(q) \in BOOLEAN
  BY DEF IsRegistered, Freed, Disturbed
<1>5. /\ stale' \in [Requests -> BOOLEAN] /\ steady' \in [Requests -> BOOLEAN]
      /\ torn' \in [Requests -> BOOLEAN]
      /\ \A q \in Requests : torn'[q] = (torn[q] \/ Disturbed(q))
      /\ \A q \in Requests : stale'[q] = (stale[q] \/ Freed(q))
      /\ \A q \in Requests : steady'[q] = (steady[q] /\ IsRegistered(q)' /\ ~Disturbed(q))
  BY <1>4 DEF GTypeOK
<1>6. GTypeOK'
  BY <1>2, <1>3, <1>5 DEF GTypeOK
<1>7. Sound'
  BY <1>2 DEF Sound
<1>8. Placed'
  BY <1>1, <1>5 DEF Placed, Freed, Disturbed
<1>9. FilesKnown' /\ FilesRemoved'
  BY <1>1, <1>2, <1>3 DEF FilesKnown, FilesRemoved, Asked
<1>10. SteadyKept'
  <2> SUFFICES ASSUME NEW q \in Requests, steady'[q]
               PROVE  IsRegistered(q)' /\ ~stale'[q] /\ ~torn'[q]
    BY DEF SteadyKept
  <2>1. steady[q] /\ IsRegistered(q)' /\ ~stale[q] /\ ~torn[q] /\ ~Disturbed(q)
    BY <1>5 DEF SteadyKept
  <2>2. q \in Asked /\ Np(q) \in NPs /\ App(q) \in Apps /\ Np(q) \in np_list'[App(q)]
    BY <1>3, <2>1, AskedIs DEF IsRegistered
  <2>3. Np(q) \in np_hash'
    BY <1>2, <2>2, RegistryAssumption DEF IInv, NoDangling
  <2>4. ~Freed(q)
    BY <2>1, <2>3 DEF Freed
  <2> QED
    BY <1>5, <2>1, <2>4
<1>11. SteadySafe'
  BY <1>1 DEF SteadySafe, Placed
<1> QED
  BY <1>6, <1>7, <1>8, <1>9, <1>10, <1>11

-----------------------------------------------------------------------------
LEMMA GInit_GInv == GInit => GInv
<1> SUFFICES ASSUME GInit PROVE GInv
  OBVIOUS
<1>1. nj = "alive" /\ IInv
  BY InitIInv DEF GInit, Init
<1>2. Asked = {}
  BY DEF GInit, Asked
<1>3. GTypeOK
  BY <1>1, <1>2 DEF GInit, GTypeOK, PCs
<1>4. Placed /\ FilesKnown /\ FilesRemoved /\ SteadyKept /\ SteadySafe
  BY <1>1, <1>2 DEF GInit, Placed, FilesKnown, FilesRemoved, SteadyKept, SteadySafe
<1> QED
  BY <1>1, <1>3, <1>4 DEF GInv, Sound

LEMMA GNext_GInv == GInv /\ [GNext]_gvars => GInv'
<1> SUFFICES ASSUME GInv, [GNext]_gvars PROVE GInv'
  OBVIOUS
<1>1. CASE Registration
  BY <1>1, RegistrationStep
<1>2. CASE Sigint
  BY <1>2, ExitStep DEF Sigint
<1>3. ASSUME NEW r \in Requests, Ask(r) \/ Listen(r) \/ Event(r) PROVE GInv'
  BY <1>3, AskStep, ListenStep, EventStep
<1>4. ASSUME NEW r \in Requests, Thread(r) PROVE GInv'
  <2>1. r \in Asked
    BY <1>4 DEF Thread, Find, GetReg, AppendRequest, Open, Dlsym, Loop, Kill, Record, Connect,
                At, StillAt, Asked
  <2> QED
    BY <1>4, <2>1, GoesOn, LoopStep, KillStep DEF Thread
<1>5. CASE UNCHANGED gvars
  <2> USE <1>5 DEF gvars, thread, output, GInv
  <2>1. Asked' = Asked
    BY DEF Asked
  <2>2. \A q \in Requests : App(q)' = App(q) /\ Np(q)' = Np(q) /\ IsRegistered(q)' = IsRegistered(q)
    BY <2>1 DEF App, Np, IsRegistered, registry
  <2>3. GTypeOK'
    BY <2>1 DEF GTypeOK
  <2>4. Sound'
    BY RegistryLeftAlone DEF GTypeOK
  <2>5. Placed' /\ SteadyKept' /\ SteadySafe'
    BY <2>1, <2>2 DEF Placed, SteadyKept, SteadySafe
  <2>6. FilesKnown' /\ FilesRemoved'
    BY <2>1, <2>2 DEF FilesKnown, FilesRemoved, Asked
  <2> QED
    BY <2>3, <2>4, <2>5, <2>6
<1> QED
  BY <1>1, <1>2, <1>3, <1>4, <1>5 DEF GNext

\* The inductive invariant holds in every reachable state.
THEOREM GetnotifyInvariant == GSpec => []GInv
BY GInit_GInv, GNext_GInv, PTL DEF GSpec

\* Threads, files and counters are what they are meant to be; no request counts its
\* notifications below zero.
THEOREM GetnotifyTypeOK == GSpec => []GTypeOK
<1>1. GInv => GTypeOK
  BY DEF GInv
<1> QED
  BY <1>1, GetnotifyInvariant, PTL

\* nj_exit leaves no file behind but of interrupted and of blocking requests, whatever
\* requests share a file.
THEOREM GetnotifyFilesRemoved == GSpec => []FilesRemoved
<1>1. GInv => FilesRemoved
  BY DEF GInv
<1> QED
  BY <1>1, GetnotifyInvariant, PTL

\* A request does not crash the server, as long as its APP stays registered, no handler
\* changes what its thread is searching, the NP was registered with "count", and threadarr
\* has room: what was found is used after the lock was given back, and is still there.
THEOREM GetnotifySteadySafe == GSpec => []SteadySafe
<1>1. GInv => SteadySafe
  BY DEF GInv
<1> QED
  BY <1>1, GetnotifyInvariant, PTL

-----------------------------------------------------------------------------
(* Signals and notifications.                                                *)

\* Which threads have a library to call, and what they have left to do.
Started == \A r \in Requests :
              /\ pc[r] \in {"ask", "find", "getreg", "append", "open", "dlsym"} => getnotify[r] = NULL
              /\ pc[r] \in {"loop", "event", "kill"} => getnotify[r] # NULL
              /\ getnotify[r] # NULL => count[r] <= ask[r].count

SentFinite == \A a \in Apps : IsFiniteSet(Sent(a))

TInv == GInv /\ Started /\ SentFinite /\ Tally

LEMMA SentIs ==
  ASSUME NEW a, NEW x
  PROVE  x \in Sent(a) <=> \E r \in Asked : App(r) = a /\ \E k \in Notified(r) : x = <<r, k>>
BY DEF Sent

LEMMA OnTheirWayFinite ==
  ASSUME NEW a
  PROVE  IsFiniteSet(OnTheirWay(a))
<1>1. OnTheirWay(a) \in SUBSET Requests
  BY DEF OnTheirWay, Asked
<1> QED
  BY <1>1, GetnotifyAssumption, FS_Subset

\* A step that writes nothing and signals nobody.
LEMMA NothingSent ==
  ASSUME GTypeOK, Tally, SentFinite, UNCHANGED <<written, lost, signals>>, Asked \subseteq Asked',
         \A q \in Asked : /\ App(q)' = App(q) /\ Notified(q)' = Notified(q)
                          /\ pc'[q] = "kill" <=> pc[q] = "kill",
         \A q \in Asked' \ Asked : Notified(q)' = {} /\ pc'[q] # "kill"
  PROVE  Tally' /\ SentFinite'
<1>1. ASSUME NEW a \in Apps PROVE Sent(a)' = Sent(a) /\ OnTheirWay(a)' = OnTheirWay(a)
  <2>1. Sent(a)' \subseteq Sent(a)
    BY DEF Sent
  <2>2. Sent(a) \subseteq Sent(a)'
    BY DEF Sent
  <2>3. OnTheirWay(a)' = OnTheirWay(a)
    BY DEF OnTheirWay
  <2> QED
    BY <2>1, <2>2, <2>3
<1> QED
  BY <1>1 DEF Tally, SentFinite

\* A step of one thread that is already asked, and neither comes from nor goes to a signal.
LEMMA ThreadTally ==
  ASSUME TInv, NEW r \in Asked, NEW place \in PCs \ {"ask", "kill"},
         Goto(r, place), pc[r] # "kill", UNCHANGED <<ask, written, lost, signals>>,
         \A q \in Requests \ {r} : getnotify'[q] = getnotify[q] /\ count'[q] = count[q],
         Notified(r)' = Notified(r),
         place \in {"find", "getreg", "append", "open", "dlsym"} => getnotify'[r] = NULL,
         place \in {"loop", "event"} => getnotify'[r] # NULL,
         getnotify'[r] # NULL => count'[r] <= ask[r].count
  PROVE  Started' /\ SentFinite' /\ Tally'
<1>1. /\ Asked' = Asked /\ r \in Requests
      /\ \A q \in Requests : pc'[q] = IF q = r THEN place ELSE pc[q]
  BY AskedStays DEF TInv, GInv, Asked
<1>2. Started'
  BY <1>1 DEF Started, TInv
<1>3. \A q \in Asked : App(q)' = App(q) /\ Notified(q)' = Notified(q)
  BY DEF App, Notified, Asked
<1>4. Tally' /\ SentFinite'
  BY <1>1, <1>3, NothingSent DEF TInv, GInv, Asked
<1> QED
  BY <1>2, <1>4

\* A step that moves no thread.
LEMMA StillTally ==
  ASSUME TInv, UNCHANGED <<pc, ask, getnotify, count, written, lost, signals>>
  PROVE  Started' /\ SentFinite' /\ Tally'
<1>1. Asked' = Asked /\ \A q \in Asked : App(q)' = App(q) /\ Notified(q)' = Notified(q)
  BY DEF App, Notified, Asked
<1>2. Tally' /\ SentFinite'
  BY <1>1, NothingSent DEF TInv, GInv
<1> QED
  BY <1>2 DEF Started, TInv


LEMMA AskTally ==
  ASSUME TInv, NEW r \in Requests, Ask(r)
  PROVE  Started' /\ SentFinite' /\ Tally'
<1>1. /\ r \notin Asked /\ pc[r] = "ask" /\ getnotify[r] = NULL
      /\ UNCHANGED <<getnotify, count, written, lost, signals>>
      /\ \A q \in Requests \ {r} : ask'[q] = ask[q] /\ pc'[q] = pc[q]
      /\ pc'[r] \in {"find", "fault"}
  BY DEF TInv, GInv, GTypeOK, Started, Ask, At, Asked, Goto, Fault, output
<1>2. Asked' = Asked \cup {r} /\ Notified(r)' = {}
  BY <1>1 DEF Asked, Notified
<1>3. \A q \in Asked : /\ App(q)' = App(q) /\ Notified(q)' = Notified(q)
                       /\ pc'[q] = "kill" <=> pc[q] = "kill"
  BY <1>1 DEF App, Notified, Asked
<1>4. Tally' /\ SentFinite'
  BY <1>1, <1>2, <1>3, NothingSent DEF TInv, GInv
<1>5. Started'
  BY <1>1 DEF TInv, Started
<1> QED
  BY <1>4, <1>5

\* The thread calls the library of the handle: nothing is counted down yet.
LEMMA DlsymTally ==
  ASSUME TInv, NEW r \in Asked, Dlsym(r)
  PROVE  Started' /\ SentFinite' /\ Tally'
<1>1. CASE handle = NULL
  BY <1>1, StillTally DEF Dlsym, Exit, TInv, GInv, GTypeOK
<1>2. CASE handle # NULL
  <2>1. /\ Goto(r, "loop") /\ pc[r] = "dlsym" /\ UNCHANGED <<ask, written, lost, signals>>
        /\ getnotify' = [getnotify EXCEPT ![r] = handle]
        /\ count' = [count EXCEPT ![r] = ask[r].count]
    BY <1>2 DEF Dlsym, At, output
  <2>2. /\ getnotify'[r] = handle /\ count'[r] = ask[r].count /\ getnotify[r] = NULL
        /\ \A q \in Requests \ {r} : getnotify'[q] = getnotify[q] /\ count'[q] = count[q]
    BY <2>1 DEF TInv, GInv, GTypeOK, Started, Asked
  <2>3. ask[r].count \in Nat
    BY AskedIs DEF TInv, GInv
  <2>4. ask[r].count + 1 .. ask[r].count = {}
    BY <2>3
  <2>5. Notified(r)' = Notified(r)
    BY <1>2, <2>1, <2>2, <2>4 DEF Notified
  <2>6. count'[r] <= ask[r].count
    BY <2>2, <2>3
  <2> QED
    BY <1>2, <2>1, <2>2, <2>5, <2>6, ThreadTally DEF PCs
<1> QED
  BY <1>1, <1>2

\* What a thread does beside.
LEMMA GoesOnTally ==
  ASSUME TInv, NEW r \in Asked,
         Find(r) \/ GetReg(r) \/ AppendRequest(r) \/ Open(r) \/ Loop(r) \/ Record(r) \/ Connect(r)
  PROVE  Started' /\ SentFinite' /\ Tally'
<1>1. UNCHANGED <<ask, getnotify, count, written, lost, signals>>
  BY DEF Find, GetReg, AppendRequest, Open, Loop, Record, Connect, Exit, thread, output
<1>2. /\ r \in Requests /\ Notified(r)' = Notified(r)
      /\ getnotify[r] # NULL => count[r] <= ask[r].count
  BY <1>1 DEF Notified, Asked, TInv, Started
<1>3. CASE pc' = pc
  BY <1>1, <1>3, StillTally
<1>4. ASSUME NEW place \in PCs \ {"ask", "kill"}, Goto(r, place), pc[r] # "kill",
             place \in {"find", "getreg", "append", "open", "dlsym"} => getnotify[r] = NULL,
             place \in {"loop", "event"} => getnotify[r] # NULL
      PROVE  Started' /\ SentFinite' /\ Tally'
  BY <1>1, <1>2, <1>4, ThreadTally
<1>5. \/ pc' = pc
      \/ \E place \in PCs \ {"ask", "kill"} :
            /\ Goto(r, place) /\ pc[r] # "kill"
            /\ place \in {"find", "getreg", "append", "open", "dlsym"} => getnotify[r] = NULL
            /\ place \in {"loop", "event"} => getnotify[r] # NULL
  <2>1. CASE Find(r)
    BY <1>2, <2>1 DEF Find, At, Searched, Fault, Caller, TInv, Started, PCs
  <2>2. CASE GetReg(r)
    BY <1>2, <2>2 DEF GetReg, At, Searched, Fault, TInv, Started, PCs
  <2>3. CASE AppendRequest(r)
    BY <1>2, <2>3 DEF AppendRequest, At, Fault, TInv, Started, PCs
  <2>4. CASE Open(r)
    BY <1>2, <2>4 DEF Open, At, Searched, Fault, TInv, Started, PCs
  <2>5. CASE Loop(r)
    BY <1>2, <2>5 DEF Loop, StillAt, Caller, TInv, Started, PCs
  <2>6. CASE Record(r)
    BY <2>6 DEF Record, At, PCs
  <2>7. CASE Connect(r)
    BY <2>7 DEF Connect, At, PCs
  <2> QED
    BY <2>1, <2>2, <2>3, <2>4, <2>5, <2>6, <2>7
<1> QED
  BY <1>3, <1>4, <1>5


\* One more notification is written, or lost, than signalled.
LEMMA EventTally ==
  ASSUME TInv, NEW r \in Requests, Event(r)
  PROVE  Started' /\ SentFinite' /\ Tally'
<1>1. /\ r \in Asked /\ App(r) \in Apps /\ pc[r] = "event" /\ Goto(r, "kill")
      /\ UNCHANGED <<ask, getnotify, count, signals>>
      /\ \/ written' = [written EXCEPT ![App(r)] = @ + 1] /\ lost' = lost
         \/ lost' = [lost EXCEPT ![App(r)] = @ + 1] /\ written' = written
  BY AskedIs DEF TInv, GInv, Event, StillAt, Asked, thread
<1>2. /\ Asked' = Asked /\ \A q \in Requests : pc'[q] = IF q = r THEN "kill" ELSE pc[q]
  BY <1>1, AskedStays DEF TInv, GInv, PCs
<1>3. /\ \A q \in Asked : App(q)' = App(q) /\ Notified(q)' = Notified(q)
      /\ Started'
  BY <1>1, <1>2 DEF App, Notified, TInv, Started
<1>4. ASSUME NEW a \in Apps
      PROVE  /\ Sent(a)' = Sent(a)
             /\ OnTheirWay(a)' = OnTheirWay(a) \cup (IF a = App(r) THEN {r} ELSE {})
             /\ r \notin OnTheirWay(a)
  <2>1. Sent(a)' \subseteq Sent(a) /\ Sent(a) \subseteq Sent(a)'
    BY <1>2, <1>3 DEF Sent
  <2>2. /\ OnTheirWay(a)' = OnTheirWay(a) \cup (IF a = App(r) THEN {r} ELSE {})
        /\ r \notin OnTheirWay(a)
    BY <1>1, <1>2, <1>3 DEF OnTheirWay, Asked
  <2> QED
    BY <2>1, <2>2
<1>5. SentFinite'
  BY <1>4 DEF TInv, SentFinite
<1>6. ASSUME NEW a \in Apps
      PROVE  signals'[a] = Cardinality(Sent(a)') /\ written'[a] + lost'[a] = signals'[a] + Cardinality(OnTheirWay(a)')
  <2>1. /\ signals[a] = Cardinality(Sent(a)) /\ signals[a] \in Nat /\ written[a] \in Nat /\ lost[a] \in Nat
        /\ written[a] + lost[a] = signals[a] + Cardinality(OnTheirWay(a))
    BY DEF TInv, Tally, GInv, GTypeOK
  <2>2. IsFiniteSet(OnTheirWay(a)) /\ Cardinality(OnTheirWay(a)) \in Nat
    BY OnTheirWayFinite, FS_CardinalityType
  <2>3. CASE a = App(r)
    <3>1. Cardinality(OnTheirWay(a)') = Cardinality(OnTheirWay(a)) + 1
      <4>1. OnTheirWay(a)' = OnTheirWay(a) \cup {r} /\ r \notin OnTheirWay(a)
        BY <1>4, <2>3
      <4> HIDE DEF OnTheirWay
      <4> QED
        BY <4>1, <2>2, FS_AddElement
    <3>2. \/ written'[a] = written[a] + 1 /\ lost'[a] = lost[a]
          \/ lost'[a] = lost[a] + 1 /\ written'[a] = written[a]
      BY <1>1, <2>3 DEF TInv, GInv, GTypeOK
    <3> QED
      BY <1>1, <1>4, <2>1, <2>2, <3>1, <3>2
  <2>4. CASE a # App(r)
    <3>1. OnTheirWay(a)' = OnTheirWay(a) /\ written'[a] = written[a] /\ lost'[a] = lost[a]
      BY <1>1, <1>4, <2>4 DEF TInv, GInv, GTypeOK
    <3> QED
      BY <1>1, <1>4, <2>1, <3>1
  <2> QED
    BY <2>3, <2>4
<1> QED
  BY <1>3, <1>5, <1>6 DEF Tally

\* The notification that was on its way is signalled: it is the next the request counts.
LEMMA KillTally ==
  ASSUME TInv, NEW r \in Asked, Kill(r)
  PROVE  Started' /\ SentFinite' /\ Tally'
<1>1. /\ r \in Requests /\ App(r) \in Apps /\ pc[r] = "kill" /\ Goto(r, "loop")
      /\ UNCHANGED <<ask, getnotify, written, lost>>
      /\ signals' = [signals EXCEPT ![App(r)] = @ + 1]
      /\ count' = [count EXCEPT ![r] = @ - 1]
  BY AskedIs DEF TInv, GInv, Kill, StillAt, Asked
<1>2. /\ Asked' = Asked /\ \A q \in Requests : pc'[q] = IF q = r THEN "loop" ELSE pc[q]
  BY <1>1, AskedStays DEF TInv, GInv, PCs
<1>3. /\ count[r] \in Nat /\ count[r] # 0 /\ ask[r].count \in Nat
      /\ count[r] <= ask[r].count /\ getnotify[r] # NULL
  BY <1>1, AskedIs DEF TInv, GInv, GTypeOK, Placed, Started
<1>4. /\ count'[r] = count[r] - 1
      /\ \A q \in Requests \ {r} : count'[q] = count[q]
  BY <1>1 DEF TInv, GInv, GTypeOK
<1>5. Started'
  <2>1. count'[r] <= ask[r].count
    BY <1>3, <1>4
  <2> QED
    BY <1>1, <1>2, <1>3, <1>4, <2>1 DEF TInv, Started
<1>6. /\ \A q \in Asked : App(q)' = App(q)
      /\ \A q \in Asked \ {r} : Notified(q)' = Notified(q)
  BY <1>1, <1>4 DEF App, Notified, Asked
<1>7. Notified(r)' = Notified(r) \cup {count[r]} /\ count[r] \notin Notified(r)
  <2>1. /\ count[r] - 1 + 1 .. ask[r].count = (count[r] + 1 .. ask[r].count) \cup {count[r]}
        /\ count[r] \notin count[r] + 1 .. ask[r].count
    BY <1>3
  <2>2. /\ Notified(r) = count[r] + 1 .. ask[r].count
        /\ Notified(r)' = count'[r] + 1 .. ask[r].count
    BY <1>1, <1>3 DEF Notified
  <2> QED
    BY <1>4, <2>1, <2>2
<1>8. ASSUME NEW a \in Apps
      PROVE  /\ Sent(a)' = Sent(a) \cup (IF a = App(r) THEN {<<r, count[r]>>} ELSE {})
             /\ <<r, count[r]>> \notin Sent(a)
             /\ OnTheirWay(a)' = OnTheirWay(a) \ (IF a = App(r) THEN {r} ELSE {})
             /\ a = App(r) => r \in OnTheirWay(a)
  <2>1. Sent(a) \subseteq Sent(a)'
    BY <1>2, <1>6, <1>7 DEF Sent
  <2>2. ASSUME NEW x \in Sent(a)' PROVE x \in Sent(a) \/ (a = App(r) /\ x = <<r, count[r]>>)
    <3>1. PICK q \in Asked : App(q) = a /\ x \in {q} \X (Notified(q)')
      BY <1>2, <1>6 DEF Sent
    <3>2. CASE q = r
      BY <1>7, <3>1, <3>2 DEF Sent
    <3>3. CASE q # r
      BY <1>6, <3>1, <3>3 DEF Sent
    <3> QED
      BY <3>2, <3>3
  <2>3. a = App(r) => <<r, count[r]>> \in Sent(a)'
    BY <1>2, <1>6, <1>7 DEF Sent
  <2>4. <<r, count[r]>> \notin Sent(a)
    BY <1>7, SentIs
  <2>5. /\ OnTheirWay(a)' = OnTheirWay(a) \ (IF a = App(r) THEN {r} ELSE {})
        /\ a = App(r) => r \in OnTheirWay(a)
    BY <1>1, <1>2, <1>6 DEF OnTheirWay, Asked
  <2>6. Sent(a)' = Sent(a) \cup (IF a = App(r) THEN {<<r, count[r]>>} ELSE {})
    BY <2>1, <2>2, <2>3
  <2> QED
    BY <2>4, <2>5, <2>6
<1>9. ASSUME NEW a \in Apps
      PROVE  /\ IsFiniteSet(Sent(a)')
             /\ signals'[a] = Cardinality(Sent(a)')
             /\ written'[a] + lost'[a] = signals'[a] + Cardinality(OnTheirWay(a)')
  <2>1. /\ signals[a] = Cardinality(Sent(a)) /\ signals[a] \in Nat /\ written[a] \in Nat /\ lost[a] \in Nat
        /\ written[a] + lost[a] = signals[a] + Cardinality(OnTheirWay(a)) /\ IsFiniteSet(Sent(a))
    BY DEF TInv, Tally, SentFinite, GInv, GTypeOK
  <2>2. IsFiniteSet(OnTheirWay(a)) /\ Cardinality(OnTheirWay(a)) \in Nat
    BY OnTheirWayFinite, FS_CardinalityType
  <2>3. CASE a = App(r)
    <3>1. Cardinality(OnTheirWay(a)') = Cardinality(OnTheirWay(a)) - 1
      BY <1>8, <2>2, <2>3, FS_RemoveElement
    <3>2. IsFiniteSet(Sent(a)') /\ Cardinality(Sent(a)') = Cardinality(Sent(a)) + 1
      BY <1>8, <2>1, <2>3, FS_AddElement
    <3>3. signals'[a] = signals[a] + 1
      BY <1>1, <2>3 DEF TInv, GInv, GTypeOK
    <3> QED
      BY <1>1, <2>1, <2>2, <3>1, <3>2, <3>3
  <2>4. CASE a # App(r)
    <3>1. OnTheirWay(a)' = OnTheirWay(a) /\ Sent(a)' = Sent(a) /\ signals'[a] = signals[a]
      BY <1>1, <1>8, <2>4 DEF TInv, GInv, GTypeOK
    <3> QED
      BY <1>1, <2>1, <3>1
  <2> QED
    BY <2>3, <2>4
<1> QED
  BY <1>5, <1>9 DEF Tally, SentFinite

LEMMA TInvInit == GInit => TInv
<1> SUFFICES ASSUME GInit PROVE TInv
  OBVIOUS
<1>1. GInv /\ Started
  BY GInit_GInv DEF GInit, Started
<1>2. ASSUME NEW a \in Apps
      PROVE  Sent(a) = {} /\ OnTheirWay(a) = {} /\ signals[a] = 0 /\ written[a] = 0 /\ lost[a] = 0
  BY DEF GInit, Asked, Sent, OnTheirWay
<1>3. SentFinite /\ Tally
  BY <1>2, FS_EmptySet DEF SentFinite, Tally
<1> QED
  BY <1>1, <1>3 DEF TInv

LEMMA TInvNext == TInv /\ [GNext]_gvars => TInv'
<1> SUFFICES ASSUME TInv, [GNext]_gvars PROVE Started' /\ SentFinite' /\ Tally'
  BY GNext_GInv DEF TInv
<1>1. CASE Registration \/ Sigint \/ UNCHANGED gvars
  BY <1>1, StillTally DEF Registration, Sigint, Exit, gvars, thread, output
<1>2. ASSUME NEW r \in Requests, Ask(r) \/ Event(r) \/ Listen(r)
      PROVE  Started' /\ SentFinite' /\ Tally'
  BY <1>2, AskTally, EventTally, StillTally DEF Listen, thread, output
<1>3. ASSUME NEW r \in Requests, Thread(r) PROVE Started' /\ SentFinite' /\ Tally'
  <2>1. r \in Asked
    BY <1>3 DEF Thread, Find, GetReg, AppendRequest, Open, Dlsym, Loop, Kill, Record, Connect,
                At, StillAt, Asked
  <2> QED
    BY <1>3, <2>1, GoesOnTally, DlsymTally, KillTally DEF Thread
<1> QED
  BY <1>1, <1>2, <1>3 DEF GNext

\* However many requests share a file: an APP is sent one signal for each notification its
\* requests have counted down, and never one that comes before its notification is written,
\* or was lost with a file that could not be opened or written.
THEOREM GetnotifyTally == GSpec => []Tally
<1>1. TInv => Tally
  BY DEF TInv
<1> QED
  BY <1>1, TInvInit, TInvNext, PTL DEF GSpec

=============================================================================
