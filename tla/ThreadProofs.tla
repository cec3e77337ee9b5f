---------------------------- MODULE ThreadProofs ----------------------------
(***************************************************************************)
(* Lifetime of the RunnableReference that a Thread object shares with its  *)
(* pthread, proved for every number of clients and of starts, with         *)
(* concurrent calls and failing pthread_create.                            *)
(***************************************************************************)
EXTENDS Thread, TLAPS

(* The Boolean part of the type invariant.                                 *)
Flags ==
  /\ outside_join \in BOOLEAN /\ object \in BOOLEAN /\ deleted \in BOOLEAN
  /\ isjoined \in BOOLEAN /\ isended \in BOOLEAN /\ iscanceldelaystart \in BOOLEAN
  /\ isinthread \in BOOLEAN /\ killsig \in BOOLEAN /\ anyway \in BOOLEAN
  /\ ran \in BOOLEAN /\ failed \in BOOLEAN

One(b) == IF b THEN 1 ELSE 0

(* The inductive invariant: the count is one for the object and one for    *)
(* the pthread that has not cleaned up, and that pthread is number tid.    *)
LifetimeInv ==
  /\ TypeOK
  /\ \A t \in Tids : t # tid => pc[t] \in {"none", "exited"}
  /\ \A t \in Tids : t > tid => pc[t] = "none"
  /\ isended <=> (tid = 0 \/ pc[tid] = "exited")
  /\ tid # 0 => pc[tid] # "none"
  /\ count = One(object) + One(~isended)
  /\ deleted <=> count = 0

LEMMA ActiveIsTid ==
  ASSUME LifetimeInv, NEW t \in Active PROVE t = tid /\ ~isended /\ tid # 0
BY StartsAssumption DEF LifetimeInv, Active, Tids, TypeOK

LEMMA LifetimeInit == Init => LifetimeInv
<1> SUFFICES ASSUME Init PROVE LifetimeInv
  OBVIOUS
<1>1. Idle \in [pc : {"idle", "join", "joining", "kill"}, t : 0..MaxStarts]
  BY StartsAssumption DEF Idle
<1>2. cl \in [Clients -> [pc : {"idle", "join", "joining", "kill"}, t : 0..MaxStarts]]
  BY <1>1 DEF Init
<1>3. /\ mode \in [Tids -> Modes] /\ pc \in [Tids -> Labels]
      /\ reclaim \in [Tids -> {"no", "detached", "joined", "twice"}]
  BY DEF Init, Modes, Labels
<1>4. Flags
  BY Zenon DEF Init, Flags
<1>5. TypeOK
  BY <1>2, <1>3, <1>4, StartsAssumption DEF Init, TypeOK, Flags
<1> QED BY <1>5 DEF Init, LifetimeInv, One, Tids

LEMMA LifetimeCall ==
  ASSUME LifetimeInv, NEW c \in Clients, Call(c) PROVE LifetimeInv'
<1> USE DEF LifetimeInv
<1>1. ASSUME NEW m \in Modes, Start(c, m) PROVE LifetimeInv'
  <2>1. isended /\ tid \in Nat /\ tid + 1 \in Tids
    BY <1>1, StartsAssumption DEF Start, AddRef, Isruning, TypeOK, Tids
  <2>2. reclaim' \in [Tids -> {"no", "detached", "joined", "twice"}]
    BY <1>1 DEF Start, AddRef, DetachOld, Reclaimed, TypeOK
  <2>3. pc' = [pc EXCEPT ![tid + 1] = "init"] /\ tid' = tid + 1 /\ ~isended'
    BY <1>1 DEF Start, AddRef, NextTid
  <2>4. mode' \in [Tids -> Modes] /\ pc' \in [Tids -> Labels]
    BY <1>1, <2>1 DEF Start, AddRef, NextTid, TypeOK, Labels
  <2>5. count' = count + 1 /\ count = One(object) /\ ~deleted /\ object
    BY <1>1, <2>1 DEF Start, AddRef, One
  <2>6. count' \in 0..2 /\ tid' \in 0..MaxStarts
    BY <2>1, <2>3, <2>5 DEF One, Tids
  <2>7. iscanceldelaystart' \in BOOLEAN /\ anyway' \in BOOLEAN
    BY <1>1 DEF Start, AddRef, PrepareDelay, TypeOK
  <2>8. cl' \in [Clients -> [pc : {"idle", "join", "joining", "kill"}, t : 0..MaxStarts]]
    BY <1>1 DEF Start, AddRef, TypeOK
  <2>9. Flags'
    BY <1>1, <2>7, Zenon DEF Start, AddRef, TypeOK, Flags
  <2>10. late' \in 0..2 /\ cancels' \subseteq Tids
    BY <1>1 DEF Start, AddRef, TypeOK
  <2>11. TypeOK'
    BY <2>2, <2>4, <2>6, <2>8, <2>9, <2>10 DEF TypeOK, Flags
  <2>12. tid' # 0 /\ pc'[tid'] = "init"
    BY <2>1, <2>3 DEF TypeOK
  <2>13. count' = One(object') + One(~isended') /\ deleted' = deleted
    BY <1>1, <2>3, <2>5 DEF Start, AddRef, One
  <2>14. ~deleted' /\ count' # 0
    BY <2>5, <2>13 DEF One
  <2>15. (isended <=> (tid = 0 \/ pc[tid] = "exited"))' /\ (tid # 0 => pc[tid] # "none")'
    BY <2>3, <2>12
  <2>16. (deleted <=> count = 0)' /\ (count = One(object) + One(~isended))'
    BY <2>13, <2>14 DEF One
  <2>17. (\A t \in Tids : t # tid => pc[t] \in {"none", "exited"})'
    BY <2>1, <2>3 DEF TypeOK, Tids
  <2>18. (\A t \in Tids : t > tid => pc[t] = "none")'
    BY <2>1, <2>3 DEF TypeOK, Tids
  <2> QED BY <2>11, <2>15, <2>16, <2>17, <2>18, Zenon
<1>2. ASSUME NEW m \in Modes, StartFails(c, m) PROVE LifetimeInv'
  <2>1. reclaim' \in [Tids -> {"no", "detached", "joined", "twice"}]
    BY <1>2 DEF StartFails, DetachOld, Reclaimed, TypeOK
  <2>2. iscanceldelaystart' \in BOOLEAN /\ anyway' \in BOOLEAN
    BY <1>2 DEF StartFails, PrepareDelay, TypeOK
  <2>3. UNCHANGED <<object, deleted, count, tid, isended, pc, mode, cl, ran, late, cancels>>
    BY <1>2 DEF StartFails
  <2>4. Flags'
    BY <1>2, <2>2, Zenon DEF StartFails, TypeOK, Flags
  <2>5. TypeOK'
    BY <2>1, <2>3, <2>4 DEF TypeOK, Flags
  <2> QED BY <2>3, <2>5
<1>3. CASE Cancel(c)
  <2>1. tid \in Tids /\ pc[tid] \notin {"none", "exited"}
    BY <1>3 DEF Cancel, Isruning, TypeOK, Tids
  <2>2. /\ pc' \in [Tids -> Labels]
        /\ \A t \in Tids : t # tid => pc'[t] = pc[t]
        /\ pc'[tid] \notin {"none", "exited"}
    BY <1>3, <2>1 DEF Cancel, TypeOK, Labels
  <2>3. TypeOK'
    BY <1>3, <2>1, <2>2 DEF Cancel, TypeOK
  <2> QED BY <1>3, <2>1, <2>2, <2>3 DEF Cancel
<1>4. CASE Join(c) \/ JoinBegin(c) \/ OutsideJoin(c) \/ Kill(c) \/ KillSend(c)
  <2>1. cl' \in [Clients -> [pc : {"idle", "join", "joining", "kill"}, t : 0..MaxStarts]]
    BY <1>4, StartsAssumption DEF Join, JoinBegin, OutsideJoin, Kill, KillSend, Idle, TypeOK
  <2>2. UNCHANGED <<outside_join, object, deleted, count, tid, isended, iscanceldelaystart,
                    isinthread, anyway, pthreads, history>>
    BY <1>4 DEF Join, JoinBegin, OutsideJoin, Kill, KillSend, ref
  <2>3. (isjoined' = isjoined \/ isjoined' = TRUE) /\ (killsig' = killsig \/ killsig' = TRUE)
    BY <1>4 DEF Join, JoinBegin, OutsideJoin, Kill, KillSend, ref
  <2>4. Flags'
    BY <2>2, <2>3, Zenon DEF TypeOK, Flags, history
  <2>5. UNCHANGED <<mode, pc, reclaim, ran, late, cancels, failed>>
    BY <2>2 DEF pthreads, history
  <2>6. TypeOK'
    BY <2>1, <2>2, <2>4, <2>5 DEF TypeOK, Flags
  <2> QED BY <2>2, <2>5, <2>6
<1>5. CASE JoinEnd(c)
  <2>1. cl' \in [Clients -> [pc : {"idle", "join", "joining", "kill"}, t : 0..MaxStarts]]
    BY <1>5, StartsAssumption DEF JoinEnd, Idle, TypeOK
  <2>2. reclaim' \in [Tids -> {"no", "detached", "joined", "twice"}]
    BY <1>5 DEF JoinEnd, Reclaimed, TypeOK
  <2>3. UNCHANGED <<outside_join, object, deleted, ref, mode, pc, history>>
    BY <1>5 DEF JoinEnd
  <2>4. TypeOK'
    BY <2>1, <2>2, <2>3 DEF TypeOK, ref, history
  <2>5. UNCHANGED <<object, deleted, count, tid, isended, pc>>
    BY <2>3 DEF ref
  <2> QED BY <2>4, <2>5
<1> QED BY <1>1, <1>2, <1>3, <1>4, <1>5 DEF Call

LEMMA LifetimeDestroy == ASSUME LifetimeInv, Destroy PROVE LifetimeInv'
<1>1. reclaim' \in [Tids -> {"no", "detached", "joined", "twice"}]
  BY DEF LifetimeInv, Destroy, DetachOld, Reclaimed, TypeOK
<1>2. count' = One(~isended) /\ (deleted' <=> count' = 0) /\ count' \in 0..2
  BY DEF LifetimeInv, Destroy, RemoveRef, One, TypeOK
<1>3. /\ UNCHANGED <<tid, isended, pc, mode, cl, history>> /\ object' = FALSE
  BY DEF Destroy
<1>4. Flags'
  BY Zenon DEF Destroy, RemoveRef, LifetimeInv, TypeOK, Flags, history
<1>5. TypeOK'
  BY <1>1, <1>2, <1>3, <1>4 DEF LifetimeInv, TypeOK, Flags, history
<1>6. count' = One(object') + One(~isended')
  BY <1>2, <1>3 DEF One
<1> QED BY <1>2, <1>3, <1>5, <1>6 DEF LifetimeInv

LEMMA LifetimeRoutine ==
  ASSUME LifetimeInv, NEW t \in Tids, Routine(t) PROVE LifetimeInv'
<1>0. t \in Active
  BY DEF Active, Routine, InitThread, TestFirst, WaitTest, WaitBlock, WaitReturn,
     TestCancel, RunBegin, RunEnd, Cleanup
<1>1. t = tid /\ ~isended /\ tid # 0
  BY <1>0, ActiveIsTid
<1>2. CASE Cleanup(t)
  <2>1. pc' = [pc EXCEPT ![tid] = "exited"] /\ isended' /\ UNCHANGED <<tid, object>>
    BY <1>1, <1>2 DEF Cleanup, Goto
  <2>2. count = One(object) + 1 /\ ~deleted
    BY <1>1 DEF LifetimeInv, One, TypeOK
  <2>3. count' = count - 1 /\ (deleted' <=> count = 1)
    BY <1>2, <2>2 DEF Cleanup, RemoveRef
  <2>4. count' = One(object) /\ (deleted' <=> count' = 0) /\ count' \in 0..2
    BY <2>2, <2>3 DEF One
  <2>5. pc' \in [Tids -> Labels] /\ pc'[tid] = "exited"
        /\ \A u \in Tids : u # tid => pc'[u] = pc[u]
    BY <1>1, <2>1 DEF LifetimeInv, TypeOK, Labels
  <2>6. TypeOK'
    BY <1>2, <2>1, <2>4, <2>5 DEF Cleanup, RemoveRef, LifetimeInv, TypeOK, history
  <2> QED BY <1>1, <2>1, <2>4, <2>5, <2>6 DEF LifetimeInv, One
<1>3. CASE ~Cleanup(t)
  <2>1. PICK label \in Labels \ {"none", "exited"} : pc' = [pc EXCEPT ![tid] = label]
    BY <1>1, <1>3 DEF Routine, InitThread, TestFirst, WaitTest, WaitBlock, WaitReturn,
       TestCancel, RunBegin, RunEnd, Goto, Labels
  <2>2. /\ pc' \in [Tids -> Labels] /\ pc'[tid] \notin {"none", "exited"}
        /\ \A u \in Tids : u # tid => pc'[u] = pc[u]
    BY <1>1, <2>1 DEF LifetimeInv, TypeOK
  <2>3. UNCHANGED <<outside_join, object, deleted, count, tid, isended, isjoined, killsig,
                    iscanceldelaystart, mode, reclaim, cl, cancels, failed>>
    BY <1>3 DEF Routine, InitThread, TestFirst, WaitTest, WaitBlock, WaitReturn,
       TestCancel, RunBegin, RunEnd, ref, history
  <2>4. /\ isinthread' = isinthread \/ isinthread' = TRUE
        /\ anyway' = anyway \/ anyway' = FALSE
        /\ ran' = ran \/ ran' = TRUE
        /\ late' = late \/ (late < 2 /\ late' = late + 1)
    BY <1>3 DEF Routine, InitThread, TestFirst, WaitTest, WaitBlock, WaitReturn,
       TestCancel, RunBegin, RunEnd, ref, history
  <2>5. late' \in 0..2
    BY <2>4 DEF LifetimeInv, TypeOK
  <2>6. Flags'
    BY <2>3, <2>4, Zenon DEF LifetimeInv, TypeOK, Flags
  <2>7. TypeOK'
    BY <2>2, <2>3, <2>5, <2>6 DEF LifetimeInv, TypeOK, Flags
  <2> QED BY <1>1, <2>2, <2>3, <2>7 DEF LifetimeInv
<1> QED BY <1>2, <1>3

LEMMA LifetimeStep == LifetimeInv /\ [Next]_vars => LifetimeInv'
<1>1. LifetimeInv /\ UNCHANGED vars => LifetimeInv'
  BY DEF LifetimeInv, TypeOK, vars, ref, pthreads, history
<1> QED BY <1>1, LifetimeCall, LifetimeDestroy, LifetimeRoutine DEF Next, Terminated

(* Every variable of Thread keeps its type; the reference count never      *)
(* exceeds two.                                                            *)
THEOREM ThreadTypeCorrect == Spec => []TypeOK
<1>1. LifetimeInv => TypeOK
  BY DEF LifetimeInv
<1> QED BY <1>1, LifetimeInit, LifetimeStep, PTL DEF Spec

(* The RunnableReference is deleted exactly when neither the object nor a  *)
(* pthread uses it: RemoveRef in ~Thread, cleanup and the failure path of  *)
(* start neither frees it early nor leaks it.                              *)
THEOREM ReferenceSafe == Spec => []RefCounted
<1>1. LifetimeInv => RefCounted
  <2> SUFFICES ASSUME LifetimeInv PROVE RefCounted
    OBVIOUS
  <2>1. Active = {} <=> isended
    <3>1. isended => Active = {}
      BY ActiveIsTid
    <3>2. ~isended => tid \in Active
      BY DEF LifetimeInv, Active, Tids, TypeOK
    <3> QED BY <3>1, <3>2
  <2> QED BY <2>1 DEF LifetimeInv, RefCounted, One, TypeOK
<1> QED BY <1>1, LifetimeInit, LifetimeStep, PTL DEF Spec

(* start never lets a second pthread into the routine while the first is   *)
(* in it, so isruning() and tid() always speak of the one that is.         *)
THEOREM SingleThread == Spec => []OneAtATime
<1>1. LifetimeInv => OneAtATime
  BY ActiveIsTid DEF OneAtATime
<1> QED BY <1>1, LifetimeInit, LifetimeStep, PTL DEF Spec

-----------------------------------------------------------------------------
(* Cancelling.  The pthread that run() has been late for once is on its    *)
(* way out: it will see iscanceldelaystart before it can run again.  Only  *)
(* a failing start clears the flag, when the pthread has exited.           *)
LateInv ==
  \/ late = 0
  \/ /\ late = 1 /\ tid # 0
     /\ \/ pc[tid] = "exited"
        \/ pc[tid] \in {"running", "first", "cleanup"} /\ iscanceldelaystart

(* A pthread that gives up has run or was cancelled; a delayed one sees    *)
(* only a cancel of its own.                                               *)
CancelInv ==
  Isruning =>
    /\ mode[tid] = "plain" => pc[tid] \in {"init", "run", "running", "cleanup"}
    /\ mode[tid] # "plain" /\ iscanceldelaystart => tid \in cancels
    /\ pc[tid] = "running" => ran
    /\ pc[tid] = "cleanup" => ran \/ tid \in cancels

LEMMA CancelInit == Init => LateInv /\ CancelInv
BY DEF Init, LateInv, CancelInv, Isruning

LEMMA CancelCall ==
  ASSUME LifetimeInv, LateInv, CancelInv, NEW c \in Clients, Call(c) PROVE LateInv' /\ CancelInv'
<1> USE DEF LifetimeInv
<1>1. ASSUME NEW m \in Modes, Start(c, m) PROVE LateInv' /\ CancelInv'
  <2>1. tid \in Nat /\ NextTid \in Tids
    BY <1>1, StartsAssumption DEF Start, NextTid, TypeOK, Tids
  <2>2. /\ tid' = NextTid /\ pc'[NextTid] = "init" /\ mode'[NextTid] = m /\ late' = 0
        /\ m # "plain" => iscanceldelaystart' = FALSE
    BY <1>1, <2>1 DEF Start, PrepareDelay, TypeOK
  <2> QED BY <2>2 DEF LateInv, CancelInv, Isruning
<1>2. ASSUME NEW m \in Modes, StartFails(c, m) PROVE LateInv' /\ CancelInv'
  <2>1. isended /\ UNCHANGED <<tid, pc, isended, mode, ran, late, cancels>>
    BY <1>2 DEF StartFails, Isruning
  <2>2. tid # 0 => pc[tid] = "exited"
    BY <2>1
  <2> QED BY <2>1, <2>2 DEF LateInv, CancelInv, Isruning
<1>3. CASE Cancel(c)
  <2>1. tid \in Tids /\ ~isended
    BY <1>3 DEF Cancel, Isruning, TypeOK, Tids
  <2>2. /\ pc'[tid] = IF pc[tid] = "blocked" THEN "woken" ELSE pc[tid]
        /\ UNCHANGED <<tid, isended, mode, ran, late>>
        /\ iscanceldelaystart' = TRUE /\ tid \in cancels'
    BY <1>3, <2>1 DEF Cancel, TypeOK
  <2> QED BY <2>1, <2>2 DEF LateInv, CancelInv, Isruning
<1>4. CASE Join(c) \/ JoinBegin(c) \/ JoinEnd(c) \/ OutsideJoin(c) \/ Kill(c) \/ KillSend(c)
  <2>1. UNCHANGED <<tid, isended, iscanceldelaystart, mode, pc, ran, late, cancels>>
    BY <1>4 DEF Join, JoinBegin, JoinEnd, OutsideJoin, Kill, KillSend, ref, pthreads, history
  <2> QED BY <2>1 DEF LateInv, CancelInv, Isruning
<1> QED BY <1>1, <1>2, <1>3, <1>4 DEF Call

LEMMA CancelRoutine ==
  ASSUME LifetimeInv, LateInv, CancelInv, NEW t \in Tids, Routine(t) PROVE LateInv' /\ CancelInv'
<1>1. t \in Active
  BY DEF Active, Routine, InitThread, TestFirst, WaitTest, WaitBlock, WaitReturn,
     TestCancel, RunBegin, RunEnd, Cleanup
<1>2. t = tid /\ ~isended /\ tid # 0
  BY <1>1, ActiveIsTid
<1>3. \A l : Goto(tid, l) => pc'[tid] = l
  BY <1>2 DEF LifetimeInv, TypeOK, Goto
<1>4. UNCHANGED <<tid, iscanceldelaystart, mode, cancels>>
  BY DEF Routine, InitThread, TestFirst, WaitTest, WaitBlock, WaitReturn,
     TestCancel, RunBegin, RunEnd, Cleanup, ref, history
<1>5. late \in 0..2
  BY DEF LifetimeInv, TypeOK
<1> USE <1>2, <1>3, <1>4 DEF LateInv, CancelInv, Isruning
<1>6. CASE InitThread(t) \/ TestFirst(t) \/ WaitTest(t) \/ WaitBlock(t) \/ WaitReturn(t)
  <2>1. UNCHANGED <<isended, ran, late>>
    BY <1>6 DEF InitThread, TestFirst, WaitTest, WaitBlock, WaitReturn, ref, history
  <2>2. /\ pc[tid] \in {"init", "first", "wait", "block", "blocked", "woken"}
        /\ pc[tid] = "init" => pc'[tid] = IF mode[tid] = "plain" THEN "run" ELSE "first"
        /\ pc[tid] = "first" => pc'[tid] = IF iscanceldelaystart THEN "cleanup" ELSE "wait"
        /\ pc[tid] \notin {"init", "first"} => pc'[tid] \in {"woken", "block", "blocked", "test"}
    BY <1>6 DEF InitThread, TestFirst, WaitTest, WaitBlock, WaitReturn
  <2> QED BY <2>1, <2>2
<1>7. CASE TestCancel(t)
  <2>1. UNCHANGED <<isended, ran, late>>
    BY <1>7 DEF TestCancel, ref, history
  <2>2. pc[tid] = "test" /\ pc'[tid] = IF iscanceldelaystart THEN "cleanup" ELSE "run"
    BY <1>7 DEF TestCancel
  <2> QED BY <2>1, <2>2
<1>8. CASE RunBegin(t)
  <2>1. /\ pc[tid] = "run" /\ pc'[tid] = "running" /\ ran' = TRUE /\ UNCHANGED isended
        /\ late' = IF iscanceldelaystart /\ late < 2 THEN late + 1 ELSE late
    BY <1>8 DEF RunBegin, ref
  <2>2. late = 0
    BY <2>1
  <2> QED BY <2>1, <2>2
<1>9. CASE RunEnd(t)
  <2>1. UNCHANGED <<isended, ran, late>>
    BY <1>9 DEF RunEnd, ref, history
  <2>2. pc[tid] = "running" /\ pc'[tid] = IF mode[tid] = "periodic" THEN "first" ELSE "cleanup"
    BY <1>9 DEF RunEnd
  <2> QED BY <2>1, <2>2
<1>10. CASE Cleanup(t)
  BY <1>10 DEF Cleanup, history
<1> QED BY <1>6, <1>7, <1>8, <1>9, <1>10 DEF Routine

LEMMA CancelStep ==
  LifetimeInv /\ LateInv /\ CancelInv /\ [Next]_vars => LateInv' /\ CancelInv'
<1>1. LateInv /\ CancelInv /\ (UNCHANGED vars \/ Destroy) => LateInv' /\ CancelInv'
  BY DEF LateInv, CancelInv, Isruning, vars, Destroy, ref, pthreads, history
<1> QED BY <1>1, CancelCall, CancelRoutine DEF Next, Terminated

LEMMA CancelInvariant == Spec => [](LateInv /\ CancelInv)
BY CancelInit, CancelStep, LifetimeInit, LifetimeStep, PTL DEF Spec

(* After cancel_after or cancel_periodic has returned, run() begins at     *)
(* most once more, however many threads start and cancel the object.       *)
THEOREM OneLateRun == Spec => []AtMostOneLateRun
<1>1. LateInv => AtMostOneLateRun
  BY DEF LateInv, AtMostOneLateRun
<1> QED BY <1>1, CancelInvariant, PTL

(* A start that nobody cancels reaches run(): what an earlier start and    *)
(* its cancel left behind is never taken for a cancel of this one.         *)
THEOREM UncancelledRuns == Spec => []RunsUnlessCancelled
<1>1. LifetimeInv /\ CancelInv => RunsUnlessCancelled
  <2> SUFFICES ASSUME LifetimeInv, CancelInv, NEW t \in Active, pc[t] = "cleanup", ~ran
               PROVE  t \in cancels
    BY DEF RunsUnlessCancelled
  <2>1. t = tid /\ ~isended
    BY ActiveIsTid
  <2> QED BY <2>1 DEF CancelInv, Isruning
<1> QED BY <1>1, CancelInvariant, LifetimeInit, LifetimeStep, PTL DEF Spec

-----------------------------------------------------------------------------
(* Giving pthreads back.  This is a matter of one owner: with a second     *)
(* caller a join may meet a restart.                                       *)
OneOwner == \A c, d \in Clients : c = d

(* Who joins, joins the current pthread, and isjoined says so.             *)
JoinsCurrent ==
  /\ outside_join /\ tid # 0 /\ ~failed => isjoined
  /\ \A c \in Clients :
       /\ cl[c].pc = "join" => isjoined /\ tid # 0
       /\ cl[c].pc = "joining" => cl[c].t = tid /\ tid # 0 /\ (failed \/ isjoined)

(* A pthread is given back once: the current one only if isjoined is set.  *)
OnceInv ==
  ~failed =>
    /\ \A t \in Tids : reclaim[t] # "twice"
    /\ \A t \in Tids : t > tid => reclaim[t] = "no"
    /\ object /\ tid # 0 /\ ~isjoined => reclaim[tid] = "no"

(* Earlier pthreads have been given back, the current one has if isjoined  *)
(* says so and nobody is still joining it.                                 *)
GivenBack ==
  ~outside_join =>
    /\ \A t \in Tids : t < tid => reclaim[t] # "no"
    /\ object /\ tid # 0 /\ isjoined /\ (\A c \in Clients : cl[c].pc \notin {"join", "joining"}) =>
         reclaim[tid] # "no"
    /\ ~object /\ tid # 0 => reclaim[tid] # "no"

OwnerInv == JoinsCurrent /\ OnceInv /\ GivenBack

LEMMA OwnerInit == Init => OwnerInv
<1> SUFFICES ASSUME Init PROVE OwnerInv
  OBVIOUS
<1>1. \A c \in Clients : cl[c].pc = "idle"
  BY DEF Init, Idle
<1> QED BY <1>1, StartsAssumption
        DEF Init, OwnerInv, JoinsCurrent, OnceInv, GivenBack, Tids

(* What DetachOld leaves: at most the current pthread was given back.      *)
DetachedOnce ==
  /\ \A t \in Tids : t # tid => reclaim'[t] = reclaim[t]
  /\ tid # 0 /\ ~isjoined => reclaim'[tid] # "no"
  /\ tid # 0 /\ isjoined => reclaim'[tid] = reclaim[tid]
  /\ ~failed /\ tid # 0 => reclaim'[tid] # "twice"

LEMMA Detached ==
  ASSUME LifetimeInv, OwnerInv, object, DetachOld
  PROVE  DetachedOnce
<1>1. tid = 0 \/ tid \in Tids
  BY DEF LifetimeInv, TypeOK, Tids
<1> QED BY <1>1 DEF LifetimeInv, TypeOK, DetachOld, Reclaimed, OwnerInv, OnceInv, DetachedOnce

LEMMA OwnerCall ==
  ASSUME OneOwner, LifetimeInv, OwnerInv, NEW c \in Clients, Call(c) PROVE OwnerInv'
<1>0. /\ tid \in Nat /\ (tid = 0 \/ tid \in Tids) /\ Tids \subseteq Nat \ {0}
      /\ reclaim \in [Tids -> {"no", "detached", "joined", "twice"}]
      /\ \A d \in Clients : d = c
  BY StartsAssumption DEF LifetimeInv, TypeOK, Tids, OneOwner
<1>1. ASSUME NEW m \in Modes, Start(c, m) PROVE OwnerInv'
  <2>1. /\ tid' = tid + 1 /\ tid + 1 \in Tids /\ isjoined' = outside_join
        /\ object /\ DetachOld /\ UNCHANGED <<outside_join, object, cl, failed>>
    BY <1>0, <1>1, StartsAssumption DEF Start, NextTid, Tids
  <2>2. \A d \in Clients : cl[d].pc = "idle"
    BY <1>0, <1>1 DEF Start, Idle
  <2>3. JoinsCurrent'
    BY <2>1, <2>2 DEF JoinsCurrent
  <2>a. DetachedOnce
    BY <2>1, Detached
  <2>4. OnceInv'
    <3>1. ASSUME ~failed, NEW t \in Tids PROVE reclaim'[t] # "twice"
      BY <1>0, <2>a, <3>1 DEF OwnerInv, OnceInv, DetachedOnce
    <3>2. ASSUME ~failed, NEW t \in Tids, t > tid PROVE reclaim'[t] = "no"
      BY <1>0, <2>a, <3>2 DEF OwnerInv, OnceInv, DetachedOnce
    <3> QED BY <1>0, <2>1, <3>1, <3>2 DEF OnceInv
  <2>5. ~outside_join /\ tid # 0 => reclaim'[tid] # "no"
    BY <2>1, <2>2, <2>a DEF OwnerInv, GivenBack, DetachedOnce
  <2>6. GivenBack'
    <3>1. ASSUME ~outside_join, NEW t \in Tids, t < tid + 1 PROVE reclaim'[t] # "no"
      BY <1>0, <2>5, <2>a, <3>1 DEF OwnerInv, GivenBack, DetachedOnce
    <3> QED BY <1>0, <2>1, <3>1 DEF GivenBack
  <2> QED BY <2>3, <2>4, <2>6 DEF OwnerInv
<1>2. ASSUME NEW m \in Modes, StartFails(c, m) PROVE OwnerInv'
  <2>1. /\ UNCHANGED <<outside_join, object, cl, tid>> /\ failed' = TRUE
        /\ isjoined' = outside_join /\ object /\ DetachOld
    BY <1>2 DEF StartFails
  <2>2. \A d \in Clients : cl[d].pc = "idle"
    BY <1>0, <1>2 DEF StartFails, Idle
  <2>3. JoinsCurrent' /\ OnceInv'
    BY <2>1, <2>2 DEF JoinsCurrent, OnceInv
  <2>4. GivenBack'
    <3>1. DetachedOnce
      BY <2>1, Detached
    <3> QED BY <1>0, <2>1, <3>1 DEF OwnerInv, GivenBack, DetachedOnce
  <2> QED BY <2>3, <2>4 DEF OwnerInv
<1>3. CASE Cancel(c) \/ Kill(c) \/ KillSend(c)
  <2>1. UNCHANGED <<outside_join, object, tid, isjoined, reclaim, failed>>
    BY <1>3 DEF Cancel, Kill, KillSend, ref, pthreads, history
  <2>2. \A d \in Clients : cl'[d] = cl[d] \/ (cl'[d].pc \in {"idle", "kill"} /\ cl[d].pc \in {"idle", "kill"})
    BY <1>3 DEF Cancel, Kill, KillSend, Idle, LifetimeInv, TypeOK
  <2> QED BY <2>1, <2>2 DEF OwnerInv, JoinsCurrent, OnceInv, GivenBack
<1>4. CASE Join(c)
  <2>1. /\ UNCHANGED <<outside_join, object, tid, reclaim, failed>> /\ isjoined' = TRUE
        /\ cl'[c].pc = "join" /\ tid # 0
    BY <1>4 DEF Join, Isruning, pthreads, history, LifetimeInv, TypeOK
  <2> QED BY <1>0, <2>1 DEF OwnerInv, JoinsCurrent, OnceInv, GivenBack
<1>5. CASE JoinBegin(c) \/ OutsideJoin(c)
  <2>1. /\ UNCHANGED <<outside_join, object, tid, isjoined, reclaim, failed>>
        /\ cl[c].pc = "join" \/ (outside_join /\ tid # 0)
        /\ \/ cl'[c] = [pc |-> "joining", t |-> tid]
           \/ cl'[c] = Idle /\ cl[c].pc = "join" /\ Unjoinable(tid)
    BY <1>5 DEF JoinBegin, OutsideJoin, ref, pthreads, history, LifetimeInv, TypeOK
  <2>2. CASE cl'[c] = [pc |-> "joining", t |-> tid]
    <3>1. cl'[c].pc = "joining" /\ cl'[c].t = tid
      BY <2>2
    <3> QED BY <1>0, <2>1, <3>1 DEF OwnerInv, JoinsCurrent, OnceInv, GivenBack
  <2>3. CASE cl'[c] = Idle /\ cl[c].pc = "join" /\ Unjoinable(tid)
    <3>1. cl'[c].pc = "idle" /\ cl[c] # [pc |-> "joining", t |-> tid]
      BY <2>3 DEF Idle
    <3>2. reclaim[tid] # "no"
      BY <1>0, <2>3, <3>1 DEF Unjoinable
    <3> QED BY <1>0, <2>1, <3>1, <3>2 DEF OwnerInv, JoinsCurrent, OnceInv, GivenBack
  <2> QED BY <2>1, <2>2, <2>3
<1>6. CASE JoinEnd(c)
  <2>1. /\ UNCHANGED <<outside_join, object, tid, isjoined, failed>>
        /\ cl'[c].pc = "idle" /\ cl[c].pc = "joining"
    BY <1>6 DEF JoinEnd, Idle, ref, history, LifetimeInv, TypeOK
  <2>2. tid \in Tids /\ reclaim[tid] = "no" /\ reclaim' = [reclaim EXCEPT ![tid] = "joined"]
        /\ (failed \/ isjoined)
    BY <1>0, <1>6 DEF JoinEnd, Reclaimed, OwnerInv, JoinsCurrent
  <2>3. \A t \in Tids : reclaim'[t] = IF t = tid THEN "joined" ELSE reclaim[t]
    BY <1>0, <2>2
  <2>4. JoinsCurrent' /\ GivenBack'
    BY <1>0, <2>1, <2>2, <2>3 DEF OwnerInv, JoinsCurrent, GivenBack
  <2>5. OnceInv'
    BY <1>0, <2>1, <2>2, <2>3 DEF OwnerInv, OnceInv
  <2> QED BY <2>4, <2>5 DEF OwnerInv
<1> QED BY <1>1, <1>2, <1>3, <1>4, <1>5, <1>6 DEF Call

LEMMA OwnerDestroy ==
  ASSUME LifetimeInv, OwnerInv, Destroy PROVE OwnerInv'
<1>1. /\ UNCHANGED <<outside_join, tid, isjoined, cl, failed>> /\ object' = FALSE
      /\ object /\ DetachOld
  BY DEF Destroy, history
<1>2. ~outside_join => \A c \in Clients : cl[c].pc = "idle"
  BY DEF Destroy, Unused, Idle
<1>3. /\ tid \in Nat /\ (tid = 0 \/ tid \in Tids) /\ Tids \subseteq Nat \ {0}
  BY StartsAssumption DEF LifetimeInv, TypeOK, Tids
<1>4. JoinsCurrent'
  BY <1>1 DEF OwnerInv, JoinsCurrent
<1>a. DetachedOnce
  BY <1>1, Detached
<1>5. OnceInv'
  <2>1. ASSUME ~failed, NEW t \in Tids PROVE reclaim'[t] # "twice" /\ (t > tid => reclaim'[t] = "no")
    BY <1>3, <1>a, <2>1 DEF OwnerInv, OnceInv, DetachedOnce
  <2> QED BY <1>1, <2>1 DEF OnceInv
<1>6. GivenBack'
  BY <1>1, <1>2, <1>3, <1>a DEF OwnerInv, GivenBack, DetachedOnce
<1> QED BY <1>4, <1>5, <1>6 DEF OwnerInv

LEMMA OwnerStep ==
  ASSUME OneOwner PROVE LifetimeInv /\ OwnerInv /\ [Next]_vars => OwnerInv'
<1>1. OwnerInv /\ (UNCHANGED vars \/ \E t \in Tids : Routine(t)) => OwnerInv'
  <2> SUFFICES ASSUME OwnerInv, UNCHANGED vars \/ \E t \in Tids : Routine(t) PROVE OwnerInv'
    OBVIOUS
  <2>1. UNCHANGED <<outside_join, object, tid, isjoined, reclaim, cl, failed>>
    BY DEF vars, Routine, InitThread, TestFirst, WaitTest, WaitBlock, WaitReturn,
       TestCancel, RunBegin, RunEnd, Cleanup, ref, pthreads, history
  <2> QED BY <2>1 DEF OwnerInv, JoinsCurrent, OnceInv, GivenBack
<1> QED BY <1>1, OwnerCall, OwnerDestroy DEF Next, Terminated

LEMMA OwnerInvariant == ASSUME OneOwner PROVE Spec => []OwnerInv
<1>1. LifetimeInv /\ OwnerInv /\ [Next]_vars => OwnerInv'
  BY OwnerStep
<1> QED BY <1>1, OwnerInit, LifetimeInit, LifetimeStep, PTL DEF Spec

(* With one owner no pthread is detached or joined twice, over any number  *)
(* of starts, joins and the destructor, until a pthread_create fails.      *)
THEOREM GivenBackOnce == ASSUME OneOwner PROVE Spec => []ReclaimedOnce
<1>1. OwnerInv => ReclaimedOnce
  BY DEF OwnerInv, OnceInv, ReclaimedOnce
<1> QED BY <1>1, OwnerInvariant, PTL

(* With one owner the destructor leaves no pthread behind that has not     *)
(* been detached or joined, also when a pthread_create failed.             *)
THEOREM NoneLeaked == ASSUME OneOwner PROVE Spec => []NothingLeaked
<1>1. LifetimeInv /\ OwnerInv => NothingLeaked
  BY StartsAssumption DEF LifetimeInv, TypeOK, OwnerInv, GivenBack, NothingLeaked, Tids
<1> QED BY <1>1, OwnerInvariant, LifetimeInit, LifetimeStep, PTL DEF Spec
=============================================================================
