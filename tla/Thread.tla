------------------------------- MODULE Thread -------------------------------
(***************************************************************************)
(* class Thread of mars/comm/unix/thread/thread.h: a Thread object and the *)
(* RunnableReference it shares with the pthreads it starts, one after the  *)
(* other.  Client threads call the methods; every method holds splock for  *)
(* its whole body except join and kill, which release it before they call  *)
(* pthread_join and pthread_kill with the tid they read afterwards.  The   *)
(* caller of a delayed or periodic start can cancel it through condtime,   *)
(* whose anyway_notify_ is set and tested without condtime's mutex.        *)
(* A pthread is named by the number of the pthread_create that made it.    *)
(***************************************************************************)
EXTENDS Integers

CONSTANTS
  Clients,     \* threads that share the Thread object
  MaxStarts,   \* bound: successful pthread_create calls
  CreateFails  \* may pthread_create fail?

ASSUME StartsAssumption == MaxStarts \in Nat
ASSUME FlagsAssumption == CreateFails \in BOOLEAN

Tids == 1..MaxStarts
Modes == {"plain", "after", "periodic"}

VARIABLES
  outside_join, \* outside_join_: somebody else joins the pthreads
  object,    \* is the Thread object alive?
  deleted,   \* has the RunnableReference been deleted?
  count,     \* RunnableReference::count
  tid,       \* RunnableReference::tid, 0 before the first start
  isjoined, isended, iscanceldelaystart, isinthread, killsig,
  anyway,    \* condtime's anyway_notify_
  mode,      \* how each pthread was started
  pc,        \* where each pthread is
  reclaim,   \* how each pthread's resources were given back, if they were
  cl,        \* where each client is, and on which pthread
  ran,       \* history: has the current pthread begun run()?
  late,      \* history: run() calls begun since it was cancelled
  cancels,   \* history: pthreads cancelled while they were running
  failed     \* history: has a pthread_create failed?

ref == <<count, tid, isjoined, isended, iscanceldelaystart, isinthread, killsig, anyway>>
pthreads == <<mode, pc, reclaim>>
history == <<ran, late, cancels, failed>>
vars == <<outside_join, object, deleted, ref, pthreads, cl, history>>

Idle == [pc |-> "idle", t |-> 0]

Isruning == ~isended

NextTid == tid + 1

AddRef == count' = count + 1

(* RemoveRef: the last reference deletes the RunnableReference.            *)
RemoveRef == count' = count - 1 /\ deleted' = (deleted \/ count = 1)

(* pthread_detach(t); a second reclaim of the same pthread is recorded.    *)
Reclaimed(t, how) == [reclaim EXCEPT ![t] = IF @ = "no" THEN how ELSE "twice"]

-----------------------------------------------------------------------------
(* Methods of Thread.                                                      *)

(* Mutant of DetachOld: isjoined is not looked at.                         *)
DetachOldAlways == reclaim' = IF tid # 0 THEN Reclaimed(tid, "detached") ELSE reclaim

(* Mutant of PrepareDelay: what an earlier cancel left is not reset.       *)
PrepareNothing(m) == UNCHANGED <<iscanceldelaystart, anyway>>

(* What start, start_after and start_periodic do before pthread_create.    *)
DetachOld == reclaim' = IF tid # 0 /\ ~isjoined THEN Reclaimed(tid, "detached")
                        ELSE reclaim
PrepareDelay(m) ==
  IF m = "plain" THEN UNCHANGED <<iscanceldelaystart, anyway>>
  ELSE iscanceldelaystart' = FALSE /\ anyway' = FALSE

(* Mutant of Start: no test of isruning().                                 *)
StartAnyway(c, m) ==
  /\ object /\ cl[c] = Idle
  /\ tid < MaxStarts
  /\ DetachOld /\ PrepareDelay(m)
  /\ isended' = FALSE /\ isjoined' = outside_join
  /\ AddRef
  /\ tid' = NextTid
  /\ mode' = [mode EXCEPT ![NextTid] = m]
  /\ pc' = [pc EXCEPT ![NextTid] = "init"]
  /\ ran' = FALSE /\ late' = 0
  /\ UNCHANGED <<outside_join, object, deleted, isinthread, killsig, cl, cancels, failed>>

Start(c, m) ==
  /\ object /\ cl[c] = Idle /\ ~Isruning
  /\ tid < MaxStarts
  /\ DetachOld /\ PrepareDelay(m)
  /\ isended' = FALSE /\ isjoined' = outside_join
  /\ AddRef
  /\ tid' = NextTid
  /\ mode' = [mode EXCEPT ![NextTid] = m]
  /\ pc' = [pc EXCEPT ![NextTid] = "init"]
  /\ ran' = FALSE /\ late' = 0
  /\ UNCHANGED <<outside_join, object, deleted, isinthread, killsig, cl, cancels, failed>>

(* pthread_create fails: isended is set back and the reference removed.    *)
StartFails(c, m) ==
  /\ CreateFails
  /\ object /\ cl[c] = Idle /\ ~Isruning
  /\ DetachOld /\ PrepareDelay(m)
  /\ isjoined' = outside_join
  /\ failed' = TRUE
  /\ UNCHANGED <<outside_join, object, deleted, count, tid, isended, isinthread, killsig, mode, pc, cl,
                 ran, late, cancels>>

(* cancel_after and cancel_periodic.  notifyAll(true) wakes the pthread if *)
(* it is already in pthread_cond_timedwait.                                *)
Cancel(c) ==
  /\ object /\ cl[c] = Idle /\ Isruning
  /\ iscanceldelaystart' = TRUE /\ anyway' = TRUE
  /\ pc' = [pc EXCEPT ![tid] = IF @ = "blocked" THEN "woken" ELSE @]
  /\ cancels' = cancels \cup {tid}
  /\ UNCHANGED <<outside_join, object, deleted, count, tid, isjoined, isended, isinthread, killsig,
                 mode, reclaim, cl, ran, late, failed>>

(* A failed ASSERT(!isjoined) only logs in a release build: a second join  *)
(* goes on like the first.  That nobody joins when outside_join_ says that *)
(* somebody else does is the callers' contract.                            *)
Join(c) ==
  /\ object /\ cl[c] = Idle /\ Isruning
  /\ ~outside_join
  /\ isjoined' = TRUE
  /\ cl' = [cl EXCEPT ![c] = [pc |-> "join", t |-> 0]]
  /\ UNCHANGED <<outside_join, object, deleted, count, tid, isended, iscanceldelaystart, isinthread,
                 killsig, anyway, pthreads, history>>

(* Somebody is in pthread_join for the pthread, or it was given back.      *)
Unjoinable(t) == reclaim[t] # "no" \/ \E d \in Clients : cl[d] = [pc |-> "joining", t |-> t]

(* The lock is released; tid() is read again for pthread_join, which fails *)
(* at once, with EINVAL or ESRCH, for a pthread it cannot join.            *)
JoinBegin(c) ==
  /\ cl[c].pc = "join"
  /\ cl' = [cl EXCEPT ![c] = IF Unjoinable(tid) THEN Idle ELSE [pc |-> "joining", t |-> tid]]
  /\ UNCHANGED <<outside_join, object, deleted, ref, pthreads, history>>

(* pthread_join returns once the pthread has exited, unless it was         *)
(* detached meanwhile: then it does not return.                            *)
JoinEnd(c) ==
  /\ cl[c].pc = "joining"
  /\ pc[cl[c].t] = "exited" /\ reclaim[cl[c].t] = "no"
  /\ reclaim' = Reclaimed(cl[c].t, "joined")
  /\ cl' = [cl EXCEPT ![c] = Idle]
  /\ UNCHANGED <<outside_join, object, deleted, ref, mode, pc, history>>

(* ThreadUtil::join by the thread that outside_join_ speaks of, which knows *)
(* the tid and joins it once; the object may be gone.                      *)
OutsideJoin(c) ==
  /\ outside_join /\ cl[c] = Idle
  /\ tid # 0 /\ reclaim[tid] = "no" /\ (\A d \in Clients : cl[d].pc # "joining")
  /\ cl' = [cl EXCEPT ![c] = [pc |-> "joining", t |-> tid]]
  /\ UNCHANGED <<outside_join, object, deleted, ref, pthreads, history>>

(* kill: a signal for a pthread that has not reached init is kept for it.  *)
Kill(c) ==
  /\ object /\ cl[c] = Idle /\ Isruning
  /\ IF isinthread
     THEN /\ cl' = [cl EXCEPT ![c] = [pc |-> "kill", t |-> 0]]
          /\ UNCHANGED killsig
     ELSE killsig' = TRUE /\ UNCHANGED cl
  /\ UNCHANGED <<outside_join, object, deleted, count, tid, isjoined, isended, iscanceldelaystart,
                 isinthread, anyway, pthreads, history>>

(* pthread_kill(tid(), sig), outside the lock.                             *)
KillSend(c) ==
  /\ cl[c].pc = "kill"
  /\ cl' = [cl EXCEPT ![c] = Idle]
  /\ UNCHANGED <<outside_join, object, deleted, ref, pthreads, history>>

(* No client is inside a method of the object.                             *)
Unused == \A c \in Clients : cl[c] = Idle \/ (outside_join /\ cl[c].pc = "joining")

(* Mutant of Destroy: the last pthread is not detached.                    *)
DestroyWithoutDetach ==
  /\ object /\ object' = FALSE /\ Unused
  /\ RemoveRef
  /\ UNCHANGED <<outside_join, tid, isjoined, isended, iscanceldelaystart, isinthread, killsig, anyway,
                 pthreads, cl, history>>

(* ~Thread.  Its owner destroys the object when no call is in progress.    *)
Destroy ==
  /\ object /\ object' = FALSE /\ Unused
  /\ DetachOld
  /\ RemoveRef
  /\ UNCHANGED <<outside_join, tid, isjoined, isended, iscanceldelaystart, isinthread, killsig, anyway,
                 mode, pc, cl, history>>

-----------------------------------------------------------------------------
(* The pthread.                                                            *)

Goto(t, label) == pc' = [pc EXCEPT ![t] = label]

(* init: announce the pthread and deliver a kept signal.                   *)
InitThread(t) ==
  /\ pc[t] = "init"
  /\ isinthread' = TRUE
  /\ Goto(t, IF mode[t] = "plain" THEN "run" ELSE "first")
  /\ UNCHANGED <<outside_join, object, deleted, count, tid, isjoined, isended, iscanceldelaystart,
                 killsig, anyway, mode, reclaim, cl, history>>

(* iscanceldelaystart is tested before the first wait,                     *)
TestFirst(t) ==
  /\ pc[t] = "first"
  /\ Goto(t, IF iscanceldelaystart THEN "cleanup" ELSE "wait")
  /\ UNCHANGED <<outside_join, object, deleted, ref, mode, reclaim, cl, history>>

(* Condition::wait swaps anyway_notify_ for 0 and, if it was 0, blocks in a *)
(* second step.                                                            *)
WaitTest(t) ==
  /\ pc[t] = "wait"
  /\ Goto(t, IF anyway THEN "woken" ELSE "block")
  /\ anyway' = FALSE
  /\ UNCHANGED <<outside_join, object, deleted, count, tid, isjoined, isended, iscanceldelaystart,
                 isinthread, killsig, mode, reclaim, cl, history>>

WaitBlock(t) ==
  /\ pc[t] = "block"
  /\ Goto(t, "blocked")
  /\ UNCHANGED <<outside_join, object, deleted, ref, mode, reclaim, cl, history>>

(* Notified, or timed out; anyway_notify_ is cleared either way.           *)
WaitReturn(t) ==
  /\ pc[t] \in {"blocked", "woken"}
  /\ Goto(t, "test")
  /\ anyway' = FALSE
  /\ UNCHANGED <<outside_join, object, deleted, count, tid, isjoined, isended, iscanceldelaystart,
                 isinthread, killsig, mode, reclaim, cl, history>>

(* after the wait, and before every run of a periodic thread,              *)
TestCancel(t) ==
  /\ pc[t] = "test"
  /\ Goto(t, IF iscanceldelaystart THEN "cleanup" ELSE "run")
  /\ UNCHANGED <<outside_join, object, deleted, ref, mode, reclaim, cl, history>>

(* target->run() begins: it may have been cancelled since the test.        *)
RunBegin(t) ==
  /\ pc[t] = "run"
  /\ Goto(t, "running")
  /\ ran' = TRUE
  /\ late' = IF iscanceldelaystart /\ late < 2 THEN late + 1 ELSE late
  /\ UNCHANGED <<outside_join, object, deleted, ref, mode, reclaim, cl, cancels, failed>>

(* Mutant of RunEnd: a periodic thread does not test again.                *)
RunEndUntested(t) ==
  /\ pc[t] = "running"
  /\ Goto(t, IF mode[t] = "periodic" THEN "run" ELSE "cleanup")
  /\ UNCHANGED <<outside_join, object, deleted, ref, mode, reclaim, cl, history>>

(* and it returns.  A periodic thread tests again before it waits.         *)
RunEnd(t) ==
  /\ pc[t] = "running"
  /\ Goto(t, IF mode[t] = "periodic" THEN "first" ELSE "cleanup")
  /\ UNCHANGED <<outside_join, object, deleted, ref, mode, reclaim, cl, history>>

(* Mutant of Cleanup: the pthread keeps its reference.                     *)
CleanupKeepsRef(t) ==
  /\ pc[t] = "cleanup"
  /\ Goto(t, "exited")
  /\ isinthread' = FALSE /\ killsig' = FALSE /\ isended' = TRUE
  /\ UNCHANGED <<outside_join, object, deleted, count, tid, isjoined, iscanceldelaystart, anyway,
                 mode, reclaim, cl, history>>

(* Mutant of Cleanup: the pthread detaches itself.                         *)
CleanupDetaches(t) ==
  /\ pc[t] = "cleanup"
  /\ Goto(t, "exited")
  /\ isinthread' = FALSE /\ killsig' = FALSE /\ isended' = TRUE
  /\ RemoveRef
  /\ reclaim' = Reclaimed(t, "detached")
  /\ UNCHANGED <<outside_join, object, tid, isjoined, iscanceldelaystart, anyway, mode, cl, history>>

(* cleanup, which ends every routine.                                      *)

Cleanup(t) ==
  /\ pc[t] = "cleanup"
  /\ Goto(t, "exited")
  /\ isinthread' = FALSE /\ killsig' = FALSE /\ isended' = TRUE
  /\ RemoveRef
  /\ UNCHANGED <<outside_join, object, tid, isjoined, iscanceldelaystart, anyway, mode, reclaim, cl, history>>

-----------------------------------------------------------------------------
Init ==
  /\ outside_join \in BOOLEAN
  /\ object = TRUE /\ deleted = FALSE /\ count = 1 /\ tid = 0
  /\ isjoined = FALSE /\ isended = TRUE
  /\ iscanceldelaystart = FALSE /\ isinthread = FALSE /\ killsig = FALSE /\ anyway = FALSE
  /\ mode = [t \in Tids |-> "plain"] /\ pc = [t \in Tids |-> "none"]
  /\ reclaim = [t \in Tids |-> "no"]
  /\ cl = [c \in Clients |-> Idle]
  /\ ran = FALSE /\ late = 0 /\ cancels = {} /\ failed = FALSE

Call(c) ==
  \/ \E m \in Modes : Start(c, m) \/ StartFails(c, m)
  \/ Cancel(c) \/ Join(c) \/ JoinBegin(c) \/ JoinEnd(c) \/ OutsideJoin(c) \/ Kill(c) \/ KillSend(c)

Routine(t) ==
  \/ InitThread(t) \/ TestFirst(t) \/ WaitTest(t) \/ WaitBlock(t) \/ WaitReturn(t)
  \/ TestCancel(t) \/ RunBegin(t) \/ RunEnd(t) \/ Cleanup(t)

(* The object is gone, the last pthread has ended and no call is going on. *)
Terminated == ~object /\ isended /\ (\A c \in Clients : cl[c] = Idle) /\ UNCHANGED vars

Next ==
  \/ \E c \in Clients : Call(c)
  \/ Destroy
  \/ \E t \in Tids : Routine(t)
  \/ Terminated

Spec == Init /\ [][Next]_vars

(* The pthread is scheduled, its timed waits time out, its run() returns,  *)
(* and a client that has begun join gets to pthread_join and returns.      *)
FairSpec ==
  /\ Spec
  /\ \A t \in Tids : WF_vars(Routine(t))
  /\ \A c \in Clients : WF_vars(JoinBegin(c) \/ JoinEnd(c) \/ KillSend(c))

-----------------------------------------------------------------------------
(* Properties.                                                             *)

Labels == {"none", "init", "first", "wait", "block", "blocked", "woken", "test",
           "run", "running", "cleanup", "exited"}

(* The pthreads inside start_routine*, which use the RunnableReference.    *)
Active == {t \in Tids : pc[t] \notin {"none", "exited"}}

(* The type of every variable.                                             *)
TypeOK ==
  /\ outside_join \in BOOLEAN /\ object \in BOOLEAN /\ deleted \in BOOLEAN
  /\ count \in 0..2 /\ tid \in 0..MaxStarts
  /\ isjoined \in BOOLEAN /\ isended \in BOOLEAN /\ iscanceldelaystart \in BOOLEAN
  /\ isinthread \in BOOLEAN /\ killsig \in BOOLEAN /\ anyway \in BOOLEAN
  /\ mode \in [Tids -> Modes] /\ pc \in [Tids -> Labels]
  /\ reclaim \in [Tids -> {"no", "detached", "joined", "twice"}]
  /\ cl \in [Clients -> [pc : {"idle", "join", "joining", "kill"}, t : 0..MaxStarts]]
  /\ ran \in BOOLEAN /\ late \in 0..2 /\ cancels \subseteq Tids /\ failed \in BOOLEAN

(* Reference counting: the RunnableReference is deleted exactly when both  *)
(* the Thread object and its pthread are done with it, whichever is first. *)
RefCounted == deleted <=> ~object /\ Active = {}

(* At most one pthread of the object is inside its routine, the one        *)
(* isruning() and tid() speak of.                                          *)
OneAtATime == \A t \in Active : t = tid /\ ~isended

(* No pthread is detached or joined twice over starts, joins and ~Thread   *)
(* (thread.h:161), unless pthread_create has failed: start then has given  *)
(* the previous pthread back, but tid still names it and isjoined is unset. *)
ReclaimedOnce == ~failed => \A t \in Tids : reclaim[t] # "twice"

(* A destroyed Thread has given back every pthread it created, unless      *)
(* somebody outside joins them.                                            *)
NothingLeaked == ~object /\ ~outside_join => \A t \in 1..tid : reclaim[t] # "no"

(* After cancel_after or cancel_periodic has returned, run() begins at     *)
(* most once more: the cancel may fall between the test and the call.      *)
AtMostOneLateRun == late <= 1

(* A delayed or periodic start that nobody cancels reaches run(), whatever *)
(* an earlier start and its cancel left in iscanceldelaystart and condtime.*)
RunsUnlessCancelled ==
  \A t \in Active : pc[t] = "cleanup" /\ ~ran => t \in cancels

(* Cancelling ends a delayed or periodic thread, even when the notify is   *)
(* lost between the test of anyway_notify_ and the wait.                   *)
CancelEnds == (Isruning /\ iscanceldelaystart) ~> isended

(* join returns if the pthread ends by itself, and if it is periodic but   *)
(* was cancelled before: nobody detaches it on the way.                    *)
JoinReturns ==
  \A c \in Clients :
    (/\ cl[c].pc \in {"join", "joining"}
     /\ mode[tid] # "periodic" \/ iscanceldelaystart) ~> cl[c].pc = "idle"

=============================================================================
