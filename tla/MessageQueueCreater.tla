------------------------ MODULE MessageQueueCreater -------------------------
(***************************************************************************)
(* class MessageQueueCreater of message_queue.cc on top of Thread: a queue *)
(* and the thread that runs it are created, stopped and created again by   *)
(* several threads.  With outside_join the same module describes the       *)
(* static pair CreateNewMessageQueue and ReleaseNewMessageQueue, whose     *)
(* Thread is a local variable.                                             *)
(*                                                                         *)
(* messagequeue_mutex_ is held from thread_.start() until the queue is in  *)
(* sg_messagequeue_map, and the pthread takes it before RunLoop::Run, so   *)
(* CreateMessageQueue is one action.  CancelAndWait releases it before it  *)
(* joins.  Queue ids are tids.  Of the queue only its entry in the map and *)
(* its breakflag matter here; module MessageQueue has the rest.            *)
(***************************************************************************)
EXTENDS Thread

VARIABLES
  messagequeue_id, \* messagequeue_id_; for a new queue, the id its user holds
  queue,     \* the entry of each queue in sg_messagequeue_map
  breakflag, \* and its breakflag
  broke,     \* the queue each client is stopping, 0 if it is not
  stopped    \* history: queues for which CancelAndWait has returned

creater == <<messagequeue_id, queue, breakflag, broke, stopped>>
cvars == <<vars, creater>>

-----------------------------------------------------------------------------
Ready(c) == broke[c] = 0 /\ cl[c] = Idle

(* Mutant of NewQueue: the id is not stored.                               *)
NewQueueUnnamed(c) ==
  /\ Start(c, "plain")
  /\ queue' = [queue EXCEPT ![NextTid] = "exists"]
  /\ UNCHANGED <<messagequeue_id, breakflag, broke, stopped>>

(* start() and __CreateMessageQueueInfo for the new thread's id.           *)
NewQueue(c) ==
  /\ Start(c, "plain")
  /\ queue' = [queue EXCEPT ![NextTid] = "exists"]
  /\ messagequeue_id' = NextTid
  /\ UNCHANGED <<breakflag, broke, stopped>>

(* While the thread runs the call returns messagequeue_id_ and changes     *)
(* nothing, even if that is KInvalidQueueID because a stop is under way.   *)
CreateMessageQueue(c) == ~outside_join /\ Ready(c) /\ NewQueue(c)

CreateMessageQueueFails(c) ==
  /\ ~outside_join /\ Ready(c)
  /\ StartFails(c, "plain")
  /\ UNCHANGED creater

(* The Thread is new in every call; it is destroyed when the call returns. *)
CreateNewMessageQueue(c) == outside_join /\ tid = 0 /\ Ready(c) /\ NewQueue(c)

CreateNewMessageQueueEnd == outside_join /\ tid # 0 /\ Destroy /\ UNCHANGED creater

(* Mutant of Break: the queue is not found in the map.                     *)
BreakLost(t) == UNCHANGED breakflag

(* BreakMessageQueueRunloop, if the queue is still in the map.             *)
Break(t) == breakflag' = [breakflag EXCEPT ![t] = @ \/ queue[t] = "exists"]

(* Mutant of CancelAndWait: messagequeue_id_ is kept.                      *)
CancelAndWaitKeepsId(c) ==
  /\ ~outside_join /\ object /\ Ready(c)
  /\ messagequeue_id # 0
  /\ Break(messagequeue_id)
  /\ broke' = [broke EXCEPT ![c] = messagequeue_id]
  /\ UNCHANGED <<vars, messagequeue_id, queue, stopped>>

(* CancelAndWait until it releases messagequeue_mutex_.                    *)
CancelAndWait(c) ==
  /\ ~outside_join /\ object /\ Ready(c)
  /\ messagequeue_id # 0
  /\ Break(messagequeue_id)
  /\ messagequeue_id' = 0
  /\ broke' = [broke EXCEPT ![c] = messagequeue_id]
  /\ UNCHANGED <<vars, queue, stopped>>

Return(c) ==
  /\ broke' = [broke EXCEPT ![c] = 0]
  /\ stopped' = stopped \cup {broke[c]}
  /\ UNCHANGED <<messagequeue_id, queue, breakflag>>

(* Mutant of JoinEnded: a pthread that has not reached init counts as      *)
(* ended.                                                                  *)
JoinNotStarted(c) == ~isinthread /\ UNCHANGED vars /\ Return(c)

(* thread_.join() finds the thread ended.                                  *)
JoinEnded(c) == ~Isruning /\ UNCHANGED vars /\ Return(c)

(* thread_.join(), by a thread other than the queue's, of whichever thread *)
(* is current by now: it may be joined already.                            *)
CancelAndWaitJoin(c) ==
  /\ ~outside_join /\ broke[c] # 0 /\ cl[c] = Idle
  /\ \/ Join(c) /\ UNCHANGED creater
     \/ JoinEnded(c)

(* CancelAndWait or ReleaseNewMessageQueue from a handler: the queue's own *)
(* thread does not join.                                                   *)
CancelInQueue(t) ==
  /\ outside_join \/ object
  /\ pc[t] = "running"
  /\ messagequeue_id # 0
  /\ Break(messagequeue_id)
  /\ messagequeue_id' = 0
  /\ UNCHANGED <<vars, queue, broke, stopped>>

(* ReleaseNewMessageQueue: break, let the message being run end, and join. *)
(* Its caller releases a queue once.                                       *)
ReleaseNewMessageQueue(c) ==
  /\ outside_join /\ Ready(c)
  /\ messagequeue_id # 0
  /\ Break(messagequeue_id)
  /\ messagequeue_id' = 0
  /\ broke' = [broke EXCEPT ![c] = messagequeue_id]
  /\ UNCHANGED <<vars, queue, stopped>>

ReleaseNewMessageQueueJoin(c) ==
  /\ outside_join /\ broke[c] # 0
  /\ OutsideJoin(c) /\ UNCHANGED creater

(* pthread_join begins, or fails and CancelAndWait returns; or it ends.    *)
Joining(c) == JoinBegin(c) /\ IF Unjoinable(tid) THEN Return(c) ELSE UNCHANGED creater
Joined(c) == JoinEnd(c) /\ Return(c)

(* ~MessageQueueCreater, once its CancelAndWait has returned and no other  *)
(* thread is inside a call.                                                *)
Destructor ==
  /\ ~outside_join /\ messagequeue_id = 0
  /\ \A c \in Clients : broke[c] = 0
  /\ Destroy /\ UNCHANGED creater

-----------------------------------------------------------------------------
(* The pthread: __ThreadRunloop takes messagequeue_mutex_ and runs the     *)
(* RunLoop, which ends after a break and takes the queue out of the map.   *)

ThreadRunloop(t) == RunBegin(t) /\ UNCHANGED creater

(* Mutant of RunLoopEnd: the queue stays in the map.                       *)
RunLoopEndKeepsQueue(t) == RunEnd(t) /\ breakflag[t] /\ UNCHANGED creater

RunLoopEnd(t) ==
  /\ RunEnd(t) /\ breakflag[t]
  /\ queue' = [queue EXCEPT ![t] = "released"]
  /\ UNCHANGED <<messagequeue_id, breakflag, broke, stopped>>

Pthread(t) ==
  \/ ThreadRunloop(t) \/ RunLoopEnd(t)
  \/ (InitThread(t) \/ Cleanup(t)) /\ UNCHANGED creater

-----------------------------------------------------------------------------
CInit ==
  /\ Init
  /\ messagequeue_id = 0
  /\ queue = [t \in Tids |-> "none"] /\ breakflag = [t \in Tids |-> FALSE]
  /\ broke = [c \in Clients |-> 0] /\ stopped = {}

Stopping(c) ==
  CancelAndWaitJoin(c) \/ ReleaseNewMessageQueueJoin(c) \/ Joining(c) \/ Joined(c)

ClientCall(c) ==
  \/ CreateMessageQueue(c) \/ CreateMessageQueueFails(c) \/ CreateNewMessageQueue(c)
  \/ CancelAndWait(c) \/ ReleaseNewMessageQueue(c) \/ Stopping(c)

CTerminated == ~object /\ isended /\ (\A c \in Clients : Ready(c)) /\ UNCHANGED cvars

CNext ==
  \/ \E c \in Clients : ClientCall(c)
  \/ CreateNewMessageQueueEnd \/ Destructor
  \/ \E t \in Tids : Pthread(t) \/ CancelInQueue(t)
  \/ CTerminated

CSpec == CInit /\ [][CNext]_cvars

(* Pthreads are scheduled, a RunLoop that is broken ends (BreakEndsQueue   *)
(* of MessageQueue), and a client goes on with a stop it has begun.        *)
CFairSpec ==
  /\ CSpec
  /\ \A t \in Tids : WF_cvars(Pthread(t))
  /\ \A c \in Clients : WF_cvars(Stopping(c))

-----------------------------------------------------------------------------
(* Properties.                                                             *)

(* The type of the variables Thread does not have.                         *)
CTypeOK ==
  /\ messagequeue_id \in 0..MaxStarts
  /\ queue \in [Tids -> {"none", "exists", "released"}]
  /\ breakflag \in [Tids -> BOOLEAN]
  /\ broke \in [Clients -> 0..MaxStarts] /\ stopped \subseteq Tids

(* The id CreateMessageQueue and GetMessageQueue return is a queue that is *)
(* in the map and that nobody has broken, or KInvalidQueueID.              *)
CurrentQueueLives ==
  messagequeue_id # 0 =>
    queue[messagequeue_id] = "exists" /\ ~breakflag[messagequeue_id]

(* A queue whose loop goes on for ever is the one messagequeue_id_ names:  *)
(* no restart loses one that nobody could stop any more.                   *)
NoOrphanQueue ==
  \A t \in Tids : queue[t] = "exists" /\ ~breakflag[t] => messagequeue_id = t

(* When CancelAndWait or ReleaseNewMessageQueue has returned, the queue it *)
(* broke is out of the map and its thread has exited, even if another      *)
(* thread created the next queue before the join.  The one exception is a  *)
(* stop whose own pthread_join failed, because a stop of an earlier queue  *)
(* had slipped past a restart and joined its thread: then that stop still  *)
(* waits for the thread, whose queue is broken.                            *)
StoppedMeansEnding ==
  \A t \in stopped :
    \/ queue[t] = "released" /\ pc[t] = "exited"
    \/ /\ breakflag[t]
       /\ \E c \in Clients : broke[c] \in 1..(t - 1) /\ cl[c] = [pc |-> "joining", t |-> t]

(* __ThreadRunloop locks messagequeue_mutex_, a member of the creater: no  *)
(* pthread still has to when the creater has been destroyed.               *)
MutexOutlivesUse ==
  \A t \in Tids : pc[t] \in {"init", "run"} /\ ~outside_join => object

(* ASSERT(!runable_ref_->isjoined) of Thread::join holds when              *)
(* CancelAndWait calls it.                                                 *)
JoinAssertion == \A c \in Clients : ~outside_join /\ broke[c] # 0 /\ cl[c] = Idle => ~isjoined

(* Stopping a queue returns to the caller, also when other threads create  *)
(* and stop the next queues before its join, unless a queue goes on that   *)
(* nobody has stopped, or the pthread it waits for was detached under it,  *)
(* in which case pthread_join does not return (thread.h:28).               *)
StopReturns ==
  \A c \in Clients, t \in Tids :
    broke[c] = t ~>
      \/ broke[c] # t
      \/ messagequeue_id # 0
      \/ cl[c].pc = "joining" /\ reclaim[cl[c].t] # "no"

(* A broken queue is taken out of the map.                                 *)
BrokenQueueEnds == \A t \in Tids : breakflag[t] ~> queue[t] = "released"

=============================================================================
