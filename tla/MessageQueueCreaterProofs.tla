--------------------- MODULE MessageQueueCreaterProofs ----------------------
(***************************************************************************)
(* MessageQueueCreater does not lose track of the queues it creates and    *)
(* stops, for every number of clients and of restarts, although a stop may *)
(* join the thread of a later queue and another stop then fails to join.   *)
(***************************************************************************)
EXTENDS MessageQueueCreater, ThreadProofs

(* The steps of the creater without their part on the creater's variables: *)
(* LifetimeInv carries over.                                               *)
LEMMA CreaterStepIsThreadStep == [CNext]_cvars => [Next]_vars
<1> SUFFICES ASSUME [CNext]_cvars PROVE [Next]_vars
  OBVIOUS
<1>0. "plain" \in Modes
  BY DEF Modes
<1>1. ASSUME NEW c \in Clients, ClientCall(c) PROVE [Next]_vars
  <2>1. NewQueue(c) \/ StartFails(c, "plain") => Call(c)
    BY <1>0 DEF NewQueue, Call
  <2>2. Stopping(c) => Call(c) \/ UNCHANGED vars
    BY DEF Stopping, CancelAndWaitJoin, JoinEnded, ReleaseNewMessageQueueJoin, Joining,
       Joined, Call
  <2> QED BY <1>1, <2>1, <2>2 DEF ClientCall, CreateMessageQueue, CreateMessageQueueFails,
          CreateNewMessageQueue, CancelAndWait, ReleaseNewMessageQueue, Next
<1>2. CASE CreateNewMessageQueueEnd \/ Destructor
  BY <1>2 DEF CreateNewMessageQueueEnd, Destructor, Next
<1>3. ASSUME NEW t \in Tids, Pthread(t) \/ CancelInQueue(t) PROVE [Next]_vars
  BY <1>3 DEF Pthread, ThreadRunloop, RunLoopEnd, CancelInQueue, Routine, Next
<1>4. CASE CTerminated \/ UNCHANGED cvars
  BY <1>4 DEF CTerminated, cvars
<1> QED BY <1>1, <1>2, <1>3, <1>4 DEF CNext

-----------------------------------------------------------------------------
(* The inductive invariant.  A queue exists while its thread has not left  *)
(* the RunLoop.                                                            *)
QueueOfThread ==
  \A t \in Tids : /\ mode[t] = "plain"
                  /\ queue[t] = "none" <=> pc[t] = "none"
                  /\ queue[t] = "released" <=> pc[t] \in {"cleanup", "exited"}

(* messagequeue_id_ is the id of the only queue that is not broken.        *)
Named ==
  /\ messagequeue_id # 0 => /\ messagequeue_id = tid
                            /\ queue[tid] = "exists" /\ ~breakflag[tid]
  /\ \A t \in Tids : queue[t] = "exists" /\ ~breakflag[t] => messagequeue_id = t
  /\ \A t \in Tids : queue[t] = "none" => ~breakflag[t]

(* What client c joins is the thread of the queue it broke or a later one. *)
Stops(c) ==
  /\ broke[c] # 0 => broke[c] <= tid /\ queue[broke[c]] # "none" /\ breakflag[broke[c]]
  /\ cl[c].pc # "idle" => broke[c] # 0
  /\ cl[c].pc = "join" => object
  /\ cl[c].pc = "joining" => broke[c] <= cl[c].t /\ cl[c].t <= tid

(* A queue is broken by one stop only.                                     *)
OneStop == \A c, d \in Clients : broke[c] = broke[d] /\ broke[c] # 0 => c = d

(* While the object is alive only pthreads that have exited are given back.*)
ExitedGivenBack == object => \A t \in Tids : reclaim[t] # "no" => pc[t] = "exited"

(* The thread has exited, or the stop of an earlier queue waits for it.    *)
Ends(t) ==
  \/ pc[t] = "exited"
  \/ \E d \in Clients : broke[d] \in 1..(t - 1) /\ cl[d] = [pc |-> "joining", t |-> t]

CreaterInv ==
  /\ CTypeOK
  /\ QueueOfThread
  /\ Named
  /\ \A c \in Clients : Stops(c)
  /\ OneStop
  /\ ExitedGivenBack
  /\ \A t \in stopped : breakflag[t] /\ Ends(t)

LEMMA CreaterInit == CInit => CreaterInv
<1> SUFFICES ASSUME CInit PROVE CreaterInv
  OBVIOUS
<1>1. CTypeOK
  BY StartsAssumption DEF CInit, CTypeOK
<1>2. QueueOfThread
  BY DEF CInit, Init, QueueOfThread
<1>3. Named
  BY DEF CInit, Named
<1>4. \A c \in Clients : Stops(c)
  BY DEF CInit, Init, Stops, Idle
<1>5. stopped = {} /\ OneStop /\ ExitedGivenBack
  BY DEF CInit, Init, OneStop, ExitedGivenBack
<1> QED BY <1>1, <1>2, <1>3, <1>4, <1>5 DEF CreaterInv

(* A queue that was created and is not the current thread's has ended.     *)
LEMMA OlderExited ==
  ASSUME LifetimeInv, CreaterInv, NEW t \in Tids, queue[t] # "none", t # tid \/ isended
  PROVE  pc[t] = "exited"
BY DEF LifetimeInv, CreaterInv, QueueOfThread, Tids

(* pthread_join fails: the queue's thread has ended or is joined already.  *)
LEMMA FailedJoin ==
  ASSUME LifetimeInv, CreaterInv, NEW c \in Clients, cl[c].pc = "join", Unjoinable(tid)
  PROVE  broke[c] # 0 /\ Ends(broke[c])
<1>1. /\ broke[c] # 0 /\ broke[c] \in Tids /\ tid \in Nat /\ broke[c] \in Nat
      /\ broke[c] <= tid /\ queue[broke[c]] # "none" /\ object
  BY StartsAssumption DEF CreaterInv, CTypeOK, Stops, LifetimeInv, TypeOK, Tids
<1>2. CASE broke[c] # tid
  BY <1>1, <1>2, OlderExited DEF Ends
<1>3. CASE broke[c] = tid /\ reclaim[tid] # "no"
  BY <1>1, <1>3 DEF CreaterInv, ExitedGivenBack, Ends
<1>4. ASSUME broke[c] = tid, NEW d \in Clients, cl[d] = [pc |-> "joining", t |-> tid] PROVE Ends(broke[c])
  <2>1. cl[d].pc = "joining" /\ cl[d].t = tid /\ d # c
    BY <1>4
  <2>2. broke[d] # 0 /\ broke[d] \in Nat /\ broke[d] <= tid
    BY <2>1, StartsAssumption DEF CreaterInv, CTypeOK, Stops
  <2>3. broke[d] # tid
    BY <1>1, <1>4, <2>1 DEF CreaterInv, OneStop
  <2>4. broke[d] \in 1..(tid - 1)
    BY <1>1, <2>2, <2>3
  <2> QED BY <1>4, <2>4 DEF Ends
<1> QED BY <1>1, <1>2, <1>3, <1>4 DEF Unjoinable

(* What becomes of the invariant's last parts when neither a stop nor a    *)
(* join begins or ends, and pthreads that have exited stay so.             *)
LEMMA EndsKept ==
  ASSUME CreaterInv, UNCHANGED <<broke, cl, stopped>>,
         \A t \in Tids : breakflag[t] => breakflag'[t],
         \A t \in Tids : pc[t] = "exited" => pc'[t] = "exited"
  PROVE  OneStop' /\ \A t \in stopped' : breakflag'[t] /\ Ends(t)'
<1>1. OneStop'
  BY DEF CreaterInv, OneStop
<1>2. ASSUME NEW t \in stopped PROVE breakflag'[t] /\ Ends(t)'
  BY DEF CreaterInv, CTypeOK, Ends
<1> QED BY <1>1, <1>2

LEMMA NewQueuePreserves ==
  ASSUME LifetimeInv, CreaterInv, NEW c \in Clients, NewQueue(c), Ready(c)
  PROVE  CreaterInv'
<1>1. isended /\ tid \in Nat /\ tid + 1 \in Tids /\ tid + 1 # tid
  BY StartsAssumption DEF NewQueue, Start, AddRef, Isruning, LifetimeInv, TypeOK, Tids
<1>2. /\ tid' = tid + 1 /\ messagequeue_id' = tid + 1
      /\ queue' = [queue EXCEPT ![tid + 1] = "exists"]
      /\ pc' = [pc EXCEPT ![tid + 1] = "init"]
      /\ mode' = [mode EXCEPT ![tid + 1] = "plain"]
      /\ UNCHANGED <<cl, breakflag, broke, stopped>>
  BY DEF NewQueue, Start, AddRef, NextTid
<1>3. pc[tid + 1] = "none" /\ queue[tid + 1] = "none" /\ ~breakflag[tid + 1]
  BY <1>1 DEF LifetimeInv, CreaterInv, QueueOfThread, Named
<1>4. /\ pc \in [Tids -> Labels] /\ mode \in [Tids -> Modes]
      /\ queue \in [Tids -> {"none", "exists", "released"}]
  BY DEF LifetimeInv, TypeOK, CreaterInv, CTypeOK
<1>5. CTypeOK'
  BY <1>1, <1>2, <1>4 DEF CreaterInv, CTypeOK, Tids
<1>6. QueueOfThread'
  BY <1>1, <1>2, <1>4 DEF CreaterInv, QueueOfThread
<1>7. messagequeue_id = 0
  BY <1>1 DEF LifetimeInv, CreaterInv, Named, QueueOfThread, CTypeOK, Tids
<1>8. Named'
  BY <1>1, <1>2, <1>3, <1>4, <1>7 DEF CreaterInv, Named, Tids
<1>9. \A d \in Clients : Stops(d)'
  <2> SUFFICES ASSUME NEW d \in Clients PROVE Stops(d)'
    OBVIOUS
  <2>1. broke[d] \in 0..MaxStarts /\ cl[d].t \in 0..MaxStarts
    BY DEF CreaterInv, CTypeOK, LifetimeInv, TypeOK
  <2>2. Stops(d)
    BY DEF CreaterInv
  <2>3. broke[d] # 0 => queue'[broke[d]] # "none"
    BY <1>1, <1>2, <1>4, <2>1, <2>2 DEF Stops, Tids
  <2>4. object'
    BY DEF NewQueue, Start
  <2> QED BY <1>1, <1>2, <2>1, <2>2, <2>3, <2>4 DEF Stops
<1>10. OneStop' /\ \A t \in stopped' : breakflag'[t] /\ Ends(t)'
  BY <1>2, <1>3, <1>4, EndsKept
<1>11. ExitedGivenBack'
  <2>1. DetachOld /\ object
    BY DEF NewQueue, Start
  <2>2. tid # 0 => tid \in Tids /\ pc[tid] = "exited"
    BY <1>1 DEF LifetimeInv, TypeOK, Tids
  <2>3. \A t \in Tids : reclaim'[t] # "no" => reclaim[t] # "no" \/ t = tid
    BY <2>1, <2>2 DEF DetachOld, Reclaimed, LifetimeInv, TypeOK
  <2>4. \A t \in Tids : reclaim'[t] # "no" => pc[t] = "exited"
    BY <1>1, <2>1, <2>2, <2>3 DEF CreaterInv, ExitedGivenBack, Tids
  <2>5. \A t \in Tids : pc[t] = "exited" => pc'[t] = "exited"
    BY <1>1, <1>2, <1>3, <1>4
  <2> QED BY <2>4, <2>5 DEF ExitedGivenBack
<1> QED BY <1>5, <1>6, <1>8, <1>9, <1>10, <1>11 DEF CreaterInv

(* CancelAndWait and ReleaseNewMessageQueue up to the join.                *)
LEMMA BreakPreserves ==
  ASSUME LifetimeInv, CreaterInv, messagequeue_id # 0, Break(messagequeue_id),
         messagequeue_id' = 0, UNCHANGED <<vars, queue, stopped>>,
         broke' = broke \/ \E c \in Clients : /\ Ready(c)
                                              /\ broke' = [broke EXCEPT ![c] = messagequeue_id]
  PROVE  CreaterInv'
<1>1. messagequeue_id = tid /\ tid \in Tids /\ queue[tid] = "exists"
  BY DEF LifetimeInv, TypeOK, Tids, CreaterInv, Named, CTypeOK
<1>2. UNCHANGED <<tid, pc, mode, cl, object, reclaim>>
  BY DEF vars, ref, pthreads
<1>3. /\ breakflag' \in [Tids -> BOOLEAN] /\ breakflag'[tid] = TRUE
      /\ \A t \in Tids : t # tid => breakflag'[t] = breakflag[t]
  BY <1>1 DEF Break, CreaterInv, CTypeOK
<1>4. /\ broke' \in [Clients -> 0..MaxStarts]
      /\ \A c \in Clients : broke'[c] = broke[c] \/ broke'[c] = tid
      /\ \A c \in Clients : broke'[c] # broke[c] => cl[c] = Idle /\ broke[c] = 0
      /\ \A c, d \in Clients : broke'[c] # broke[c] /\ broke'[d] # broke[d] => c = d
  BY <1>1 DEF CreaterInv, CTypeOK, Ready
<1>5. CTypeOK'
  BY <1>3, <1>4, StartsAssumption DEF CreaterInv, CTypeOK
<1>6. QueueOfThread'
  BY <1>2 DEF CreaterInv, QueueOfThread
<1>7. Named'
  BY <1>1, <1>2, <1>3 DEF CreaterInv, Named
<1>8. \A c \in Clients : Stops(c)'
  <2> SUFFICES ASSUME NEW c \in Clients PROVE Stops(c)'
    OBVIOUS
  <2>1. CASE broke'[c] = broke[c]
    <3>1. broke[c] # 0 => broke[c] \in Tids
      BY DEF CreaterInv, CTypeOK, Tids
    <3>2. broke[c] # 0 => breakflag'[broke[c]]
      BY <1>3, <3>1 DEF CreaterInv, Stops
    <3> QED BY <1>2, <2>1, <3>2 DEF CreaterInv, Stops
  <2>2. CASE broke'[c] # broke[c]
    <3>1. cl[c].pc = "idle" /\ broke'[c] = tid /\ tid \in Nat
      BY <1>1, <1>4, <2>2 DEF Idle, Tids
    <3> QED BY <1>1, <1>2, <1>3, <3>1 DEF Stops
  <2> QED BY <2>1, <2>2
<1>9. \A c \in Clients : broke[c] # tid
  BY <1>1 DEF CreaterInv, Stops, Named, Tids
<1>10. OneStop'
  <2> SUFFICES ASSUME NEW c \in Clients, NEW d \in Clients, broke'[c] = broke'[d], broke'[c] # 0 PROVE c = d
    BY DEF OneStop
  <2> QED BY <1>4, <1>9 DEF CreaterInv, OneStop
<1>11. ASSUME NEW t \in stopped PROVE breakflag'[t] /\ Ends(t)'
  <2>1. t \in Tids /\ breakflag[t] /\ Ends(t)
    BY DEF CreaterInv, CTypeOK
  <2>2. breakflag'[t]
    BY <1>3, <2>1
  <2>3. ASSUME NEW d \in Clients, broke[d] \in 1..(t - 1) PROVE broke'[d] = broke[d]
    BY <1>4, <2>3
  <2> QED BY <1>2, <2>1, <2>2, <2>3 DEF Ends
<1>12. ExitedGivenBack'
  BY <1>2 DEF CreaterInv, ExitedGivenBack
<1> QED BY <1>5, <1>6, <1>7, <1>8, <1>10, <1>11, <1>12 DEF CreaterInv

(* A stop returns when the thread of the queue has exited, or is joined    *)
(* already; one that has joined returns when the pthread it joined exited. *)
LEMMA ReturnPreserves ==
  ASSUME LifetimeInv, CreaterInv, NEW c \in Clients, broke[c] # 0, Return(c),
         Ends(broke[c]), cl[c].pc = "joining" => pc[cl[c].t] = "exited",
         UNCHANGED <<tid, pc, mode, object>>,
         object => \A t \in Tids : reclaim'[t] # "no" => reclaim[t] # "no" \/ pc[t] = "exited",
         cl' = [cl EXCEPT ![c] = Idle] \/ (cl' = cl /\ cl[c] = Idle)
  PROVE  CreaterInv'
<1>1. UNCHANGED <<messagequeue_id, queue, breakflag>>
  BY DEF Return
<1>2. broke[c] \in Tids
  BY DEF CreaterInv, CTypeOK, Tids
<1>3. CTypeOK'
  BY <1>1, <1>2, StartsAssumption DEF CreaterInv, CTypeOK, Return
<1>4. QueueOfThread' /\ Named'
  BY <1>1 DEF CreaterInv, QueueOfThread, Named
<1>5. \A d \in Clients : Stops(d)'
  <2> SUFFICES ASSUME NEW d \in Clients PROVE Stops(d)'
    OBVIOUS
  <2>1. CASE d = c
    <3>1. broke'[d] = 0 /\ cl'[d] = Idle
      BY <2>1 DEF Return, CreaterInv, CTypeOK, LifetimeInv, TypeOK
    <3> QED BY <3>1 DEF Stops, Idle
  <2>2. CASE d # c
    <3>1. broke'[d] = broke[d] /\ cl'[d] = cl[d]
      BY <2>2 DEF Return, CreaterInv, CTypeOK, LifetimeInv, TypeOK
    <3> QED BY <1>1, <3>1 DEF Stops, CreaterInv
  <2> QED BY <2>1, <2>2
<1>6. \A d \in Clients : d # c => broke'[d] = broke[d] /\ cl'[d] = cl[d]
  BY DEF Return, CreaterInv, CTypeOK, LifetimeInv, TypeOK
<1>7. OneStop'
  <2>1. broke'[c] = 0
    BY DEF Return, CreaterInv, CTypeOK
  <2> QED BY <1>6, <2>1 DEF CreaterInv, OneStop
<1>8. ASSUME NEW t \in Tids, Ends(t), t = broke[c] \/ t \in stopped PROVE Ends(t)'
  <2>1. CASE pc[t] = "exited"
    BY <2>1 DEF Ends
  <2>2. ASSUME pc[t] # "exited", NEW d \in Clients, broke[d] \in 1..(t - 1),
               cl[d] = [pc |-> "joining", t |-> t]
        PROVE  Ends(t)'
    <3>1. d # c
      BY <2>2
    <3> QED BY <1>6, <2>2, <3>1 DEF Ends
  <2> QED BY <1>8, <2>1, <2>2 DEF Ends
<1>9. \A t \in stopped' : breakflag'[t] /\ Ends(t)'
  <2>1. breakflag[broke[c]] /\ stopped' = stopped \cup {broke[c]}
    BY DEF CreaterInv, Stops, Return
  <2> QED BY <1>1, <1>2, <1>8, <2>1 DEF CreaterInv, CTypeOK
<1>10. ExitedGivenBack'
  BY DEF CreaterInv, ExitedGivenBack
<1> QED BY <1>3, <1>4, <1>5, <1>7, <1>9, <1>10 DEF CreaterInv

(* Steps of the join before it returns.                                    *)
LEMMA JoiningPreserves ==
  ASSUME LifetimeInv, CreaterInv, NEW c \in Clients, broke[c] # 0,
         UNCHANGED creater, UNCHANGED <<tid, pc, mode, object, reclaim>>,
         cl[c].pc # "joining",
         \/ cl' = [cl EXCEPT ![c] = [pc |-> "join", t |-> 0]] /\ object
         \/ cl' = [cl EXCEPT ![c] = [pc |-> "joining", t |-> tid]]
  PROVE  CreaterInv'
<1>1. UNCHANGED <<messagequeue_id, queue, breakflag, broke, stopped>>
  BY DEF creater
<1>2. CTypeOK' /\ QueueOfThread' /\ Named' /\ OneStop' /\ ExitedGivenBack'
  BY <1>1 DEF CreaterInv, CTypeOK, QueueOfThread, Named, OneStop, ExitedGivenBack
<1>3. \A d \in Clients : Stops(d)'
  <2> SUFFICES ASSUME NEW d \in Clients PROVE Stops(d)'
    OBVIOUS
  <2>0. Stops(d) /\ tid \in Nat
    BY DEF CreaterInv, LifetimeInv, TypeOK
  <2>1. CASE d = c
    <3>1. (cl'[d] = [pc |-> "join", t |-> 0] /\ object) \/ cl'[d] = [pc |-> "joining", t |-> tid]
      BY <2>1 DEF LifetimeInv, TypeOK
    <3> QED BY <1>1, <2>0, <2>1, <3>1 DEF Stops
  <2>2. CASE d # c
    <3>1. cl'[d] = cl[d]
      BY <2>2 DEF LifetimeInv, TypeOK
    <3> QED BY <1>1, <2>0, <3>1 DEF Stops
  <2> QED BY <2>1, <2>2
<1>4. ASSUME NEW t \in stopped PROVE breakflag'[t] /\ Ends(t)'
  <2>1. \A d \in Clients : cl[d] = [pc |-> "joining", t |-> t] => cl'[d] = cl[d]
    BY DEF LifetimeInv, TypeOK
  <2> QED BY <1>1, <2>1 DEF CreaterInv, Ends
<1> QED BY <1>1, <1>2, <1>3, <1>4 DEF CreaterInv

(* A step of the pthread: its queue leaves the map with the RunLoop.       *)
LEMMA PthreadPreserves ==
  ASSUME LifetimeInv, CreaterInv, NEW t \in Tids, Pthread(t)
  PROVE  CreaterInv'
<1>1. PICK label \in {"run", "running", "cleanup", "exited"} :
        /\ pc' = [pc EXCEPT ![t] = label]
        /\ \/ label \in {"run", "running"} /\ queue' = queue
              /\ pc[t] \in {"init", "run"}
           \/ label = "cleanup" /\ queue' = [queue EXCEPT ![t] = "released"]
              /\ pc[t] = "running" /\ breakflag[t]
           \/ label = "exited" /\ queue' = queue /\ pc[t] = "cleanup"
  <2>0. mode[t] = "plain"
    BY DEF CreaterInv, QueueOfThread
  <2>1. CASE ThreadRunloop(t)
    BY <2>1 DEF ThreadRunloop, RunBegin, Goto, creater
  <2>2. CASE RunLoopEnd(t)
    BY <2>0, <2>2 DEF RunLoopEnd, RunEnd, Goto
  <2>3. CASE InitThread(t) /\ UNCHANGED creater
    BY <2>0, <2>3 DEF InitThread, Goto, creater
  <2>4. CASE Cleanup(t) /\ UNCHANGED creater
    BY <2>4 DEF Cleanup, Goto, creater
  <2> QED BY <2>1, <2>2, <2>3, <2>4 DEF Pthread
<1>2. UNCHANGED <<tid, mode, cl, messagequeue_id, breakflag, broke, stopped, object, reclaim>>
  BY DEF Pthread, ThreadRunloop, RunBegin, RunLoopEnd, RunEnd, InitThread, Cleanup, creater, ref
<1>3. pc \in [Tids -> Labels] /\ queue \in [Tids -> {"none", "exists", "released"}]
  BY DEF LifetimeInv, TypeOK, CreaterInv, CTypeOK
<1>4. pc'[t] = label /\ pc[t] # "none" /\ \A u \in Tids : u # t => pc'[u] = pc[u] /\ queue'[u] = queue[u]
  BY <1>1, <1>3
<1>5. /\ queue'[t] = (IF label \in {"cleanup", "exited"} THEN "released" ELSE "exists")
      /\ queue[t] = (IF pc[t] = "cleanup" THEN "released" ELSE "exists")
  BY <1>1, <1>3 DEF CreaterInv, QueueOfThread
<1>6. CTypeOK'
  BY <1>1, <1>2, <1>3 DEF CreaterInv, CTypeOK
<1>7. QueueOfThread'
  <2> SUFFICES ASSUME NEW u \in Tids
               PROVE  /\ mode'[u] = "plain"
                      /\ queue'[u] = "none" <=> pc'[u] = "none"
                      /\ queue'[u] = "released" <=> pc'[u] \in {"cleanup", "exited"}
    BY DEF QueueOfThread
  <2>1. CASE u = t
    BY <1>2, <1>4, <1>5, <2>1 DEF CreaterInv, QueueOfThread
  <2>2. CASE u # t
    BY <1>2, <1>4, <2>2 DEF CreaterInv, QueueOfThread
  <2> QED BY <2>1, <2>2
<1>8. Named'
  <2>1. queue'[t] = queue[t] \/ breakflag[t]
    BY <1>1, <1>3, <1>5
  <2>2. queue'[t] = "exists" => queue[t] = "exists"
    BY <1>1, <1>5
  <2>3. queue'[t] # "none"
    BY <1>5
  <2>4. messagequeue_id # 0 => messagequeue_id \in Tids
    BY DEF CreaterInv, CTypeOK, Tids
  <2>5. ASSUME messagequeue_id # 0 PROVE queue'[tid] = "exists"
    BY <1>4, <2>1, <2>4, <2>5 DEF CreaterInv, Named
  <2>6. ASSUME NEW u \in Tids
        PROVE  /\ queue'[u] = "exists" => queue[u] = "exists"
               /\ queue'[u] = "none" => queue[u] = "none"
    BY <1>4, <2>2, <2>3
  <2> QED BY <1>2, <2>5, <2>6 DEF CreaterInv, Named
<1>9. \A c \in Clients : Stops(c)'
  <2> SUFFICES ASSUME NEW c \in Clients PROVE Stops(c)'
    OBVIOUS
  <2>1. broke[c] # 0 => broke[c] \in Tids
    BY DEF CreaterInv, CTypeOK, Tids
  <2>2. broke[c] # 0 => queue'[broke[c]] # "none"
    BY <1>4, <1>5, <2>1 DEF CreaterInv, Stops
  <2> QED BY <1>2, <2>2 DEF CreaterInv, Stops
<1>10. \A u \in Tids : pc[u] = "exited" => pc'[u] = "exited"
  BY <1>1, <1>4
<1>11. OneStop' /\ \A u \in stopped' : breakflag'[u] /\ Ends(u)'
  BY <1>2, <1>10, EndsKept
<1>12. ExitedGivenBack'
  BY <1>2, <1>10 DEF CreaterInv, ExitedGivenBack
<1> QED BY <1>6, <1>7, <1>8, <1>9, <1>11, <1>12 DEF CreaterInv

(* Steps that leave everything the invariant mentions alone.               *)
LEMMA OthersPreserve ==
  ASSUME CreaterInv, UNCHANGED creater, UNCHANGED <<tid, mode, pc, cl>>, ExitedGivenBack',
         object' \/ \A c \in Clients : cl[c].pc # "join"
  PROVE  CreaterInv'
<1>1. UNCHANGED <<messagequeue_id, queue, breakflag, broke, stopped>>
  BY DEF creater
<1>2. CTypeOK' /\ QueueOfThread' /\ Named' /\ \A c \in Clients : Stops(c)'
  BY <1>1 DEF CreaterInv, CTypeOK, QueueOfThread, Named, Stops
<1>3. OneStop' /\ \A t \in stopped' : breakflag'[t] /\ Ends(t)'
  BY <1>1, EndsKept
<1> QED BY <1>2, <1>3 DEF CreaterInv

LEMMA CreaterStep == LifetimeInv /\ CreaterInv /\ [CNext]_cvars => CreaterInv'
<1> SUFFICES ASSUME LifetimeInv, CreaterInv, [CNext]_cvars PROVE CreaterInv'
  OBVIOUS
<1>1. ASSUME NEW c \in Clients, ClientCall(c) PROVE CreaterInv'
  <2>1. CASE CreateMessageQueue(c) \/ CreateNewMessageQueue(c)
    BY <2>1, NewQueuePreserves DEF CreateMessageQueue, CreateNewMessageQueue
  <2>2. CASE CreateMessageQueueFails(c)
    <3>1. UNCHANGED creater /\ UNCHANGED <<tid, mode, pc, cl, object>> /\ object /\ DetachOld /\ isended
      BY <2>2 DEF CreateMessageQueueFails, StartFails, Isruning
    <3>2. tid # 0 => tid \in Tids /\ pc[tid] = "exited"
      BY <3>1 DEF LifetimeInv, TypeOK, Tids
    <3>3. \A t \in Tids : reclaim'[t] # "no" => reclaim[t] # "no" \/ (t = tid /\ tid # 0)
      BY <3>1, <3>2 DEF DetachOld, Reclaimed, LifetimeInv, TypeOK
    <3>4. ExitedGivenBack'
      BY <3>1, <3>2, <3>3 DEF CreaterInv, ExitedGivenBack
    <3> QED BY <3>1, <3>4, OthersPreserve
  <2>3. CASE CancelAndWait(c) \/ ReleaseNewMessageQueue(c)
    BY <2>3, BreakPreserves DEF CancelAndWait, ReleaseNewMessageQueue
  <2>4. ASSUME broke[c] # 0, JoinEnded(c), cl[c] = Idle PROVE CreaterInv'
    <3>1. UNCHANGED <<tid, pc, mode, cl, object, reclaim>> /\ Return(c) /\ isended
      BY <2>4 DEF JoinEnded, vars, ref, pthreads, Isruning
    <3>2. broke[c] \in Tids /\ queue[broke[c]] # "none" /\ cl[c].pc = "idle"
      BY <2>4 DEF CreaterInv, CTypeOK, Stops, Tids, Idle
    <3>3. Ends(broke[c])
      BY <3>1, <3>2, OlderExited DEF Ends
    <3> QED BY <2>4, <3>1, <3>2, <3>3, ReturnPreserves
  <2>5. CASE CancelAndWaitJoin(c)
    <3>1. ASSUME broke[c] # 0, Join(c), UNCHANGED creater PROVE CreaterInv'
      <4>1. /\ UNCHANGED <<tid, pc, mode, object, reclaim>> /\ object /\ cl[c] = Idle
            /\ cl' = [cl EXCEPT ![c] = [pc |-> "join", t |-> 0]]
        BY <3>1 DEF Join, pthreads
      <4>2. cl[c].pc # "joining"
        BY <4>1 DEF Idle
      <4> QED BY <3>1, <4>1, <4>2, JoiningPreserves
    <3> QED BY <2>4, <2>5, <3>1 DEF CancelAndWaitJoin
  <2>6. CASE ReleaseNewMessageQueueJoin(c)
    BY <2>6, JoiningPreserves DEF ReleaseNewMessageQueueJoin, OutsideJoin, pthreads, ref, Idle
  <2>7. CASE Joining(c)
    <3>1. /\ broke[c] # 0 /\ cl[c].pc = "join" /\ UNCHANGED <<tid, pc, mode, object, reclaim>>
      BY <2>7 DEF Joining, JoinBegin, CreaterInv, Stops, pthreads, ref
    <3>2. CASE Unjoinable(tid)
      <4>1. cl' = [cl EXCEPT ![c] = Idle] /\ Return(c)
        BY <2>7, <3>2 DEF Joining, JoinBegin
      <4>2. Ends(broke[c])
        BY <3>1, <3>2, FailedJoin
      <4> QED BY <3>1, <4>1, <4>2, ReturnPreserves
    <3>3. CASE ~Unjoinable(tid)
      <4>1. cl' = [cl EXCEPT ![c] = [pc |-> "joining", t |-> tid]] /\ UNCHANGED creater
        BY <2>7, <3>3 DEF Joining, JoinBegin
      <4> QED BY <3>1, <4>1, JoiningPreserves
    <3> QED BY <3>2, <3>3
  <2>8. CASE Joined(c)
    <3>1. /\ cl[c].pc = "joining" /\ pc[cl[c].t] = "exited" /\ Return(c)
          /\ cl' = [cl EXCEPT ![c] = Idle] /\ UNCHANGED <<tid, pc, mode, object>>
          /\ reclaim' = Reclaimed(cl[c].t, "joined")
      BY <2>8 DEF Joined, JoinEnd, ref
    <3>2. /\ broke[c] # 0 /\ broke[c] \in Tids /\ queue[broke[c]] # "none"
          /\ broke[c] <= cl[c].t /\ cl[c].t <= tid
      BY <3>1 DEF CreaterInv, CTypeOK, Stops, Tids
    <3>3. pc[broke[c]] = "exited"
      <4>1. cl[c].t \in Nat /\ tid \in Nat /\ broke[c] \in Nat
        BY <3>2 DEF LifetimeInv, TypeOK, Tids
      <4>2. broke[c] = cl[c].t \/ broke[c] # tid
        BY <3>2, <4>1
      <4> QED BY <3>1, <3>2, <4>2, OlderExited
    <3>4. \A t \in Tids : reclaim'[t] # "no" => reclaim[t] # "no" \/ pc[t] = "exited"
      BY <3>1 DEF Reclaimed, LifetimeInv, TypeOK
    <3>5. Ends(broke[c])
      BY <3>3 DEF Ends
    <3> QED BY <3>1, <3>2, <3>4, <3>5, ReturnPreserves
  <2> QED BY <1>1, <2>1, <2>2, <2>3, <2>5, <2>6, <2>7, <2>8 DEF ClientCall, Stopping
<1>2. CASE CreateNewMessageQueueEnd \/ Destructor
  <2>1. ~object' /\ Unused /\ UNCHANGED creater /\ UNCHANGED <<tid, mode, pc, cl>>
    BY <1>2 DEF CreateNewMessageQueueEnd, Destructor, Destroy
  <2>2. \A c \in Clients : cl[c].pc # "join"
    BY <2>1 DEF Unused, Idle
  <2> QED BY <2>1, <2>2, OthersPreserve DEF ExitedGivenBack
<1>3. ASSUME NEW t \in Tids, CancelInQueue(t) PROVE CreaterInv'
  BY <1>3, BreakPreserves DEF CancelInQueue
<1>4. CASE CTerminated \/ UNCHANGED cvars
  <2>1. UNCHANGED creater /\ UNCHANGED <<tid, mode, pc, cl, object, reclaim>>
    BY <1>4 DEF CTerminated, cvars, vars, ref, pthreads
  <2>2. ExitedGivenBack' /\ (object \/ \A c \in Clients : cl[c].pc # "join")
    BY <2>1 DEF CreaterInv, ExitedGivenBack, Stops
  <2> QED BY <2>1, <2>2, OthersPreserve
<1> QED BY <1>1, <1>2, <1>3, <1>4, PthreadPreserves DEF CNext

LEMMA CreaterInvariant == CSpec => [](LifetimeInv /\ CreaterInv)
<1>1. CInit => LifetimeInv /\ CreaterInv
  BY LifetimeInit, CreaterInit DEF CInit
<1>2. (LifetimeInv /\ CreaterInv) /\ [CNext]_cvars => (LifetimeInv /\ CreaterInv)'
  BY LifetimeStep, CreaterStep, CreaterStepIsThreadStep
<1> QED BY <1>1, <1>2, PTL DEF CSpec

(* The id CreateMessageQueue returns is a live, unbroken queue or invalid. *)
THEOREM CurrentQueueIsLive == CSpec => []CurrentQueueLives
<1>1. CreaterInv => CurrentQueueLives
  BY DEF CreaterInv, Named, CurrentQueueLives
<1> QED BY <1>1, CreaterInvariant, PTL

(* Every queue that nobody has broken can still be stopped through the id. *)
THEOREM NoQueueIsLost == CSpec => []NoOrphanQueue
<1>1. CreaterInv => NoOrphanQueue
  BY DEF CreaterInv, Named, NoOrphanQueue
<1> QED BY <1>1, CreaterInvariant, PTL

(* When a stop has returned to one of any number of concurrent callers,    *)
(* the queue it broke is gone and its thread has exited, except after a    *)
(* failed pthread_join: then a stop of an earlier queue waits for it.      *)
THEOREM StopWaitsForExit == CSpec => []StoppedMeansEnding
<1>1. CreaterInv => StoppedMeansEnding
  BY DEF CreaterInv, CTypeOK, QueueOfThread, StoppedMeansEnding, Ends
<1> QED BY <1>1, CreaterInvariant, PTL

-----------------------------------------------------------------------------
(* A pthread that still has to lock messagequeue_mutex_ runs a queue that  *)
(* messagequeue_id_ names or that a client is stopping or waiting for.     *)
WaitedFor(t) ==
  \E c \in Clients : broke[c] # 0 /\ (broke[c] = t \/ cl[c] = [pc |-> "joining", t |-> t])
Awaited ==
  \A t \in Tids : pc[t] \in {"init", "run"} /\ ~outside_join =>
    object /\ (messagequeue_id = t \/ WaitedFor(t))

(* A stop returns only when the pthreads it knows of have exited or        *)
(* somebody else waits for them.                                           *)
LEMMA AwaitedReturn ==
  ASSUME LifetimeInv, CreaterInv, Awaited, NEW c \in Clients, Return(c), Ends(broke[c]),
         cl[c].pc = "joining" => pc[cl[c].t] = "exited",
         cl' = [cl EXCEPT ![c] = Idle] \/ cl' = cl,
         UNCHANGED <<outside_join, object, pc>>
  PROVE  Awaited'
<1> SUFFICES ASSUME NEW t \in Tids, pc[t] \in {"init", "run"}, ~outside_join
             PROVE  object /\ (messagequeue_id = t \/ WaitedFor(t)')
  BY DEF Awaited, Return
<1>1. CASE messagequeue_id = t
  BY <1>1 DEF Awaited
<1>2. \A d \in Clients : d # c => broke'[d] = broke[d] /\ cl'[d] = cl[d]
  BY DEF Return, CreaterInv, CTypeOK, LifetimeInv, TypeOK
<1>3. ASSUME broke[c] = t PROVE WaitedFor(t)'
  <2>1. PICK d \in Clients : broke[d] \in 1..(t - 1) /\ cl[d] = [pc |-> "joining", t |-> t]
    BY <1>3 DEF Ends
  <2>2. d # c
    BY <1>3, <2>1
  <2>3. broke'[d] # 0 /\ cl'[d] = [pc |-> "joining", t |-> t]
    BY <1>2, <2>1, <2>2
  <2> QED BY <2>3 DEF WaitedFor
<1>4. ASSUME NEW d \in Clients, d # c, broke[d] # 0, broke[d] = t \/ cl[d] = [pc |-> "joining", t |-> t]
      PROVE  WaitedFor(t)'
  BY <1>2, <1>4 DEF WaitedFor
<1>5. cl[c] # [pc |-> "joining", t |-> t]
  OBVIOUS
<1> QED BY <1>1, <1>3, <1>4, <1>5 DEF Awaited, WaitedFor

(* Whoever waits for a pthread does so until its own stop returns.         *)
LEMMA WaitedForKept ==
  ASSUME CreaterInv, LifetimeInv, NEW t \in Tids, WaitedFor(t), NEW c \in Clients,
         \A d \in Clients : broke[d] # 0 => broke'[d] = broke[d],
         \A d \in Clients : cl[d].pc = "joining" => cl'[d] = cl[d]
  PROVE  WaitedFor(t)'
<1>1. PICK d \in Clients : broke[d] # 0 /\ (broke[d] = t \/ cl[d] = [pc |-> "joining", t |-> t])
  BY DEF WaitedFor
<1>2. cl[d] = [pc |-> "joining", t |-> t] => cl'[d] = cl[d]
  OBVIOUS
<1> QED BY <1>1, <1>2 DEF WaitedFor

LEMMA AwaitedStep ==
  ASSUME LifetimeInv, CreaterInv, Awaited, [CNext]_cvars PROVE Awaited'
<1>0. /\ tid \in 0..MaxStarts /\ pc \in [Tids -> Labels] /\ broke \in [Clients -> 0..MaxStarts]
      /\ \A t \in Tids : pc[t] \in {"init", "run"} => t = tid /\ ~isended
  BY ActiveIsTid DEF LifetimeInv, TypeOK, CreaterInv, CTypeOK, Active
<1>1. ASSUME NEW c \in Clients, CreateMessageQueue(c) \/ CreateNewMessageQueue(c) PROVE Awaited'
  <2>1. /\ isended /\ object /\ messagequeue_id' = tid + 1 /\ pc' = [pc EXCEPT ![tid + 1] = "init"]
        /\ UNCHANGED <<outside_join, object, cl, broke>>
    BY <1>1 DEF CreateMessageQueue, CreateNewMessageQueue, NewQueue, Start, Isruning, NextTid
  <2>2. \A t \in Tids : pc'[t] \in {"init", "run"} => t = tid + 1
    BY <1>0, <2>1
  <2> QED BY <2>1, <2>2 DEF Awaited
<1>2. ASSUME NEW c \in Clients, CreateMessageQueueFails(c) PROVE Awaited'
  BY <1>2 DEF CreateMessageQueueFails, StartFails, creater, Awaited, WaitedFor
<1>3. ASSUME NEW c \in Clients, CancelAndWait(c) \/ ReleaseNewMessageQueue(c) PROVE Awaited'
  <2>1. /\ UNCHANGED <<outside_join, object, pc, cl>> /\ broke[c] = 0
        /\ broke' = [broke EXCEPT ![c] = messagequeue_id]
    BY <1>3 DEF CancelAndWait, ReleaseNewMessageQueue, Ready, vars, pthreads
  <2> SUFFICES ASSUME NEW t \in Tids, pc[t] \in {"init", "run"}, ~outside_join
               PROVE  object /\ WaitedFor(t)'
    BY <2>1 DEF Awaited
  <2>2. CASE messagequeue_id = t
    <3>1. broke'[c] = t /\ t # 0
      BY <1>0, <2>1, <2>2 DEF Tids
    <3> QED BY <2>2, <3>1 DEF Awaited, WaitedFor
  <2>3. CASE WaitedFor(t)
    BY <1>0, <2>1, <2>3, WaitedForKept DEF Awaited
  <2> QED BY <2>2, <2>3 DEF Awaited
<1>4. ASSUME NEW c \in Clients, Stopping(c) PROVE Awaited'
  <2>1. CASE CancelAndWaitJoin(c) /\ JoinEnded(c)
    <3>1. /\ UNCHANGED <<outside_join, object, pc, cl>> /\ Return(c) /\ isended
          /\ broke[c] \in Tids /\ queue[broke[c]] # "none" /\ cl[c].pc = "idle"
      BY <2>1 DEF CancelAndWaitJoin, JoinEnded, Isruning, vars, pthreads, CreaterInv, CTypeOK, Stops,
         Tids, Idle
    <3>2. Ends(broke[c])
      BY <3>1, OlderExited DEF Ends
    <3> QED BY <3>1, <3>2, AwaitedReturn
  <2>2. CASE Joined(c)
    <3>1. /\ UNCHANGED <<outside_join, object, pc>> /\ Return(c)
          /\ cl' = [cl EXCEPT ![c] = Idle]
          /\ cl[c].pc = "joining" /\ pc[cl[c].t] = "exited"
      BY <2>2 DEF Joined, JoinEnd
    <3>2. /\ broke[c] \in Tids /\ queue[broke[c]] # "none" /\ cl[c].t \in Nat
          /\ broke[c] <= cl[c].t /\ cl[c].t <= tid
      BY <3>1, StartsAssumption DEF CreaterInv, CTypeOK, Stops, Tids, LifetimeInv, TypeOK
    <3>3. broke[c] = cl[c].t \/ broke[c] # tid
      BY <1>0, <3>2 DEF Tids
    <3>4. Ends(broke[c])
      BY <3>1, <3>2, <3>3, OlderExited DEF Ends
    <3> QED BY <3>1, <3>4, AwaitedReturn
  <2>3. CASE Joining(c) /\ Unjoinable(tid)
    <3>1. /\ UNCHANGED <<outside_join, object, pc>> /\ Return(c)
          /\ cl' = [cl EXCEPT ![c] = Idle] /\ cl[c].pc = "join"
      BY <2>3 DEF Joining, JoinBegin, pthreads
    <3>2. Ends(broke[c])
      BY <2>3, <3>1, FailedJoin
    <3> QED BY <3>1, <3>2, AwaitedReturn
  <2>4. CASE \/ CancelAndWaitJoin(c) /\ ~JoinEnded(c)
             \/ ReleaseNewMessageQueueJoin(c)
             \/ Joining(c) /\ ~Unjoinable(tid)
    <3>1. /\ UNCHANGED <<outside_join, object, pc, messagequeue_id, broke>>
          /\ cl[c].pc # "joining"
      BY <2>4 DEF CancelAndWaitJoin, Join, ReleaseNewMessageQueueJoin, OutsideJoin, Joining, JoinBegin,
         pthreads, creater, Idle
    <3>2. \A d \in Clients : d # c => cl'[d] = cl[d]
      BY <2>4 DEF CancelAndWaitJoin, Join, ReleaseNewMessageQueueJoin, OutsideJoin, Joining, JoinBegin,
         LifetimeInv, TypeOK
    <3>3. \A t \in Tids : WaitedFor(t) => WaitedFor(t)'
      BY <3>1, <3>2, WaitedForKept
    <3> QED BY <3>1, <3>3 DEF Awaited
  <2> QED BY <1>4, <2>1, <2>2, <2>3, <2>4 DEF Stopping
<1>5. CASE CreateNewMessageQueueEnd
  BY <1>5 DEF CreateNewMessageQueueEnd, Destroy, Awaited
<1>6. CASE Destructor
  <2>1. \A t \in Tids : pc[t] \notin {"init", "run"}
    <3>1. ~outside_join /\ messagequeue_id = 0 /\ \A c \in Clients : broke[c] = 0
      BY <1>6 DEF Destructor
    <3>2. \A t \in Tids : ~WaitedFor(t) /\ t # 0
      BY <3>1 DEF WaitedFor, Tids
    <3> QED BY <3>1, <3>2 DEF Awaited
  <2> QED BY <1>6, <2>1 DEF Destructor, Destroy, Awaited
<1>7. ASSUME NEW t \in Tids, CancelInQueue(t) PROVE Awaited'
  <2>1. t \in Active
    BY <1>7 DEF CancelInQueue, Active
  <2>2. t = tid
    BY <2>1, ActiveIsTid
  <2>3. \A u \in Tids : pc[u] \notin {"init", "run"}
    BY <1>0, <1>7, <2>2 DEF CancelInQueue
  <2> QED BY <1>7, <2>3 DEF CancelInQueue, vars, pthreads, Awaited
<1>8. ASSUME NEW t \in Tids, Pthread(t) PROVE Awaited'
  <2>1. UNCHANGED <<outside_join, object, messagequeue_id, broke, cl>>
    BY <1>8 DEF Pthread, ThreadRunloop, RunBegin, RunLoopEnd, RunEnd, InitThread, Cleanup, creater
  <2>2. \A u \in Tids : pc'[u] \in {"init", "run"} => pc[u] \in {"init", "run"}
    BY <1>0, <1>8 DEF Pthread, ThreadRunloop, RunBegin, RunLoopEnd, RunEnd, InitThread, Cleanup, Goto
  <2> QED BY <2>1, <2>2 DEF Awaited, WaitedFor
<1>9. CASE CTerminated \/ UNCHANGED cvars
  BY <1>9 DEF CTerminated, cvars, vars, pthreads, creater, Awaited, WaitedFor
<1> QED BY <1>1, <1>2, <1>3, <1>4, <1>5, <1>6, <1>7, <1>8, <1>9 DEF CNext, ClientCall

(* No pthread locks messagequeue_mutex_ after the creater that owns the    *)
(* mutex has been destroyed: every queue somebody broke is waited for.     *)
THEOREM MutexIsAlive == CSpec => []MutexOutlivesUse
<1>1. CInit => Awaited
  BY DEF CInit, Init, Awaited
<1>2. (LifetimeInv /\ CreaterInv) /\ Awaited /\ [CNext]_cvars => Awaited'
  BY AwaitedStep
<1>3. Awaited => MutexOutlivesUse
  BY DEF Awaited, MutexOutlivesUse
<1> QED BY <1>1, <1>2, <1>3, CreaterInvariant, PTL DEF CSpec
=============================================================================
