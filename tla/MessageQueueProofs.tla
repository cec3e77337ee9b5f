------------------------- MODULE MessageQueueProofs -------------------------
(***************************************************************************)
(* Invariance proofs for MessageQueue, for every set of clients, titles    *)
(* and timings and every bound.                                            *)
(***************************************************************************)
EXTENDS MessageQueue, WellFoundedInduction, TLAPS

(* A nonempty set of naturals has a least element, and Min returns it.     *)
LEMMA MinIn ==
  ASSUME NEW S \in SUBSET Nat, S # {}
  PROVE  Min(S) \in S /\ \A y \in S : Min(S) =< y
<1> DEFINE R == OpToRel(<, Nat)
<1>1. IsWellFoundedOn(R, Nat)
  BY NatLessThanWellFounded
<1>2. PICK x \in S : \A y \in S : ~ (<<y, x>> \in R)
  <2> HIDE DEF R
  <2> QED BY <1>1, WFMin
<1>0. R = {ss \in Nat \X Nat : ss[1] < ss[2]}
  BY Zenon DEF OpToRel
<1>3. \A y \in S : x =< y
  <2> HIDE DEF R
  <2> SUFFICES ASSUME NEW y \in S PROVE x =< y
    OBVIOUS
  <2>1. <<y, x>> \notin {ss \in Nat \X Nat : ss[1] < ss[2]}
    BY <1>0, <1>2
  <2> QED BY <2>1
<1> QED BY <1>3 DEF Min

-----------------------------------------------------------------------------
(* Type correctness.  The helpers first: what each leaves well typed.      *)

LEMMA PendingMin ==
  ASSUME TypeOK, NEW W \in SUBSET lst_message, W # {}
  PROVE  Min(W) \in W /\ Min(W) \in Wrappers
<1>1. W \in SUBSET Nat
  BY DEF TypeOK
<1>2. Min(W) \in W
  BY <1>1, MinIn
<1>3. lst_message \subseteq Wrappers
  BY BoundsAssumption DEF TypeOK, Wrappers
<1> QED BY <1>2, <1>3

LEMMA WrapperType ==
  ASSUME NEW h \in Nat, NEW title \in Titles, NEW timing \in Timings, NEW s \in Nat
  PROVE  MessageWrapper(h, title, timing, s) \in Wrapper
BY TimingsAssumption DEF MessageWrapper, Wrapper, Timing

LEMMA NotifyType ==
  ASSUME TypeOK, Notify
  PROVE  /\ depth' \in 0..MaxDepth /\ frame' \in [1..MaxDepth -> Frame]
         /\ sleep' \in Nat
BY BoundsAssumption DEF TypeOK, Notify, Top, Frame

LEMMA NotifyAllType ==
  ASSUME TypeOK, NEW W, NEW K, NotifyAll(W, K)
  PROVE  cl' \in [Clients -> Client] /\ quiet' \subseteq Nat
<1>1. Idle \in Client
  BY DEF Idle, Client
<1>2. cl' \in [Clients -> Client]
  BY <1>1 DEF TypeOK, NotifyAll
<1>3. \A c \in Clients : cl[c].h \in Nat
  BY DEF TypeOK, Client
<1>4. quiet' \subseteq Nat
  BY <1>3 DEF TypeOK, NotifyAll, Woken
<1> QED BY <1>2, <1>4

LEMMA PushBackType ==
  ASSUME TypeOK, NEW W, NEW r \in Wrapper, PushBack(W, r)
  PROVE  /\ nalloc' \in 0..MaxAlloc /\ lst_message' \subseteq 1..nalloc'
         /\ heap' \in [Wrappers -> Wrapper]
<1>1. nalloc \in Nat /\ MaxAlloc \in Nat /\ nalloc' = nalloc + 1 /\ nalloc < MaxAlloc
  BY BoundsAssumption DEF TypeOK, PushBack
<1>2. Freed \in Wrapper
  BY DEF Freed, Wrapper
<1>3. heap' \in [Wrappers -> Wrapper]
  BY <1>2 DEF TypeOK, PushBack
<1>4. ASSUME NEW w \in lst_message' PROVE w \in 1..nalloc'
  <2>1. w \in 1..nalloc \/ w = nalloc + 1
    BY DEF TypeOK, PushBack
  <2> QED BY <1>1, <2>1
<1> QED BY <1>1, <1>3, <1>4

LEMMA DeleteType ==
  ASSUME TypeOK, NEW W, Delete(W)
  PROVE  lst_message' \subseteq 1..nalloc /\ heap' \in [Wrappers -> Wrapper]
BY DEF TypeOK, Delete, Wrapper, Freed, Wrappers

LEMMA TypeHandlers == TypeOK /\ Handlers => TypeOK'
<1> SUFFICES ASSUME TypeOK, Handlers PROVE TypeOK'
  OBVIOUS
<1>1. CASE CreateMessageQueueInfo
  BY <1>1, BoundsAssumption DEF TypeOK, CreateMessageQueueInfo, MakeSeq, loop, history
<1>2. ASSUME NEW recv \in BOOLEAN, InstallMessageHandler(recv) PROVE TypeOK'
  BY <1>2, BoundsAssumption DEF TypeOK, InstallMessageHandler, MakeSeq, loop, history
<1>3. ASSUME NEW h \in regs, UnInstallMessageHandler(h) PROVE TypeOK'
  BY <1>3 DEF TypeOK, UnInstallMessageHandler, messages, loop, history
<1>4. CASE BreakMessageQueueRunloop
  BY <1>4, NotifyType DEF TypeOK, BreakMessageQueueRunloop, messages, history
<1> QED BY <1>1, <1>2, <1>3, <1>4 DEF Handlers

LEMMA TypePosting == TypeOK /\ Posting => TypeOK'
<1> SUFFICES ASSUME TypeOK, NEW title \in Titles, NEW timing \in Timings,
                    \/ BroadcastMessage(title, timing)
                    \/ \E h \in regs :
                         \/ PostMessage(h, title, timing)
                         \/ \E replace \in BOOLEAN : SingletonMessage(replace, h, title, timing)
                         \/ FasterMessage(h, title, timing)
             PROVE  TypeOK'
  BY DEF Posting
<1>0. regs \subseteq Nat /\ s_seq \in Nat /\ \A w \in Wrappers : heap[w].seq \in Nat
  BY DEF TypeOK, Wrapper
<1>1. ASSUME NEW W, NEW h \in Nat, NEW s \in Nat,
             PushBack(W, MessageWrapper(h, title, timing, s)),
             MakeSeq \/ UNCHANGED s_seq, UNCHANGED <<content, cancelled>>
      PROVE  TypeOK'
  <2>1. MessageWrapper(h, title, timing, s) \in Wrapper
    BY WrapperType
  <2>2. /\ nalloc' \in 0..MaxAlloc /\ lst_message' \subseteq 1..nalloc'
        /\ heap' \in [Wrappers -> Wrapper]
    BY <1>1, <2>1, PushBackType
  <2>3. Notify /\ NotifyAll(W, {})
    BY <1>1 DEF PushBack
  <2>4. /\ depth' \in 0..MaxDepth /\ frame' \in [1..MaxDepth -> Frame] /\ sleep' \in Nat
    BY <2>3, NotifyType
  <2>5. cl' \in [Clients -> Client] /\ quiet' \subseteq Nat
    BY <2>3, NotifyAllType
  <2>6. s_seq' \in 0..MaxSeq /\ 1..s_seq \subseteq 1..s_seq'
    BY <1>1, BoundsAssumption DEF TypeOK, MakeSeq
  <2> QED BY <1>1, <2>2, <2>4, <2>5, <2>6 DEF TypeOK, content
<1>2. ASSUME NEW h \in Nat, PostMessage(h, title, timing) PROVE TypeOK'
  <2>1. s_seq' \in Nat
    BY <1>0, <1>2 DEF PostMessage, MakeSeq
  <2> QED BY <1>1, <1>2, <2>1 DEF PostMessage
<1>3. ASSUME NEW h \in regs, NEW replace \in BOOLEAN,
             SingletonMessage(replace, h, title, timing)
      PROVE  TypeOK'
  <2>1. CASE Same(h, title) = {}
    <3>1. MakeSeq /\ s_seq' \in Nat
      BY <1>0, <1>3, <2>1 DEF SingletonMessage, MakeSeq
    <3> QED BY <1>0, <1>1, <1>3, <2>1, <3>1 DEF SingletonMessage
  <2>2. CASE Same(h, title) # {}
    <3> DEFINE it == Min(Same(h, title))
    <3>1. it \in Wrappers
      BY <2>2, PendingMin DEF Same
    <3>2. heap[it].seq \in Nat
      BY <1>0, <3>1
    <3> HIDE DEF it
    <3> QED BY <1>0, <1>1, <1>3, <2>2, <3>2 DEF SingletonMessage, it
  <2> QED BY <2>1, <2>2
<1>4. ASSUME NEW h \in regs, FasterMessage(h, title, timing) PROVE TypeOK'
  <2> DEFINE it == Min(Same(h, title))
  <2>0. MakeSeq /\ s_seq' \in Nat
    BY <1>0, <1>4 DEF FasterMessage, MakeSeq
  <2>1. CASE Same(h, title) # {} /\ heap[it].left < timing.after
    <3>1. UNCHANGED <<nalloc, lst_message, heap, loop, cl, quiet, content, cancelled>>
      BY <1>4, <2>1 DEF FasterMessage
    <3>2. s_seq' \in 0..MaxSeq /\ 1..s_seq \subseteq 1..s_seq'
      BY <2>0, BoundsAssumption DEF TypeOK, MakeSeq
    <3> QED BY <3>1, <3>2 DEF TypeOK, content, loop
  <2>2. CASE Same(h, title) = {}
    BY <1>0, <1>1, <1>4, <2>0, <2>2 DEF FasterMessage
  <2>3. CASE Same(h, title) # {} /\ ~ (heap[it].left < timing.after)
    <3>1. it \in Wrappers
      BY <2>3, PendingMin DEF Same
    <3>2. heap[it].seq \in Nat
      BY <1>0, <3>1
    <3>3. PushBack({it}, MessageWrapper(h, title, timing, heap[it].seq))
      BY <1>4, <2>3 DEF FasterMessage
    <3>4. UNCHANGED <<content, cancelled>>
      BY <1>4 DEF FasterMessage
    <3> HIDE DEF it
    <3> QED BY <1>0, <1>1, <2>0, <3>2, <3>3, <3>4
  <2> QED BY <2>1, <2>2, <2>3
<1> QED BY <1>0, <1>2, <1>3, <1>4 DEF BroadcastMessage

LEMMA TypeCancelling == TypeOK /\ Cancelling => TypeOK'
<1> SUFFICES ASSUME TypeOK, Cancelling PROVE TypeOK'
  OBVIOUS
<1>0. ASSUME NEW W, Delete(W), UNCHANGED <<content, s_seq, nalloc, loop>>,
             cancelled' \subseteq Nat
      PROVE  TypeOK'
  <2>1. lst_message' \subseteq 1..nalloc /\ heap' \in [Wrappers -> Wrapper]
    BY <1>0, DeleteType
  <2>2. cl' \in [Clients -> Client] /\ quiet' \subseteq Nat
    BY <1>0, NotifyAllType DEF Delete
  <2> QED BY <1>0, <2>1, <2>2 DEF TypeOK, content, loop
<1>1. ASSUME NEW s \in Posts, CancelMessage(s) PROVE TypeOK'
  BY <1>0, <1>1 DEF CancelMessage, TypeOK, Posts
<1>2. ASSUME NEW h, CancelMessageHandler(h) PROVE TypeOK'
  BY <1>0, <1>2 DEF CancelMessageHandler, TypeOK
<1>3. ASSUME NEW h, NEW t, CancelMessageTitle(h, t) PROVE TypeOK'
  BY <1>0, <1>3 DEF CancelMessageTitle, TypeOK
<1>4. ASSUME NEW c \in Clients, NEW h \in regs, CancelAndWait(c, h) PROVE TypeOK'
  BY <1>4 DEF CancelAndWait, TypeOK, messages, loop, history, Client
<1>5. ASSUME NEW c \in Clients, CancelAndWaitCancel(c) PROVE TypeOK'
  <2> DEFINE W == IF Exists THEN {w \in lst_message : heap[w].reg = cl[c].h} ELSE {}
  <2>1. Freed \in Wrapper /\ Idle \in Client /\ [cl[c] EXCEPT !.pc = "wait"] \in Client
    BY DEF Freed, Wrapper, Idle, Client, TypeOK
  <2>2. /\ heap' = [w \in Wrappers |-> IF w \in W THEN Freed ELSE heap[w]]
        /\ lst_message' = lst_message \ W
        /\ cl' = [d \in Clients |-> IF d = c THEN [cl[c] EXCEPT !.pc = "wait"]
                                    ELSE IF d \in Woken(W, {}) THEN Idle ELSE cl[d]]
        /\ UNCHANGED <<content, s_seq, nalloc, loop, history>>
    BY <1>5 DEF CancelAndWaitCancel
  <2> HIDE DEF W
  <2>3. heap' \in [Wrappers -> Wrapper] /\ cl' \in [Clients -> Client]
    BY <2>1, <2>2 DEF TypeOK
  <2> QED BY <2>2, <2>3 DEF TypeOK, content, loop, history
<1> QED BY <1>1, <1>2, <1>3, <1>4, <1>5 DEF Cancelling

LEMMA TypeWaiting == TypeOK /\ Waiting => TypeOK'
<1> SUFFICES ASSUME TypeOK, NEW c \in Clients,
                    \/ \E s \in Posts : WaitForRunningLockEnd(c, s) \/ WaitMessage(c, s)
                    \/ WaitForRunningLockEndQueue(c)
                    \/ WaitForRunningLockEndHandler(c)
                    \/ SpuriousWakeup(c)
             PROVE  TypeOK'
  BY DEF Waiting
<1>0. ASSUME NEW S \in SUBSET Nat, S # {} PROVE Min(S) \in Nat
  BY <1>0, MinIn
<1>a. /\ \A s : Running(s) \in SUBSET Nat
      /\ \A h : RunningHandler(h) \in SUBSET Nat
      /\ \A s : Pending(s) \in SUBSET Nat
  <2>1. 1..depth \subseteq Nat /\ lst_message \subseteq Nat
    BY DEF TypeOK
  <2> QED BY <2>1 DEF Running, RunningHandler, Pending
<1>b. ASSUME NEW pc \in {"waitend", "waitrun"}, NEW on \in Nat, NEW h \in Nat,
             BlockOn(c, pc, on, h), UNCHANGED <<content, messages, loop, history>>
      PROVE  TypeOK'
  <2>1. cl' \in [Clients -> Client]
    BY <1>b DEF BlockOn, TypeOK, Client
  <2> QED BY <1>b, <2>1 DEF TypeOK, content, messages, loop, history
<1>1. ASSUME NEW s \in Posts, WaitForRunningLockEnd(c, s) PROVE TypeOK'
  BY <1>0, <1>a, <1>b, <1>1 DEF WaitForRunningLockEnd
<1>2. ASSUME NEW s \in Posts, WaitMessage(c, s) PROVE TypeOK'
  <2>1. CASE Pending(s) # {}
    BY <1>0, <1>a, <1>b, <1>2, <2>1 DEF WaitMessage
  <2>2. CASE Pending(s) = {}
    BY <1>0, <1>a, <1>b, <1>2, <2>2 DEF WaitMessage
  <2> QED BY <2>1, <2>2
<1>3. CASE WaitForRunningLockEndQueue(c)
  BY <1>b, <1>3 DEF WaitForRunningLockEndQueue
<1>4. CASE WaitForRunningLockEndHandler(c)
  <2>1. cl[c].h \in Nat
    BY DEF TypeOK, Client
  <2>2. CASE Exists /\ RunningHandler(cl[c].h) # {}
    BY <1>0, <1>a, <1>b, <1>4, <2>1, <2>2 DEF WaitForRunningLockEndHandler, history
  <2>3. CASE ~ (Exists /\ RunningHandler(cl[c].h) # {})
    <3>1. /\ cl' = [cl EXCEPT ![c] = Idle]
          /\ quiet' = quiet \cup {cl[c].h}
          /\ UNCHANGED <<content, messages, loop, cancelled>>
      BY <1>4, <2>3 DEF WaitForRunningLockEndHandler
    <3>2. Idle \in Client
      BY DEF Idle, Client
    <3> QED BY <2>1, <3>1, <3>2 DEF TypeOK, content, messages, loop
  <2> QED BY <2>2, <2>3
<1>5. CASE SpuriousWakeup(c)
  BY <1>5 DEF SpuriousWakeup, TypeOK, content, messages, loop, Client, Idle
<1> QED BY <1>1, <1>2, <1>3, <1>4, <1>5

LEMMA FrameType ==
  ASSUME TypeOK, depth > 0
  PROVE  depth \in 1..MaxDepth /\ Top \in Frame
BY BoundsAssumption DEF TypeOK, Top

LEMMA NewFrameType ==
  ASSUME NEW brk \in Nat
  PROVE  NewFrame(brk) \in Frame /\ [NewFrame(brk) EXCEPT !.pc = "sleep"] \in Frame
BY DEF NewFrame, Frame

LEMMA TypeRunLoop == TypeOK /\ RunLoop => TypeOK'
<1> SUFFICES ASSUME TypeOK, RunLoop PROVE TypeOK'
  OBVIOUS
<1>1. CASE RunBegin
  <2>1. NewFrame(0) \in Frame
    BY NewFrameType
  <2> QED BY <1>1, <2>1, BoundsAssumption
          DEF RunBegin, TypeOK, content, messages, history
<1>2. CASE LoopBreak
  <2>1. depth \in 1..MaxDepth /\ depth' = depth - 1
    BY <1>2, FrameType DEF LoopBreak, LoopTop
  <2>2. frame' \in [1..MaxDepth -> Frame]
    BY <1>2, <2>1, NewFrameType DEF LoopBreak, TypeOK
  <2>3. cl' \in [Clients -> Client] /\ quiet' \subseteq Nat
    BY <1>2, NotifyAllType DEF LoopBreak, ReleaseMessageQueueInfo
  <2>4. /\ mq' \in {"none", "exists", "released"} /\ lst_handler' \subseteq regs
        /\ lst_message' \subseteq 1..nalloc
    BY <1>2 DEF LoopBreak, ReleaseMessageQueueInfo, TypeOK
  <2>5. heap' \in [Wrappers -> Wrapper]
    <3>1. Freed \in Wrapper
      BY DEF Freed, Wrapper
    <3> QED BY <1>2, <3>1 DEF LoopBreak, ReleaseMessageQueueInfo, TypeOK
  <2>6. depth' \in 0..MaxDepth
    BY <2>1, BoundsAssumption
  <2>7. UNCHANGED <<breakflag, regs, recvbroadcast, s_seq, nalloc, sleep, cancelled>>
    BY <1>2 DEF LoopBreak
  <2> QED BY <2>2, <2>3, <2>4, <2>5, <2>6, <2>7 DEF TypeOK
<1>3. CASE LoopSleep
  <2>1. depth \in 1..MaxDepth /\ Top \in Frame
    BY <1>3, FrameType DEF LoopSleep, LoopTop
  <2>2. frame' \in [1..MaxDepth -> Frame]
    <3>1. Top.brk \in Nat
      BY <2>1 DEF Frame
    <3>2. [NewFrame(Top.brk) EXCEPT !.pc = "sleep"] \in Frame
      BY <3>1, NewFrameType
    <3> QED BY <1>3, <2>1, <3>2 DEF LoopSleep, TypeOK
  <2>3. cl' \in [Clients -> Client] /\ quiet' \subseteq Nat
    BY <1>3, NotifyAllType DEF LoopSleep
  <2>4. sleep' \in Nat
    <3> DEFINE T == {DefaultWait} \cup {heap[w].left : w \in lst_message}
    <3>1. lst_message \subseteq Wrappers
      BY BoundsAssumption DEF TypeOK, Wrappers
    <3>2. \A w \in Wrappers : heap[w].left \in Nat
      BY DEF TypeOK, Wrapper
    <3>3. T \in SUBSET Nat /\ T # {}
      BY <3>1, <3>2, BoundsAssumption
    <3>4. Min(T) \in Nat
      <4> HIDE DEF T
      <4> QED BY <3>3, MinIn
    <3> QED BY <1>3, <3>4 DEF LoopSleep, WaitTime
  <2> QED BY <1>3, <2>2, <2>3, <2>4 DEF LoopSleep, TypeOK, content, messages
<1>4. CASE LoopRun
  <2> DEFINE w == Min(Due)
             fit == {h \in lst_handler : \/ heap[w].reg = h
                                         \/ heap[w].reg = 0 /\ h \in recvbroadcast}
             periodic == heap[w].type = "period"
  <2>1. depth \in 1..MaxDepth /\ Top \in Frame
    BY <1>4, FrameType DEF LoopRun, LoopTop
  <2>2. w \in Wrappers
    BY <1>4, PendingMin DEF LoopRun, Due
  <2>3. heap[w] \in Wrapper /\ heap[w].seq \in Nat /\ heap[w].period \in Nat
    <3> HIDE DEF w
    <3> QED BY <2>2 DEF TypeOK, Wrapper
  <2>4. fit \in SUBSET Nat
    <3>1. fit \subseteq lst_handler /\ lst_handler \subseteq regs /\ regs \subseteq Nat
      BY DEF TypeOK
    <3> QED BY <3>1
  <2>5. frame' = [frame EXCEPT ![depth] =
             [pc |-> "call", brk |-> Top.brk, w |-> w, post |-> heap[w].seq,
              hs |-> fit, todo |-> fit, cur |-> 0, del |-> ~periodic]]
    BY <1>4 DEF LoopRun, RunFrame, Fit
  <2>6. frame' \in [1..MaxDepth -> Frame]
    <3> HIDE DEF w, fit, periodic
    <3>1. Top.brk \in Nat /\ w \in Nat
      BY <2>1, <2>2 DEF Frame, Wrappers
    <3>2. (~periodic) \in BOOLEAN
      BY DEF periodic
    <3>3. [pc |-> "call", brk |-> Top.brk, w |-> w, post |-> heap[w].seq,
           hs |-> fit, todo |-> fit, cur |-> 0, del |-> ~periodic] \in Frame
      BY <2>3, <2>4, <3>1, <3>2 DEF Frame
    <3> QED BY <2>5, <3>3 DEF TypeOK
  <2>7. cl' \in [Clients -> Client] /\ quiet' \subseteq Nat
    BY <1>4, NotifyAllType DEF LoopRun
  <2>8. /\ lst_message' \in {lst_message, lst_message \ {w}}
        /\ heap' \in {heap, [heap EXCEPT ![w].left = heap[w].period]}
        /\ UNCHANGED <<content, s_seq, nalloc, depth, sleep, cancelled>>
    BY <1>4 DEF LoopRun
  <2>9. heap' \in [Wrappers -> Wrapper] /\ lst_message' \subseteq 1..nalloc
    <3> HIDE DEF w
    <3>1. [heap[w] EXCEPT !.left = heap[w].period] \in Wrapper
      BY <2>3 DEF Wrapper
    <3>2. [heap EXCEPT ![w].left = heap[w].period] \in [Wrappers -> Wrapper]
      BY <2>2, <3>1 DEF TypeOK
    <3> QED BY <2>8, <3>2 DEF TypeOK
  <2> QED BY <2>6, <2>7, <2>8, <2>9 DEF TypeOK, content
<1>5. CASE LoopWake
  BY <1>5, FrameType DEF LoopWake, TypeOK, content, messages, history, Top, Frame
<1>6. CASE HandlerCall
  <2> DEFINE h == Min(Top.todo)
  <2>1. depth \in 1..MaxDepth /\ Top \in Frame
    BY <1>6, FrameType DEF HandlerCall
  <2>2. h \in Nat
    BY <1>6, <2>1, MinIn DEF HandlerCall, Frame
  <2>3. frame' = [frame EXCEPT ![depth] =
                   [Top EXCEPT !.pc = "in", !.cur = h, !.todo = Top.todo \ {h}]]
    BY <1>6 DEF HandlerCall
  <2> HIDE DEF h
  <2>4. frame' \in [1..MaxDepth -> Frame]
    BY <2>1, <2>2, <2>3 DEF TypeOK, Frame
  <2> QED BY <1>6, <2>4 DEF HandlerCall, TypeOK, content, messages, history
<1>7. CASE HandlerReturn
  BY <1>7, FrameType DEF HandlerReturn, TypeOK, content, messages, history, Top, Frame
<1>8. CASE LoopEnd
  <2>1. depth \in 1..MaxDepth
    BY <1>8, FrameType DEF LoopEnd
  <2>2. frame' \in [1..MaxDepth -> Frame]
    BY <1>8, <2>1 DEF LoopEnd, TypeOK, Frame
  <2>3. lst_message' \subseteq 1..nalloc /\ heap' \in [Wrappers -> Wrapper]
    BY <1>8, DeleteType DEF LoopEnd
  <2>4. cl' \in [Clients -> Client] /\ quiet' \subseteq Nat
    BY <1>8, NotifyAllType DEF LoopEnd, Delete
  <2> QED BY <1>8, <2>2, <2>3, <2>4 DEF LoopEnd, TypeOK, content
<1>9. ASSUME NEW s \in Posts, WaitMessageInQueue(s) PROVE TypeOK'
  <2>1. s \in Nat
    BY DEF Posts, TypeOK
  <2>2. frame' \in [1..MaxDepth -> Frame]
    BY <1>9, <2>1, NewFrameType DEF WaitMessageInQueue, TypeOK
  <2> QED BY <1>9, <2>2, BoundsAssumption
          DEF WaitMessageInQueue, TypeOK, content, messages, history
<1> QED BY <1>1, <1>2, <1>3, <1>4, <1>5, <1>6, <1>7, <1>8, <1>9 DEF RunLoop

LEMMA TypeTick == TypeOK /\ Tick => TypeOK'
<1> SUFFICES ASSUME TypeOK, Tick PROVE TypeOK'
  OBVIOUS
<1>1. \A n \in Nat : Minus1(n) \in Nat
  BY DEF Minus1
<1>2. heap' \in [Wrappers -> Wrapper]
  BY <1>1 DEF Tick, TypeOK, Wrapper
<1> QED BY <1>1, <1>2 DEF Tick, TypeOK, content, history

(* The variables of MessageQueue keep their types: in particular the       *)
(* stack of loops, the list and the handler list stay within what has been *)
(* allocated, for every client set and every bound.                        *)
THEOREM TypeCorrect == Spec => []TypeOK
<1>1. Init => TypeOK
  <2> SUFFICES ASSUME Init PROVE TypeOK
    OBVIOUS
  <2>1. NewFrame(0) \in Frame /\ Freed \in Wrapper /\ Idle \in Client
    BY NewFrameType DEF Freed, Wrapper, Idle, Client
  <2>2. heap \in [Wrappers -> Wrapper] /\ frame \in [1..MaxDepth -> Frame]
        /\ cl \in [Clients -> Client]
    BY <2>1 DEF Init
  <2>3. s_seq \in 0..MaxSeq /\ nalloc \in 0..MaxAlloc /\ depth \in 0..MaxDepth
    BY BoundsAssumption DEF Init
  <2> QED BY <2>2, <2>3 DEF Init, TypeOK
<1>2. TypeOK /\ [Next]_vars => TypeOK'
  <2>1. TypeOK /\ UNCHANGED vars => TypeOK'
    BY DEF TypeOK, vars, content, messages, loop, history
  <2>2. TypeOK /\ Next => TypeOK'
    BY <2>1, TypeHandlers, TypePosting, TypeCancelling, TypeWaiting, TypeRunLoop, TypeTick
       DEF Next, Terminated
  <2> QED BY <2>1, <2>2
<1> QED BY <1>1, <1>2, PTL DEF Spec

-----------------------------------------------------------------------------
(* CancelAndWait.  The property speaks of the fit_handler copies; the loop *)
(* publishes them in runing_handler (hs) under the mutex, a waiter waits   *)
(* for the outermost loop that publishes its handler, and inner loops end  *)
(* before outer ones reach their top.  The inductive invariant says so.    *)

(* What a loop is calling or will call is published.                       *)
Published(k) == /\ frame[k].hs \subseteq regs
                /\ frame[k].todo \subseteq frame[k].hs
                /\ frame[k].cur \in frame[k].hs \cup {0}

(* A client inside CancelAndWait has uninstalled its handler; one that     *)
(* waits does so on the outermost loop that runs it.                       *)
CancelsInOrder(c) ==
  /\ cl[c].pc \in {"idle", "waitend"} => cl[c].h = 0
  /\ cl[c].pc \in {"cancel", "wait"} => cl[c].h # 0
  /\ cl[c].h # 0 => cl[c].h \in regs /\ cl[c].h \notin lst_handler
  /\ cl[c].pc = "waitrun" =>
       /\ cl[c].on \in 1..depth
       /\ cl[c].h # 0 => \A k \in 1..depth : k < cl[c].on => cl[c].h \notin frame[k].hs

(* A quiesced handler is uninstalled and no loop publishes it.             *)
Silent(h) == /\ h \in regs /\ h \notin lst_handler
             /\ \A k \in 1..depth : h \notin frame[k].hs

QuiesceInv ==
  /\ depth > 0 => Exists
  /\ \A k \in 1..depth : Published(k)
  /\ \A c \in Clients : CancelsInOrder(c)
  /\ \A h \in quiet : Silent(h)

LEMMA IdleInOrder ==
  ASSUME NEW c \in Clients, cl'[c] = Idle PROVE CancelsInOrder(c)'
BY DEF CancelsInOrder, Idle

(* Steps that change no published handler.                                 *)
LEMMA QuiesceStable ==
  ASSUME TypeOK, QuiesceInv, depth' = depth, mq' \in {mq, "exists"}, regs \subseteq regs',
         \A h \in lst_handler' : h \in regs => h \in lst_handler,
         \A k \in 1..depth : /\ frame'[k].hs = frame[k].hs
                             /\ frame'[k].todo \subseteq frame[k].hs
                             /\ frame'[k].cur \in frame[k].hs \cup {0},
         \A c \in Clients : cl'[c] = cl[c] \/ CancelsInOrder(c)',
         \A h \in quiet' : h \in quiet \/ Silent(h)'
  PROVE  QuiesceInv'
<1>1. ASSUME NEW k \in 1..depth PROVE Published(k)'
  BY <1>1 DEF QuiesceInv, Published
<1>2. ASSUME NEW c \in Clients, cl'[c] = cl[c] PROVE CancelsInOrder(c)'
  BY <1>2 DEF QuiesceInv, CancelsInOrder
<1>3. ASSUME NEW h \in quiet PROVE Silent(h)'
  BY <1>3 DEF QuiesceInv, Silent
<1> QED BY <1>1, <1>2, <1>3 DEF QuiesceInv, Exists

(* Waiters on a wrapper are not in CancelAndWait.                          *)
LEMMA DeleteWakes ==
  ASSUME TypeOK, QuiesceInv, NEW W, NotifyAll(W, {})
  PROVE  /\ \A c \in Clients : cl'[c] = cl[c] \/ CancelsInOrder(c)'
         /\ quiet' = quiet
<1>1. \A c \in Woken(W, {}) : cl[c].h = 0
  BY DEF Woken, QuiesceInv, CancelsInOrder
<1>2. quiet' = quiet
  BY <1>1 DEF NotifyAll
<1>3. \A c \in Clients : cl'[c] = cl[c] \/ cl'[c] = Idle
  BY DEF NotifyAll
<1> QED BY <1>2, <1>3, IdleInOrder

(* The top of the loop: waiters on the innermost loop are released, and    *)
(* it publishes installed handlers only, or is popped.                     *)
LEMMA QuiesceTop ==
  ASSUME TypeOK, QuiesceInv, depth > 0, NEW W, NotifyAll(W, {depth}),
         regs' = regs, lst_handler' \subseteq lst_handler,
         depth' \in {depth, depth - 1}, depth' > 0 => mq' = mq,
         \A k \in 1..depth : k # depth => frame'[k] = frame[k],
         depth' = depth => /\ frame'[depth].hs \subseteq lst_handler
                           /\ frame'[depth].todo \subseteq frame'[depth].hs
                           /\ frame'[depth].cur = 0
  PROVE  QuiesceInv'
<1>0. depth \in Nat /\ depth' \in Nat /\ lst_handler \subseteq regs
  BY DEF TypeOK
<1>1. ASSUME NEW k \in 1..depth' PROVE Published(k)'
  <2>1. k \in 1..depth
    BY <1>0, <1>1
  <2>2. CASE k # depth
    BY <2>1, <2>2 DEF QuiesceInv, Published
  <2>3. CASE k = depth
    <3>1. depth' = depth
      BY <1>0, <1>1, <2>3
    <3> QED BY <1>0, <2>3, <3>1 DEF Published
  <2> QED BY <2>2, <2>3
<1>2. ASSUME NEW h, h \in regs, h \notin lst_handler,
             \A k \in 1..depth : k < depth => h \notin frame[k].hs
      PROVE  Silent(h)'
  <2>1. ASSUME NEW k \in 1..depth' PROVE h \notin frame'[k].hs
    <3>1. k \in 1..depth
      BY <1>0, <2>1
    <3>2. CASE k # depth
      BY <1>0, <1>2, <3>1, <3>2
    <3>3. CASE k = depth
      BY <1>0, <1>2, <2>1, <3>3
    <3> QED BY <3>2, <3>3
  <2> QED BY <1>2, <2>1 DEF Silent
<1>3. ASSUME NEW c \in Clients PROVE CancelsInOrder(c)'
  <2>1. CASE c \in Woken(W, {depth})
    BY <2>1, IdleInOrder DEF NotifyAll
  <2>2. CASE c \notin Woken(W, {depth})
    <3>1. cl'[c] = cl[c] /\ CancelsInOrder(c)
      BY <2>2 DEF NotifyAll, QuiesceInv
    <3>2. cl[c].pc = "waitrun" => cl[c].on \in 1..depth /\ cl[c].on # depth
      BY <2>2, <3>1 DEF Woken, CancelsInOrder
    <3>3. cl[c].pc = "waitrun" => cl[c].on \in 1..depth'
      BY <1>0, <3>2
    <3>4. ASSUME cl[c].pc = "waitrun", cl[c].h # 0, NEW k \in 1..depth', k < cl[c].on
          PROVE  cl[c].h \notin frame'[k].hs
      <4>1. k \in 1..depth /\ k # depth
        BY <1>0, <3>2, <3>4
      <4> QED BY <3>1, <3>4, <4>1 DEF CancelsInOrder
    <3> QED BY <3>1, <3>3, <3>4 DEF CancelsInOrder
  <2> QED BY <2>1, <2>2
<1>4. ASSUME NEW h \in quiet' PROVE Silent(h)'
  <2>1. CASE h \in quiet
    BY <1>2, <2>1 DEF QuiesceInv, Silent
  <2>2. CASE h \notin quiet
    <3>1. PICK c \in Woken(W, {depth}) : cl[c].h = h /\ h # 0
      BY <1>4, <2>2 DEF NotifyAll
    <3>2. c \in Clients /\ CancelsInOrder(c)
      BY <3>1 DEF Woken, QuiesceInv
    <3>3. cl[c].pc = "waitrun" /\ cl[c].on = depth
      BY <3>1, <3>2 DEF Woken, CancelsInOrder
    <3> QED BY <1>2, <3>1, <3>2, <3>3 DEF CancelsInOrder
  <2> QED BY <2>1, <2>2
<1> QED BY <1>1, <1>3, <1>4 DEF QuiesceInv, Exists

(* A new, empty loop on top of the stack.                                  *)
LEMMA QuiescePush ==
  ASSUME TypeOK, QuiesceInv, Exists, NEW brk, depth < MaxDepth, depth' = depth + 1,
         frame' = [frame EXCEPT ![depth + 1] = NewFrame(brk)],
         UNCHANGED <<content, cl, quiet>>
  PROVE  QuiesceInv'
<1>0. depth \in Nat /\ depth + 1 \in 1..MaxDepth
  BY BoundsAssumption DEF TypeOK
<1>1. /\ \A k \in 1..depth : frame'[k] = frame[k]
      /\ frame'[depth + 1] = NewFrame(brk)
  BY <1>0 DEF TypeOK
<1>2. NewFrame(brk).hs = {} /\ NewFrame(brk).todo = {} /\ NewFrame(brk).cur = 0
  BY DEF NewFrame
<1>3. \A k \in 1..depth' : k \in 1..depth \/ k = depth + 1
  BY <1>0
<1>4. ASSUME NEW k \in 1..depth' PROVE Published(k)'
  BY <1>1, <1>2, <1>3, <1>4 DEF QuiesceInv, Published, content
<1>5. ASSUME NEW c \in Clients PROVE CancelsInOrder(c)'
  BY <1>0, <1>1, <1>2, <1>3 DEF QuiesceInv, CancelsInOrder, content
<1>6. ASSUME NEW h \in quiet' PROVE Silent(h)'
  BY <1>1, <1>2, <1>3 DEF QuiesceInv, Silent, content
<1> QED BY <1>4, <1>5, <1>6 DEF QuiesceInv, Exists, content

LEMMA NotifyKeepsPublished ==
  ASSUME TypeOK, QuiesceInv, Notify
  PROVE  /\ depth' = depth
         /\ \A k \in 1..depth : /\ frame'[k].hs = frame[k].hs
                                /\ frame'[k].todo \subseteq frame[k].hs
                                /\ frame'[k].cur \in frame[k].hs \cup {0}
<1>1. \A k \in 1..depth : k \in 1..MaxDepth /\ frame[k] \in Frame /\ Published(k)
  BY BoundsAssumption DEF TypeOK, QuiesceInv
<1>2. \A k \in 1..depth : /\ frame'[k].hs = frame[k].hs
                          /\ frame'[k].todo = frame[k].todo
                          /\ frame'[k].cur = frame[k].cur
  BY <1>1 DEF Notify, Top, TypeOK, Frame
<1> QED BY <1>1, <1>2 DEF Published, Notify

LEMMA UnchangedPublished ==
  ASSUME QuiesceInv, UNCHANGED <<depth, frame>>
  PROVE  /\ depth' = depth
         /\ \A k \in 1..depth : /\ frame'[k].hs = frame[k].hs
                                /\ frame'[k].todo \subseteq frame[k].hs
                                /\ frame'[k].cur \in frame[k].hs \cup {0}
BY DEF QuiesceInv, Published

LEMMA QuiesceHandlers == TypeOK /\ QuiesceInv /\ Handlers => QuiesceInv'
<1> SUFFICES ASSUME TypeOK, QuiesceInv, Handlers PROVE QuiesceInv'
  OBVIOUS
<1>1. ASSUME CreateMessageQueueInfo \/ \E recv \in BOOLEAN : InstallMessageHandler(recv)
      PROVE  QuiesceInv'
  <2>1. /\ regs' = regs \cup {s_seq + 1} /\ lst_handler' = lst_handler \cup {s_seq + 1}
        /\ UNCHANGED <<depth, frame, cl, quiet>> /\ mq' \in {mq, "exists"}
    BY <1>1 DEF CreateMessageQueueInfo, InstallMessageHandler, MakeSeq, loop, history
  <2>2. s_seq + 1 \notin regs
    BY DEF TypeOK
  <2> QED BY <2>1, <2>2, UnchangedPublished, QuiesceStable
<1>2. ASSUME NEW h \in regs, UnInstallMessageHandler(h) PROVE QuiesceInv'
  BY <1>2, UnchangedPublished, QuiesceStable DEF UnInstallMessageHandler, loop, history
<1>3. CASE BreakMessageQueueRunloop
  <2>1. Notify /\ UNCHANGED <<mq, lst_handler, regs, cl, quiet>>
    BY <1>3 DEF BreakMessageQueueRunloop, history
  <2> QED BY <2>1, NotifyKeepsPublished, QuiesceStable
<1> QED BY <1>1, <1>2, <1>3 DEF Handlers

LEMMA QuiescePosting == TypeOK /\ QuiesceInv /\ Posting => QuiesceInv'
<1> SUFFICES ASSUME TypeOK, QuiesceInv, Posting PROVE QuiesceInv'
  OBVIOUS
<1>1. ASSUME NEW W, NEW r, PushBack(W, r), UNCHANGED content PROVE QuiesceInv'
  <2>1. Notify /\ NotifyAll(W, {})
    BY <1>1 DEF PushBack
  <2> QED BY <1>1, <2>1, NotifyKeepsPublished, DeleteWakes, QuiesceStable DEF content
<1>2. ASSUME UNCHANGED <<loop, cl, quiet>>, UNCHANGED content PROVE QuiesceInv'
  BY <1>2, UnchangedPublished, QuiesceStable DEF content, loop
<1>3. ASSUME NEW h, NEW title, NEW timing,
             \/ PostMessage(h, title, timing)
             \/ \E replace \in BOOLEAN : SingletonMessage(replace, h, title, timing)
      PROVE  QuiesceInv'
  BY <1>1, <1>3 DEF PostMessage, SingletonMessage
<1>4. ASSUME NEW h, NEW title, NEW timing, FasterMessage(h, title, timing)
      PROVE  QuiesceInv'
  BY <1>1, <1>2, <1>4 DEF FasterMessage, loop
<1> QED BY <1>3, <1>4 DEF Posting, BroadcastMessage

LEMMA QuiesceCancelling == TypeOK /\ QuiesceInv /\ Cancelling => QuiesceInv'
<1> SUFFICES ASSUME TypeOK, QuiesceInv, Cancelling PROVE QuiesceInv'
  OBVIOUS
<1>1. ASSUME NEW W, Delete(W), UNCHANGED <<content, loop>> PROVE QuiesceInv'
  <2>1. NotifyAll(W, {})
    BY <1>1 DEF Delete
  <2> QED BY <1>1, <2>1, DeleteWakes, UnchangedPublished, QuiesceStable DEF content, loop
<1>2. ASSUME NEW c \in Clients, NEW h \in regs, CancelAndWait(c, h) PROVE QuiesceInv'
  <2>1. /\ UNCHANGED <<mq, depth, frame, regs, quiet>> /\ lst_handler' = lst_handler \ {h}
        /\ cl' = [cl EXCEPT ![c] = [pc |-> "cancel", on |-> 0, h |-> h]]
    BY <1>2 DEF CancelAndWait, loop, history
  <2>2. h # 0
    BY DEF TypeOK
  <2>3. CancelsInOrder(c)'
    BY <2>1, <2>2 DEF TypeOK, CancelsInOrder
  <2>4. \A d \in Clients : cl'[d] = cl[d] \/ CancelsInOrder(d)'
    BY <2>1, <2>3 DEF TypeOK
  <2> QED BY <2>1, <2>4, UnchangedPublished, QuiesceStable
<1>3. ASSUME NEW c \in Clients, CancelAndWaitCancel(c) PROVE QuiesceInv'
  <2>1. PICK W : cl' = [d \in Clients |-> IF d = c THEN [cl[c] EXCEPT !.pc = "wait"]
                                  ELSE IF d \in Woken(W, {}) THEN Idle ELSE cl[d]]
    BY <1>3 DEF CancelAndWaitCancel
  <2>2. UNCHANGED <<mq, depth, frame, regs, lst_handler, quiet>> /\ cl[c].pc = "cancel"
    BY <1>3 DEF CancelAndWaitCancel, content, loop, history
  <2>3. cl'[c] = [cl[c] EXCEPT !.pc = "wait"] /\ CancelsInOrder(c) /\ cl[c] \in Client
    BY <2>1 DEF QuiesceInv, TypeOK
  <2>4. cl'[c].pc = "wait" /\ cl'[c].h = cl[c].h
    BY <2>3 DEF Client
  <2>5. CancelsInOrder(c)'
    BY <2>2, <2>3, <2>4 DEF CancelsInOrder
  <2>6. \A d \in Clients : cl'[d] = cl[d] \/ cl'[d] = Idle \/ d = c
    BY <2>1
  <2>7. \A d \in Clients : cl'[d] = cl[d] \/ CancelsInOrder(d)'
    BY <2>5, <2>6, IdleInOrder
  <2> QED BY <2>2, <2>7, UnchangedPublished, QuiesceStable
<1> QED BY <1>1, <1>2, <1>3
        DEF Cancelling, CancelMessage, CancelMessageHandler, CancelMessageTitle

LEMMA QuiesceWaiting ==
  ~SpuriousWakeups => (TypeOK /\ QuiesceInv /\ Waiting => QuiesceInv')
<1> SUFFICES ASSUME ~SpuriousWakeups, TypeOK, QuiesceInv, NEW c \in Clients,
                    \/ \E s \in Posts : WaitForRunningLockEnd(c, s) \/ WaitMessage(c, s)
                    \/ WaitForRunningLockEndQueue(c)
                    \/ WaitForRunningLockEndHandler(c)
             PROVE  QuiesceInv'
  BY DEF Waiting, SpuriousWakeup
<1>0. \A S \in SUBSET (1..depth) : S # {} => Min(S) \in S /\ \A y \in S : Min(S) =< y
  <2>1. 1..depth \subseteq Nat
    BY DEF TypeOK
  <2> QED BY <2>1, MinIn
<1>1. ASSUME NEW pc, NEW on, NEW h, BlockOn(c, pc, on, h),
             UNCHANGED <<content, loop, quiet>>,
             \/ pc = "waitend" /\ h = 0
             \/ pc = "waitrun" /\ h = 0 /\ on \in 1..depth
             \/ /\ pc = "waitrun" /\ cl[c].pc = "wait" /\ h = cl[c].h /\ on \in 1..depth
                /\ \A k \in 1..depth : k < on => h \notin frame[k].hs
      PROVE  QuiesceInv'
  <2>1. cl'[c] = [pc |-> pc, on |-> on, h |-> h] /\ \A d \in Clients : d # c => cl'[d] = cl[d]
    BY <1>1 DEF BlockOn, TypeOK
  <2>2. UNCHANGED <<mq, depth, frame, regs, lst_handler>> /\ CancelsInOrder(c)
    BY <1>1 DEF content, loop, QuiesceInv
  <2>3. CancelsInOrder(c)'
    BY <1>1, <2>1, <2>2 DEF CancelsInOrder
  <2> QED BY <1>1, <2>1, <2>2, <2>3, UnchangedPublished, QuiesceStable
<1>2. ASSUME NEW s \in Posts, WaitForRunningLockEnd(c, s) PROVE QuiesceInv'
  <2>1. Min(Running(s)) \in 1..depth
    BY <1>0, <1>2 DEF WaitForRunningLockEnd, Running
  <2> QED BY <1>1, <1>2, <2>1 DEF WaitForRunningLockEnd, history
<1>3. ASSUME NEW s \in Posts, WaitMessage(c, s) PROVE QuiesceInv'
  <2>1. CASE Pending(s) # {}
    BY <1>1, <1>3, <2>1 DEF WaitMessage, history
  <2>2. CASE Pending(s) = {}
    <3>1. Min(Running(s)) \in 1..depth
      BY <1>0, <1>3, <2>2 DEF WaitMessage, Running
    <3> QED BY <1>1, <1>3, <2>2, <3>1 DEF WaitMessage, history
  <2> QED BY <2>1, <2>2
<1>4. CASE WaitForRunningLockEndQueue(c)
  <2>1. 1 \in 1..depth
    BY <1>4 DEF WaitForRunningLockEndQueue, TypeOK
  <2> QED BY <1>1, <1>4, <2>1 DEF WaitForRunningLockEndQueue, history
<1>5. CASE WaitForRunningLockEndHandler(c)
  <2> DEFINE h == cl[c].h
  <2>0. CancelsInOrder(c) /\ cl[c].pc = "wait" /\ h \in regs /\ h \notin lst_handler
    BY <1>5 DEF WaitForRunningLockEndHandler, QuiesceInv, CancelsInOrder
  <2>1. CASE Exists /\ RunningHandler(h) # {}
    <3> DEFINE k == Min(RunningHandler(h))
    <3>1. k \in RunningHandler(h) /\ \A j \in RunningHandler(h) : k =< j
      BY <1>0, <2>1 DEF RunningHandler
    <3>2. k \in 1..depth
      BY <3>1 DEF RunningHandler
    <3>3. ASSUME NEW j \in 1..depth, j < k PROVE h \notin frame[j].hs
      <4> HIDE DEF k, h
      <4>1. j \notin RunningHandler(h)
        BY <3>1, <3>2, <3>3
      <4> QED BY <4>1 DEF RunningHandler
    <3>4. BlockOn(c, "waitrun", k, h) /\ UNCHANGED <<content, loop, quiet>>
      BY <1>5, <2>1 DEF WaitForRunningLockEndHandler
    <3> HIDE DEF k
    <3> QED BY <1>1, <2>0, <3>2, <3>3, <3>4
  <2>2. CASE ~Exists \/ RunningHandler(h) = {}
    <3>1. cl' = [cl EXCEPT ![c] = Idle] /\ quiet' = quiet \cup {h}
      BY <1>5, <2>2 DEF WaitForRunningLockEndHandler
    <3>2. UNCHANGED <<mq, depth, frame, regs, lst_handler>>
      BY <1>5 DEF WaitForRunningLockEndHandler, content, loop
    <3>3. RunningHandler(h) = {}
      BY <2>2 DEF QuiesceInv, RunningHandler, TypeOK
    <3>4. ASSUME NEW g, g = h PROVE Silent(g)'
      BY <2>0, <3>2, <3>3, <3>4 DEF Silent, RunningHandler
    <3>5. \A d \in Clients : cl'[d] = cl[d] \/ CancelsInOrder(d)'
      BY <3>1, IdleInOrder DEF TypeOK
    <3>6. \A g \in quiet' : g \in quiet \/ Silent(g)'
      BY <3>1, <3>4
    <3> QED BY <3>2, <3>5, <3>6, UnchangedPublished, QuiesceStable
  <2> QED BY <2>1, <2>2
<1> QED BY <1>2, <1>3, <1>4, <1>5

LEMMA QuiesceRunLoop == TypeOK /\ QuiesceInv /\ RunLoop => QuiesceInv'
<1> SUFFICES ASSUME TypeOK, QuiesceInv, RunLoop PROVE QuiesceInv'
  OBVIOUS
<1>0. depth > 0 => depth \in 1..MaxDepth /\ depth \in 1..depth /\ Published(depth)
  BY BoundsAssumption DEF TypeOK, QuiesceInv
<1>1. CASE RunBegin
  <2>1. depth < MaxDepth
    BY <1>1, BoundsAssumption DEF RunBegin
  <2>2. depth = 0 /\ depth + 1 = 1
    BY <1>1 DEF RunBegin
  <2>3. depth' = depth + 1 /\ frame' = [frame EXCEPT ![depth + 1] = NewFrame(0)]
    BY <1>1, <2>2 DEF RunBegin
  <2> QED BY <1>1, <2>1, <2>3, QuiescePush DEF RunBegin, history
<1>2. CASE LoopBreak
  <2>1. PICK W : NotifyAll(W, {depth})
    BY <1>2 DEF LoopBreak, ReleaseMessageQueueInfo
  <2>2. depth > 0 /\ depth' = depth - 1 /\ regs' = regs /\ lst_handler' \subseteq lst_handler
    BY <1>2 DEF LoopBreak, ReleaseMessageQueueInfo, LoopTop
  <2>3. depth' > 0 => mq' = mq
    BY <1>2 DEF LoopBreak, TypeOK
  <2>4. \A k \in 1..depth : k # depth => frame'[k] = frame[k]
    BY <1>2, <1>0 DEF LoopBreak, TypeOK
  <2>5. depth' # depth
    BY <2>2 DEF TypeOK
  <2> QED BY <2>1, <2>2, <2>3, <2>4, <2>5, QuiesceTop
<1>3. CASE LoopSleep
  <2>1. depth > 0 /\ NotifyAll({}, {depth}) /\ depth' = depth /\ UNCHANGED content
    BY <1>3 DEF LoopSleep, LoopTop
  <2>2. \A k \in 1..depth : k # depth => frame'[k] = frame[k]
    BY <1>3, <1>0 DEF LoopSleep, TypeOK
  <2>3. frame'[depth] = [NewFrame(Top.brk) EXCEPT !.pc = "sleep"]
    BY <1>3, <1>0, <2>1 DEF LoopSleep, TypeOK
  <2>4. frame'[depth].hs = {} /\ frame'[depth].todo = {} /\ frame'[depth].cur = 0
    BY <2>3 DEF NewFrame
  <2> QED BY <2>1, <2>2, <2>4, QuiesceTop DEF content
<1>4. CASE LoopRun
  <2>1. depth > 0 /\ NotifyAll({}, {depth}) /\ depth' = depth /\ UNCHANGED content
    BY <1>4 DEF LoopRun, LoopTop
  <2>2. PICK r : /\ frame' = [frame EXCEPT ![depth] = r]
                 /\ r.hs \subseteq lst_handler /\ r.todo = r.hs /\ r.cur = 0
    <3> DEFINE w == Min(Due)
               fit == {h \in lst_handler : \/ heap[w].reg = h
                                           \/ heap[w].reg = 0 /\ h \in recvbroadcast}
               rec == [pc |-> "call", brk |-> Top.brk, w |-> w, post |-> heap[w].seq,
                       hs |-> fit, todo |-> fit, cur |-> 0,
                       del |-> ~(heap[w].type = "period")]
    <3>1. frame' = [frame EXCEPT ![depth] = rec]
      BY <1>4 DEF LoopRun, RunFrame, Fit
    <3>2. rec.hs \subseteq lst_handler /\ rec.todo = rec.hs /\ rec.cur = 0
      OBVIOUS
    <3> HIDE DEF rec
    <3> QED BY <3>1, <3>2
  <2>3. /\ \A k \in 1..depth : k # depth => frame'[k] = frame[k]
        /\ frame'[depth] = r
    BY <1>0, <2>1, <2>2 DEF TypeOK
  <2> QED BY <2>1, <2>2, <2>3, QuiesceTop DEF content
<1>5. ASSUME depth > 0, UNCHANGED <<content, depth, quiet>>, NEW r,
             frame' = [frame EXCEPT ![depth] = r], r.hs = Top.hs,
             r.todo \subseteq Top.hs, r.cur \in Top.hs \cup {0},
             \A c \in Clients : cl'[c] = cl[c] \/ CancelsInOrder(c)'
      PROVE  QuiesceInv'
  <2>1. \A k \in 1..depth : /\ frame'[k].hs = frame[k].hs
                            /\ frame'[k].todo \subseteq frame[k].hs
                            /\ frame'[k].cur \in frame[k].hs \cup {0}
    BY <1>0, <1>5 DEF TypeOK, Top, QuiesceInv, Published
  <2> QED BY <1>5, <2>1, QuiesceStable DEF content
<1>6. CASE LoopWake
  <2>1. depth > 0 /\ Top \in Frame
    BY <1>6, FrameType DEF LoopWake
  <2>2. frame' = [frame EXCEPT ![depth] = [Top EXCEPT !.pc = "top"]]
    BY <1>6, <1>0, <2>1 DEF LoopWake, TypeOK, Top
  <2> QED BY <1>0, <1>5, <1>6, <2>1, <2>2 DEF LoopWake, history, Published, Frame, Top
<1>7. CASE HandlerCall
  <2> DEFINE h == Min(Top.todo)
  <2>1. depth > 0 /\ Top \in Frame /\ Top.todo # {}
    BY <1>7, FrameType DEF HandlerCall
  <2>2. h \in Top.todo
    BY <2>1, MinIn DEF Frame
  <2>3. frame' = [frame EXCEPT ![depth] =
                   [Top EXCEPT !.pc = "in", !.cur = h, !.todo = Top.todo \ {h}]]
    BY <1>7 DEF HandlerCall
  <2> HIDE DEF h
  <2>4. Top.todo \subseteq Top.hs
    BY <1>0, <2>1 DEF Published, Top
  <2> QED BY <1>5, <1>7, <2>1, <2>2, <2>3, <2>4 DEF HandlerCall, history, Frame
<1>8. CASE HandlerReturn
  <2>1. depth > 0 /\ Top \in Frame
    BY <1>8, FrameType DEF HandlerReturn
  <2>2. frame' = [frame EXCEPT ![depth] = [Top EXCEPT !.pc = "call", !.cur = 0]]
    BY <1>8 DEF HandlerReturn
  <2> QED BY <1>0, <1>5, <1>8, <2>1, <2>2 DEF HandlerReturn, history, Published, Frame, Top
<1>9. CASE LoopEnd
  <2>1. depth > 0 /\ Top \in Frame
    BY <1>9, FrameType DEF LoopEnd
  <2>2. frame' = [frame EXCEPT ![depth] = [Top EXCEPT !.pc = "top"]]
    BY <1>9, <1>0, <2>1 DEF LoopEnd, TypeOK, Top
  <2>3. PICK W : NotifyAll(W, {})
    BY <1>9 DEF LoopEnd, Delete
  <2>4. quiet' = quiet /\ \A c \in Clients : cl'[c] = cl[c] \/ CancelsInOrder(c)'
    BY <2>3, DeleteWakes
  <2>5. UNCHANGED <<content, depth>>
    BY <1>9 DEF LoopEnd
  <2> QED BY <1>0, <1>5, <2>1, <2>2, <2>4, <2>5 DEF Published, Frame, Top
<1>10. ASSUME NEW s \in Posts, WaitMessageInQueue(s) PROVE QuiesceInv'
  <2>1. depth > 0 /\ depth < MaxDepth
    BY <1>10, BoundsAssumption DEF WaitMessageInQueue, TypeOK
  <2>2. Exists
    BY <2>1 DEF QuiesceInv
  <2> QED BY <1>10, <2>1, <2>2, QuiescePush DEF WaitMessageInQueue, history
<1> QED BY <1>1, <1>2, <1>3, <1>4, <1>6, <1>7, <1>8, <1>9, <1>10 DEF RunLoop

LEMMA QuiesceUnchanged ==
  ASSUME TypeOK, QuiesceInv, UNCHANGED <<mq, depth, frame, regs, lst_handler, cl, quiet>>
  PROVE  QuiesceInv'
BY UnchangedPublished, QuiesceStable

(* Once ScopeRegister::CancelAndWait has returned on another thread, the   *)
(* handler is not executing, will not execute and is not installed, as     *)
(* long as pthread_cond_wait does not return spuriously.                   *)
THEOREM CancelAndWaitCorrect == ~SpuriousWakeups => (Spec => []CancelAndWaitQuiesces)
<1> SUFFICES ASSUME ~SpuriousWakeups PROVE Spec => []CancelAndWaitQuiesces
  OBVIOUS
<1>1. Init => QuiesceInv
  BY DEF Init, QuiesceInv, CancelsInOrder, Idle
<1>2. TypeOK /\ QuiesceInv /\ [Next]_vars => QuiesceInv'
  <2>1. TypeOK /\ QuiesceInv /\ (Tick \/ UNCHANGED vars) => QuiesceInv'
    BY QuiesceUnchanged DEF Tick, vars, content, loop, history
  <2>2. TypeOK /\ QuiesceInv /\ Next => QuiesceInv'
    BY <2>1, QuiesceHandlers, QuiescePosting, QuiesceCancelling, QuiesceWaiting,
       QuiesceRunLoop DEF Next, Terminated
  <2> QED BY <2>1, <2>2
<1>3. TypeOK /\ QuiesceInv => CancelAndWaitQuiesces
  BY DEF QuiesceInv, Silent, Published, CancelAndWaitQuiesces, TypeOK
<1> QED BY <1>1, <1>2, <1>3, TypeCorrect, PTL DEF Spec

=============================================================================
