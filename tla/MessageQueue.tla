---------------------------- MODULE MessageQueue ----------------------------
(***************************************************************************)
(* One message queue of mars/comm/messagequeue: the content kept for it in *)
(* sg_messagequeue_map, the thread that runs RunLoop::Run on it, and the   *)
(* client threads that call the API.                                       *)
(*                                                                         *)
(* Every API function holds sg_messagequeue_map_mutex for its whole body,  *)
(* so it is one action.  An iteration of RunLoop::Run holds the mutex from *)
(* the top of the loop until it sleeps, breaks or has chosen a message;    *)
(* handlers run, and a one-shot message is deleted, without the mutex.     *)
(* Calls that return early without changing anything are stuttering steps. *)
(*                                                                         *)
(* A wrapper is named by its allocation number.  Each wrapper is pushed to *)
(* the back of lst_message when it is allocated, so the list is the set of *)
(* its members and list order is numeric order.  The same holds of handler *)
(* sequence numbers and lst_handler.                                       *)
(***************************************************************************)
EXTENDS Integers, FiniteSetsExt

CONSTANTS
  Clients,        \* threads other than the queue's own that call the API
  Titles,         \* MessageTitle_t values
  Timings,        \* the MessageTiming values posted, see Timing
  DefaultWait,    \* the loop's longest sleep, 10*60*1000 in the code
  MaxSeq,         \* bound: sequence numbers drawn from __MakeSeq
  MaxAlloc,       \* bound: MessageWrappers allocated
  MaxDepth,       \* bound: RunLoops nested on the queue's thread
  SpuriousWakeups \* may pthread_cond_wait return without a notify?

Wrappers == 1..MaxAlloc

(* MessageTiming: type, delay of the first run, and delay of later runs.   *)
Timing == [type : {"immediately", "after", "period"}, after : Nat, period : Nat]
Immediately == [type |-> "immediately", after |-> 0, period |-> 0]
After(n)    == [type |-> "after", after |-> n, period |-> 0]
Period(n,p) == [type |-> "period", after |-> n, period |-> p]

ASSUME BoundsAssumption ==
  /\ MaxSeq \in Nat /\ MaxAlloc \in Nat
  /\ MaxDepth \in Nat \ {0} /\ DefaultWait \in Nat \ {0}
ASSUME TimingsAssumption ==
  \A t \in Timings : t \in Timing /\ (t.type = "immediately" => t.after = 0)
ASSUME SpuriousAssumption == SpuriousWakeups \in BOOLEAN

VARIABLES
  mq,           \* is the queue in sg_messagequeue_map?
  breakflag,    \* MessageQueueContent::breakflag
  s_seq,        \* last value returned by __MakeSeq
  nalloc,       \* number of wrappers allocated so far
  regs,         \* handler registrations ever returned
  recvbroadcast,\* those that were installed to receive broadcasts
  lst_handler,  \* handlers installed
  lst_message,  \* wrappers in the list
  heap,         \* what each wrapper's memory holds
  depth,        \* length of lst_runloop_info
  frame,        \* the RunLoopInfo and the locals of each active RunLoop::Run
  sleep,        \* time left of the timed wait of the innermost loop
  cl,           \* where each client thread is
  quiet,        \* history: handlers for which CancelAndWait has returned
  cancelled     \* history: posts for which CancelMessage returned true

content == <<mq, breakflag, lst_handler, regs, recvbroadcast>>
messages == <<s_seq, nalloc, lst_message, heap>>
loop == <<depth, frame, sleep>>
history == <<quiet, cancelled>>
vars == <<content, messages, loop, cl, history>>

-----------------------------------------------------------------------------
(* The records.                                                            *)

(* A MessageWrapper.  left is __ComputerWaitTime: the time until it is due.*)
(* A reg of 0 is the broadcast registration.                               *)
Wrapper == [state : {"live", "freed"}, seq : Nat, reg : Nat,
            title : Titles \cup {0}, type : {"immediately", "after", "period"},
            left : Nat, period : Nat]

Freed == [state |-> "freed", seq |-> 0, reg |-> 0, title |-> 0,
          type |-> "immediately", left |-> 0, period |-> 0]

(* The constructor MessageWrapper(handlerid, message, timing, seq).        *)
MessageWrapper(reg, title, timing, seq) ==
  [state |-> "live", seq |-> seq, reg |-> reg, title |-> title,
   type |-> timing.type, left |-> timing.after, period |-> timing.period]

(* One activation of RunLoop::Run.  brk is the post its breaker_func_ waits*)
(* for, 0 when it has none; post and hs are runing_message_id and          *)
(* runing_handler; w is the local messagewrapper; todo the entries of      *)
(* fit_handler not called yet, cur the one being called.                   *)
Frame == [pc : {"top", "sleep", "call", "in"}, brk : Nat, w : Nat, post : Nat,
          hs : SUBSET Nat, todo : SUBSET Nat, cur : Nat, del : BOOLEAN]

NewFrame(brk) == [pc |-> "top", brk |-> brk, w |-> 0, post |-> 0, hs |-> {},
                  todo |-> {}, cur |-> 0, del |-> TRUE]

(* A client thread: idle, inside ScopeRegister::CancelAndWait, or waiting  *)
(* on the condition of wrapper or frame number on.  h is the handler whose *)
(* CancelAndWait the thread is in, 0 if it is in none.                     *)
Client == [pc : {"idle", "cancel", "wait", "waitend", "waitrun"},
           on : Nat, h : Nat]

Idle == [pc |-> "idle", on |-> 0, h |-> 0]

-----------------------------------------------------------------------------
(* Helpers.                                                                *)

Exists == mq = "exists"
Top == frame[depth]

Pending(s) == {w \in lst_message : heap[w].seq = s}
Running(s) == {k \in 1..depth : frame[k].post = s}
RunningHandler(h) == {k \in 1..depth : h \in frame[k].hs}
Same(h, t) == {w \in lst_message : heap[w].reg = h /\ heap[w].title = t}

(* Post ids are the sequence numbers drawn so far; a caller may hold any.  *)
Posts == 1..s_seq

(* Some thread is free to call the API: a client, or the queue's own       *)
(* thread from inside a handler.                                           *)
CallerReady == (\E c \in Clients : cl[c] = Idle) \/ (depth > 0 /\ Top.pc = "in")

(* breaker->Notify: the thread in the timed wait becomes runnable.         *)
Notify ==
  /\ frame' = IF depth > 0 /\ Top.pc = "sleep"
              THEN [frame EXCEPT ![depth].pc = "top"] ELSE frame
  /\ sleep' = 0
  /\ UNCHANGED depth

(* notifyAll on wait_end_cond of the wrappers W and on runing_cond of the  *)
(* frames K.  A woken client returns from its call.                        *)
Woken(W, K) == {c \in Clients : \/ cl[c].pc = "waitend" /\ cl[c].on \in W
                                \/ cl[c].pc = "waitrun" /\ cl[c].on \in K}
NotifyAll(W, K) ==
  /\ cl' = [c \in Clients |-> IF c \in Woken(W, K) THEN Idle ELSE cl[c]]
  /\ quiet' = quiet \cup ({cl[c].h : c \in Woken(W, K)} \ {0})

(* Mutant of Delete: the destructor does not notify wait_end_cond.         *)
DeleteSilently(W) ==
  /\ heap' = [w \in Wrappers |-> IF w \in W THEN Freed ELSE heap[w]]
  /\ lst_message' = lst_message \ W
  /\ UNCHANGED <<cl, quiet>>

(* delete of the wrappers W: ~MessageWrapper notifies their waiters.       *)
Delete(W) ==
  /\ heap' = [w \in Wrappers |-> IF w \in W THEN Freed ELSE heap[w]]
  /\ lst_message' = lst_message \ W
  /\ NotifyAll(W, {})

(* Mutant of PushBack: the sleeping loop is not notified.                  *)
PushBackSilently(W, wrapper) ==
  /\ nalloc < MaxAlloc
  /\ nalloc' = nalloc + 1
  /\ heap' = [w \in Wrappers |-> IF w = nalloc + 1 THEN wrapper
                                 ELSE IF w \in W THEN Freed ELSE heap[w]]
  /\ lst_message' = (lst_message \ W) \cup {nalloc + 1}
  /\ NotifyAll(W, {})
  /\ UNCHANGED loop

(* Delete the wrappers W and push a new one to the back of lst_message.    *)
PushBack(W, wrapper) ==
  /\ nalloc < MaxAlloc
  /\ nalloc' = nalloc + 1
  /\ heap' = [w \in Wrappers |-> IF w = nalloc + 1 THEN wrapper
                                 ELSE IF w \in W THEN Freed ELSE heap[w]]
  /\ lst_message' = (lst_message \ W) \cup {nalloc + 1}
  /\ NotifyAll(W, {})
  /\ Notify

(* Mutant of MakeSeq: the counter wraps around and numbers come again.     *)
MakeSeqWraps == s_seq' = (s_seq % 2) + 1

MakeSeq == s_seq < MaxSeq /\ s_seq' = s_seq + 1

-----------------------------------------------------------------------------
(* The queue and its handlers.                                             *)

(* __CreateMessageQueueInfo, with the AsyncInvoke handler it installs.     *)
CreateMessageQueueInfo ==
  /\ mq = "none" /\ mq' = "exists"
  /\ MakeSeq
  /\ regs' = regs \cup {s_seq'}
  /\ lst_handler' = lst_handler \cup {s_seq'}
  /\ UNCHANGED <<breakflag, recvbroadcast, nalloc, lst_message, heap, loop, cl, history>>

InstallMessageHandler(recv) ==
  /\ Exists /\ CallerReady
  /\ MakeSeq
  /\ regs' = regs \cup {s_seq'}
  /\ lst_handler' = lst_handler \cup {s_seq'}
  /\ recvbroadcast' = IF recv THEN recvbroadcast \cup {s_seq'} ELSE recvbroadcast
  /\ UNCHANGED <<mq, breakflag, nalloc, lst_message, heap, loop, cl, history>>

UnInstallMessageHandler(h) ==
  /\ Exists /\ CallerReady
  /\ lst_handler' = lst_handler \ {h}
  /\ UNCHANGED <<mq, breakflag, regs, recvbroadcast, messages, loop, cl, history>>

BreakMessageQueueRunloop ==
  /\ Exists /\ CallerReady
  /\ breakflag' = TRUE
  /\ Notify
  /\ UNCHANGED <<mq, lst_handler, regs, recvbroadcast, messages, cl, history>>

-----------------------------------------------------------------------------
(* Posting.                                                                *)

PostMessage(h, title, timing) ==
  /\ Exists /\ CallerReady
  /\ MakeSeq
  /\ PushBack({}, MessageWrapper(h, title, timing, s_seq'))
  /\ UNCHANGED <<content, cancelled>>

BroadcastMessage(title, timing) == PostMessage(0, title, timing)

(* Mutant of SingletonMessage: the replaced message stays in the list.     *)
SingletonMessageTwice(replace, h, title, timing) ==
  /\ Exists /\ CallerReady
  /\ IF Same(h, title) = {}
     THEN /\ MakeSeq
          /\ PushBack({}, MessageWrapper(h, title, timing, s_seq'))
     ELSE /\ replace
          /\ PushBack({}, MessageWrapper(h, title, timing, heap[Min(Same(h, title))].seq))
          /\ UNCHANGED s_seq
  /\ UNCHANGED <<content, cancelled>>

(* A pending message of the same handler and title is kept, or replaced by *)
(* the new one under its post id.                                          *)
SingletonMessage(replace, h, title, timing) ==
  /\ Exists /\ CallerReady
  /\ IF Same(h, title) = {}
     THEN /\ MakeSeq
          /\ PushBack({}, MessageWrapper(h, title, timing, s_seq'))
     ELSE /\ replace
          /\ LET it == Min(Same(h, title)) IN
             PushBack({it}, MessageWrapper(h, title, timing, heap[it].seq))
          /\ UNCHANGED s_seq
  /\ UNCHANGED <<content, cancelled>>

(* Whichever of the pending and the new message is due sooner survives,    *)
(* under the pending one's post id; a sequence number is drawn anyway.     *)
FasterMessage(h, title, timing) ==
  /\ Exists /\ CallerReady
  /\ MakeSeq
  /\ LET same == Same(h, title)
         it == Min(same)
     IN IF same # {} /\ heap[it].left < timing.after
        THEN UNCHANGED <<nalloc, lst_message, heap, loop, cl, quiet>>
        ELSE IF same = {}
             THEN PushBack({}, MessageWrapper(h, title, timing, s_seq'))
             ELSE PushBack({it}, MessageWrapper(h, title, timing, heap[it].seq))
  /\ UNCHANGED <<content, cancelled>>

-----------------------------------------------------------------------------
(* Cancelling.                                                             *)

CancelMessage(s) ==
  /\ Exists /\ CallerReady
  /\ Pending(s) # {}
  /\ Delete({Min(Pending(s))})
  /\ cancelled' = cancelled \cup {s}
  /\ UNCHANGED <<content, s_seq, nalloc, loop>>

CancelMessageHandler(h) ==
  /\ Exists /\ CallerReady
  /\ Delete({w \in lst_message : heap[w].reg = h})
  /\ UNCHANGED <<content, s_seq, nalloc, loop, cancelled>>

CancelMessageTitle(h, t) ==
  /\ Exists /\ CallerReady
  /\ Delete(Same(h, t))
  /\ UNCHANGED <<content, s_seq, nalloc, loop, cancelled>>

(* ScopeRegister::CancelAndWait on a client thread: uninstall, cancel,     *)
(* then wait for the run in progress, each under the mutex on its own.     *)
CancelAndWait(c, h) ==
  /\ cl[c] = Idle
  /\ lst_handler' = lst_handler \ {h}
  /\ cl' = [cl EXCEPT ![c] = [pc |-> "cancel", on |-> 0, h |-> h]]
  /\ UNCHANGED <<mq, breakflag, regs, recvbroadcast, messages, loop, history>>

CancelAndWaitCancel(c) ==
  /\ cl[c].pc = "cancel"
  /\ LET W == IF Exists THEN {w \in lst_message : heap[w].reg = cl[c].h} ELSE {} IN
     /\ heap' = [w \in Wrappers |-> IF w \in W THEN Freed ELSE heap[w]]
     /\ lst_message' = lst_message \ W
     /\ cl' = [d \in Clients |-> IF d = c THEN [cl[c] EXCEPT !.pc = "wait"]
                                 ELSE IF d \in Woken(W, {}) THEN Idle ELSE cl[d]]
  /\ UNCHANGED <<content, s_seq, nalloc, loop, history>>

-----------------------------------------------------------------------------
(* Waiting.  Only client threads block: on the queue's own thread          *)
(* WaitForRunningLockEnd returns at once and WaitMessage nests a RunLoop.  *)

BlockOn(c, pc, on, h) == cl' = [cl EXCEPT ![c] = [pc |-> pc, on |-> on, h |-> h]]

(* WaitForRunningLockEnd(post), and the same branch of WaitMessage.        *)
WaitForRunningLockEnd(c, s) ==
  /\ cl[c] = Idle /\ Exists
  /\ Running(s) # {}
  /\ BlockOn(c, "waitrun", Min(Running(s)), 0)
  /\ UNCHANGED <<content, messages, loop, history>>

WaitForRunningLockEndQueue(c) ==
  /\ cl[c] = Idle /\ Exists
  /\ depth > 0 /\ frame[1].post # 0
  /\ BlockOn(c, "waitrun", 1, 0)
  /\ UNCHANGED <<content, messages, loop, history>>

(* Mutant of WaitForRunningLockEndHandler: it looks at the innermost loop  *)
(* only.                                                                   *)
WaitForInnermostHandler(c) ==
  /\ cl[c].pc = "wait"
  /\ IF Exists /\ depth \in RunningHandler(cl[c].h)
     THEN /\ BlockOn(c, "waitrun", depth, cl[c].h)
          /\ UNCHANGED quiet
     ELSE /\ cl' = [cl EXCEPT ![c] = Idle]
          /\ quiet' = quiet \cup {cl[c].h}
  /\ UNCHANGED <<content, messages, loop, cancelled>>

(* WaitForRunningLockEnd(handler), the last step of CancelAndWait.         *)
WaitForRunningLockEndHandler(c) ==
  /\ cl[c].pc = "wait"
  /\ IF Exists /\ RunningHandler(cl[c].h) # {}
     THEN /\ BlockOn(c, "waitrun", Min(RunningHandler(cl[c].h)), cl[c].h)
          /\ UNCHANGED quiet
     ELSE /\ cl' = [cl EXCEPT ![c] = Idle]
          /\ quiet' = quiet \cup {cl[c].h}
  /\ UNCHANGED <<content, messages, loop, cancelled>>

WaitMessage(c, s) ==
  /\ cl[c] = Idle /\ Exists
  /\ IF Pending(s) # {}
     THEN BlockOn(c, "waitend", Min(Pending(s)), 0)
     ELSE /\ Running(s) # {}
          /\ BlockOn(c, "waitrun", Min(Running(s)), 0)
  /\ UNCHANGED <<content, messages, loop, history>>

(* WaitMessage from a handler: a nested RunLoop that ends when the message *)
(* has left lst_message.                                                   *)
WaitMessageInQueue(s) ==
  /\ depth \in 1..(MaxDepth - 1) /\ Top.pc = "in"
  /\ Pending(s) # {}
  /\ depth' = depth + 1
  /\ frame' = [frame EXCEPT ![depth + 1] = NewFrame(s)]
  /\ UNCHANGED <<content, messages, sleep, cl, history>>

(* pthread_cond_wait returns to client c although nobody notified.         *)
SpuriousWakeup(c) ==
  /\ SpuriousWakeups
  /\ cl[c].pc \in {"waitend", "waitrun"}
  /\ cl' = [cl EXCEPT ![c] = Idle]
  /\ quiet' = quiet \cup ({cl[c].h} \ {0})
  /\ UNCHANGED <<content, messages, loop, cancelled>>

-----------------------------------------------------------------------------
(* RunLoop::Run.                                                           *)

RunBegin ==
  /\ Exists /\ depth = 0
  /\ depth' = 1
  /\ frame' = [frame EXCEPT ![1] = NewFrame(0)]
  /\ UNCHANGED <<content, messages, sleep, cl, history>>

(* Mutant of MustBreak: breaker_func_ is not asked.                        *)
MustBreakOnFlag == breakflag

(* The loop ends: breakflag, or breaker_func_ finds its message gone.      *)
MustBreak == breakflag \/ (Top.brk # 0 /\ Pending(Top.brk) = {})

LoopTop == depth > 0 /\ Top.pc = "top"

Due == {w \in lst_message : heap[w].left = 0}

WaitTime == Min({DefaultWait} \cup {heap[w].left : w \in lst_message})

(* __ReleaseMessageQueueInfo: delete the messages, the handlers and the    *)
(* map's entry, after the loop's last runing_cond->notifyAll.              *)
ReleaseMessageQueueInfo ==
  /\ NotifyAll(lst_message, {depth})
  /\ heap' = [w \in Wrappers |-> IF w \in lst_message THEN Freed ELSE heap[w]]
  /\ lst_message' = {} /\ lst_handler' = {}
  /\ mq' = "released"

(* Mutant of LoopBreak: the loop that sees breakflag clears it.            *)
LoopBreakConsumesFlag ==
  /\ LoopTop /\ MustBreak
  /\ depth' = depth - 1
  /\ frame' = [frame EXCEPT ![depth] = NewFrame(0)]
  /\ breakflag' = FALSE
  /\ IF depth > 1
     THEN /\ NotifyAll({}, {depth})
          /\ UNCHANGED <<mq, lst_message, heap, lst_handler>>
     ELSE ReleaseMessageQueueInfo
  /\ UNCHANGED <<regs, recvbroadcast, s_seq, nalloc, sleep, cancelled>>

(* Top of the loop: forget the message just run and notify runing_cond,    *)
(* then end the loop.  The outermost loop takes the queue with it.         *)
LoopBreak ==
  /\ LoopTop /\ MustBreak
  /\ depth' = depth - 1
  /\ frame' = [frame EXCEPT ![depth] = NewFrame(0)]
  /\ IF depth > 1
     THEN /\ NotifyAll({}, {depth})
          /\ UNCHANGED <<mq, lst_message, heap, lst_handler>>
     ELSE ReleaseMessageQueueInfo
  /\ UNCHANGED <<breakflag, regs, recvbroadcast, s_seq, nalloc, sleep, cancelled>>

(* Nothing is due: sleep until the first message is.                       *)
LoopSleep ==
  /\ LoopTop /\ ~MustBreak /\ Due = {}
  /\ NotifyAll({}, {depth})
  /\ frame' = [frame EXCEPT ![depth] = [NewFrame(Top.brk) EXCEPT !.pc = "sleep"]]
  /\ sleep' = WaitTime
  /\ UNCHANGED <<content, messages, depth, cancelled>>

(* fit_handler for wrapper w, and the RunLoopInfo published with it.       *)
Fit(w) == {h \in lst_handler : \/ heap[w].reg = h
                               \/ heap[w].reg = 0 /\ h \in recvbroadcast}

RunFrame(w, del) ==
  [pc |-> "call", brk |-> Top.brk, w |-> w, post |-> heap[w].seq,
   hs |-> Fit(w), todo |-> Fit(w), cur |-> 0, del |-> del]

(* Mutant of LoopRun: a one-shot message leaves the list after its run.    *)
LoopRunErasesLate ==
  /\ LoopTop /\ ~MustBreak /\ Due # {}
  /\ NotifyAll({}, {depth})
  /\ LET w == Min(Due) IN
     /\ frame' = [frame EXCEPT ![depth] = RunFrame(w, heap[w].type # "period")]
     /\ heap' = [heap EXCEPT ![w].left = heap[w].period]
  /\ UNCHANGED <<content, s_seq, nalloc, lst_message, depth, sleep, cancelled>>

(* Mutant of LoopRun: a delayed message is re-armed like a periodic one.   *)
LoopRunRearms ==
  /\ LoopTop /\ ~MustBreak /\ Due # {}
  /\ NotifyAll({}, {depth})
  /\ LET w == Min(Due)
         oneshot == heap[w].type = "immediately"
     IN /\ frame' = [frame EXCEPT ![depth] = RunFrame(w, oneshot)]
        /\ lst_message' = IF oneshot THEN lst_message \ {w} ELSE lst_message
        /\ heap' = [heap EXCEPT ![w].left = heap[w].period]
  /\ UNCHANGED <<content, s_seq, nalloc, depth, sleep, cancelled>>

(* The first message in the list that is due is taken out, or re-armed if  *)
(* it is periodic, and the handlers that fit it are copied.                *)
LoopRun ==
  /\ LoopTop /\ ~MustBreak /\ Due # {}
  /\ NotifyAll({}, {depth})
  /\ LET w == Min(Due)
         periodic == heap[w].type = "period"
     IN /\ frame' = [frame EXCEPT ![depth] = RunFrame(w, ~periodic)]
        /\ lst_message' = IF periodic THEN lst_message ELSE lst_message \ {w}
        /\ heap' = IF periodic THEN [heap EXCEPT ![w].left = heap[w].period]
                   ELSE heap
  /\ UNCHANGED <<content, s_seq, nalloc, depth, sleep, cancelled>>

(* The timed wait times out.                                               *)
LoopWake ==
  /\ depth > 0 /\ Top.pc = "sleep"
  /\ sleep = 0 \/ SpuriousWakeups
  /\ frame' = [frame EXCEPT ![depth].pc = "top"]
  /\ sleep' = 0
  /\ UNCHANGED <<content, messages, depth, cl, history>>

HandlerCall ==
  /\ depth > 0 /\ Top.pc = "call" /\ Top.todo # {}
  /\ LET h == Min(Top.todo) IN
     frame' = [frame EXCEPT ![depth] =
                 [Top EXCEPT !.pc = "in", !.cur = h, !.todo = Top.todo \ {h}]]
  /\ UNCHANGED <<content, messages, depth, sleep, cl, history>>

HandlerReturn ==
  /\ depth > 0 /\ Top.pc = "in"
  /\ frame' = [frame EXCEPT ![depth] = [Top EXCEPT !.pc = "call", !.cur = 0]]
  /\ UNCHANGED <<content, messages, depth, sleep, cl, history>>

(* All handlers called: delete a one-shot message, back to the top.        *)
LoopEnd ==
  /\ depth > 0 /\ Top.pc = "call" /\ Top.todo = {}
  /\ Delete(IF Top.del THEN {Top.w} ELSE {})
  /\ frame' = [frame EXCEPT ![depth].pc = "top"]
  /\ UNCHANGED <<content, s_seq, nalloc, depth, sleep, cancelled>>

-----------------------------------------------------------------------------
(* Mutant of Minus1: the result is not kept from going below zero.         *)
Minus1Unguarded(n) == n - 1

(* Time passes: gettickspan of every record_time grows by one.  What is    *)
(* left until a message is due does not go below zero.                     *)
Minus1(n) == IF n > 0 THEN n - 1 ELSE 0
Tick ==
  /\ sleep > 0 \/ \E w \in lst_message : heap[w].left > 0
  /\ sleep' = Minus1(sleep)
  /\ heap' = [w \in Wrappers |-> [heap[w] EXCEPT !.left = Minus1(@)]]
  /\ UNCHANGED <<content, s_seq, nalloc, lst_message, depth, frame, cl, history>>

(* The queue is gone and no thread is inside a call.                       *)
Terminated ==
  /\ mq = "released" /\ \A c \in Clients : cl[c] = Idle
  /\ UNCHANGED vars

-----------------------------------------------------------------------------
Init ==
  /\ mq = "none" /\ breakflag = FALSE
  /\ s_seq = 0 /\ nalloc = 0
  /\ regs = {} /\ recvbroadcast = {} /\ lst_handler = {}
  /\ lst_message = {} /\ heap = [w \in Wrappers |-> Freed]
  /\ depth = 0 /\ frame = [k \in 1..MaxDepth |-> NewFrame(0)] /\ sleep = 0
  /\ cl = [c \in Clients |-> Idle]
  /\ quiet = {} /\ cancelled = {}

Handlers ==
  \/ CreateMessageQueueInfo
  \/ \E recv \in BOOLEAN : InstallMessageHandler(recv)
  \/ \E h \in regs : UnInstallMessageHandler(h)
  \/ BreakMessageQueueRunloop

Posting == \E title \in Titles, timing \in Timings :
  \/ BroadcastMessage(title, timing)
  \/ \E h \in regs :
       \/ PostMessage(h, title, timing)
       \/ \E replace \in BOOLEAN : SingletonMessage(replace, h, title, timing)
       \/ FasterMessage(h, title, timing)

Cancelling ==
  \/ \E s \in Posts : CancelMessage(s)
  \/ \E h \in regs \cup {0} : \/ CancelMessageHandler(h)
                              \/ \E t \in Titles : CancelMessageTitle(h, t)
  \/ \E c \in Clients : \/ \E h \in regs : CancelAndWait(c, h)
                        \/ CancelAndWaitCancel(c)

Waiting == \E c \in Clients :
  \/ \E s \in Posts : WaitForRunningLockEnd(c, s) \/ WaitMessage(c, s)
  \/ WaitForRunningLockEndQueue(c)
  \/ WaitForRunningLockEndHandler(c)
  \/ SpuriousWakeup(c)

RunLoop ==
  \/ RunBegin \/ LoopBreak \/ LoopSleep \/ LoopRun \/ LoopWake
  \/ HandlerCall \/ HandlerReturn \/ LoopEnd
  \/ \E s \in Posts : WaitMessageInQueue(s)

Next == Handlers \/ Posting \/ Cancelling \/ Waiting \/ RunLoop \/ Tick \/ Terminated

Spec == Init /\ [][Next]_vars

-----------------------------------------------------------------------------
(* Fairness.  The queue's thread and threads inside CancelAndWait are      *)
(* scheduled, timed waits time out, time passes, and a handler makes       *)
(* finitely many calls and returns (strong: a nested loop it waits in      *)
(* disables its return for a while).                                       *)
Fairness ==
  /\ WF_vars(RunBegin) /\ WF_vars(LoopBreak) /\ WF_vars(LoopSleep)
  /\ WF_vars(LoopRun) /\ WF_vars(LoopWake) /\ WF_vars(HandlerCall)
  /\ SF_vars(HandlerReturn) /\ WF_vars(LoopEnd) /\ WF_vars(Tick)
  /\ \A c \in Clients : /\ WF_vars(CancelAndWaitCancel(c))
                        /\ WF_vars(WaitForRunningLockEndHandler(c))

FairSpec == Spec /\ Fairness

-----------------------------------------------------------------------------
(* Properties.                                                             *)

(* The type of every variable.                                             *)
TypeOK ==
  /\ mq \in {"none", "exists", "released"} /\ breakflag \in BOOLEAN
  /\ s_seq \in 0..MaxSeq /\ nalloc \in 0..MaxAlloc
  /\ regs \subseteq 1..s_seq /\ recvbroadcast \subseteq regs
  /\ lst_handler \subseteq regs
  /\ lst_message \subseteq 1..nalloc
  /\ heap \in [Wrappers -> Wrapper]
  /\ depth \in 0..MaxDepth /\ frame \in [1..MaxDepth -> Frame]
  /\ sleep \in Nat
  /\ cl \in [Clients -> Client]
  /\ quiet \subseteq Nat /\ cancelled \subseteq Nat

(* The loop never sleeps past a message: while its thread is in the timed  *)
(* wait at the bottom of RunLoop::Run, what is left of the wait is at most *)
(* the time until any message in lst_message is due, whatever was posted,  *)
(* replaced or made faster since it fell asleep; and a broken queue's loop *)
(* is not asleep.                                                          *)
NoOversleep ==
  depth > 0 /\ Top.pc = "sleep" =>
    /\ ~breakflag
    /\ \A w \in lst_message : sleep <= heap[w].left

(* No waiter is forgotten: a client in WaitMessage waits on a wrapper that *)
(* is still to be deleted, and a client on a runing_cond waits on a loop   *)
(* that is still running a message and so will come back to its top.       *)
WaitersHaveNotifier ==
  \A c \in Clients :
    /\ cl[c].pc = "waitend" =>
         /\ cl[c].on \in Wrappers /\ heap[cl[c].on].state = "live"
         /\ \/ cl[c].on \in lst_message
            \/ \E k \in 1..depth : frame[k].w = cl[c].on /\ frame[k].del
    /\ cl[c].pc = "waitrun" => cl[c].on \in 1..depth /\ frame[cl[c].on].post # 0

(* Once ScopeRegister::CancelAndWait has returned to another thread, the   *)
(* handler is not executing in any RunLoop of the queue, nested ones       *)
(* included, is not in a fit_handler copy waiting for its turn, and is not *)
(* installed: its owner may be destroyed.                                  *)
CancelAndWaitQuiesces ==
  \A h \in quiet :
    /\ h \notin lst_handler
    /\ \A k \in 1..depth : frame[k].cur # h /\ h \notin frame[k].todo

(* A post id names at most one message of the list, although               *)
(* SingletonMessage and FasterMessage hand the id of a replaced message to *)
(* the new one.                                                            *)
PostIdsUnique ==
  \A v, w \in lst_message : heap[v].seq = heap[w].seq => v = w

(* CancelMessage returned true: the post is not pending any more and no    *)
(* one-shot run of it is in progress.                                      *)
CancelledNeverRuns ==
  \A s \in cancelled :
    /\ Pending(s) = {}
    /\ \A k \in 1..depth : frame[k].post = s => ~frame[k].del

(* FoundMessage, which looks at the running loops and at the list.         *)
FoundMessage(s) == Exists /\ depth > 0 /\ (Running(s) # {} \/ Pending(s) # {})

(* A message FoundMessage does not find is never found again: it does not  *)
(* vanish between leaving lst_message and becoming runing_message_id.      *)
GoneStaysGone ==
  [][\A s \in Posts : depth > 0 /\ ~FoundMessage(s) => ~FoundMessage(s)']_vars

(* The message a handler has been passed by reference is not deleted while *)
(* handlers are being called with it.                                      *)
RunningMessageAlive ==
  \A k \in 1..depth : frame[k].pc = "in" => heap[frame[k].w].state = "live"

(* BreakMessageQueueRunloop ends the queue, however deeply loops nest.     *)
BreakEndsQueue == breakflag ~> mq = "released"

(* Every wait ends.                                                        *)
WaitersReturn == \A c \in Clients : cl[c] # Idle ~> cl[c] = Idle

(* Every message whose loop runs leaves the list.                          *)
MessagesHandled == \A w \in Wrappers : w \in lst_message ~> w \notin lst_message

=============================================================================
