-------------------------- MODULE MessageListProofs --------------------------
(***************************************************************************)
(* Proofs about the list of messages of MessageQueue and about those who   *)
(* wait for them, for every set of clients, titles and timings and every   *)
(* bound, spurious wake-ups included: post ids stay unique, a cancelled    *)
(* message does not run, a message that is gone stays gone, nobody waits   *)
(* for a notify that does not come, and the loop does not oversleep.       *)
(*                                                                         *)
(* A message is in the list, or owned by the one loop that took it out and *)
(* will delete it; loops below the innermost one are inside a handler.     *)
(***************************************************************************)
EXTENDS MessageQueueProofs

(* Loop k has taken its message out of the list and has still to delete it.*)
Owns(k) == frame[k].pc \in {"call", "in"} /\ frame[k].del

GoodFrame(k) ==
  /\ frame[k].post \in 0..s_seq
  /\ frame[k].hs # {} => frame[k].post # 0
  /\ k < depth => frame[k].pc = "in"
  /\ Owns(k) => /\ frame[k].w \in 1..nalloc /\ frame[k].w \notin lst_message
                /\ heap[frame[k].w].state = "live"

(* The messages in the list; the loops and the messages they own; a        *)
(* one-shot message that a loop has run is not in the list under its id.   *)
Listed ==
  /\ \A w \in lst_message : heap[w].state = "live" /\ heap[w].seq \in 1..s_seq
  /\ PostIdsUnique
Loops ==
  /\ depth > 0 => Exists
  /\ \A k \in 1..depth : GoodFrame(k)
  /\ \A j, k \in 1..depth : Owns(j) /\ Owns(k) /\ frame[j].w = frame[k].w => j = k
  /\ \A k \in 1..depth, w \in lst_message : frame[k].del => frame[k].post # heap[w].seq
Cancels == cancelled \subseteq 1..s_seq /\ CancelledNeverRuns

MessagesInv == Listed /\ Loops /\ Cancels

(* Somebody will delete wrapper w.                                         *)
Awaited(w) == w \in lst_message \/ \E k \in 1..depth : Owns(k) /\ frame[k].w = w

(* Whoever waits, waits for a loop to delete the message or to reach its   *)
(* top.                                                                    *)
GoodWaiter(c) ==
  /\ cl[c].pc = "waitend" => Awaited(cl[c].on)
  /\ cl[c].pc = "waitrun" => cl[c].on \in 1..depth /\ frame[cl[c].on].post # 0

WaitersInv == \A c \in Clients : GoodWaiter(c)

ListInv == MessagesInv /\ WaitersInv /\ NoOversleep

-----------------------------------------------------------------------------
(* Steps that put no message in the list and start none: loops end, become *)
(* blank or go on with what they have, the list may only shrink.           *)
Blank(k) == frame[k].post = 0 /\ frame[k].hs = {} /\ ~Owns(k)

Carries(k) ==
  /\ k \in 1..depth
  /\ frame'[k].post = frame[k].post /\ frame'[k].hs = frame[k].hs
  /\ frame'[k].w = frame[k].w /\ frame'[k].del = frame[k].del
  /\ Owns(k)' => Owns(k)

ListShrinks ==
  \A w \in lst_message' : /\ w \in lst_message /\ heap'[w].seq = heap[w].seq
                          /\ heap'[w].state = heap[w].state

LoopsGoOn ==
  /\ depth' > 0 => mq' = "exists"
  /\ \A k \in 1..depth' : Blank(k)' \/ Carries(k)
  /\ \A k \in 1..depth' : k < depth' => frame'[k].pc = "in"
  /\ \A k \in 1..depth' : Owns(k)' => heap'[frame'[k].w].state = heap[frame'[k].w].state

Calm == ListShrinks /\ LoopsGoOn /\ s_seq <= s_seq' /\ nalloc <= nalloc'

(* What is cancelled in this step is not in the list nor run once.         *)
CancelledNow ==
  \A s \in cancelled' : \/ s \in cancelled
                        \/ /\ s \in 1..s_seq' /\ Pending(s)' = {}
                           /\ \A k \in 1..depth' : frame'[k].post = s => ~frame'[k].del

(* Each part of the invariant in such a step.                              *)
LEMMA CalmListed == ASSUME TypeOK, TypeOK', Listed, Calm PROVE Listed'
<1>1. s_seq \in Nat /\ s_seq' \in Nat /\ s_seq <= s_seq'
  BY DEF TypeOK, Calm
<1>2. \A n \in 1..s_seq : n \in 1..s_seq'
  BY <1>1
<1> QED
  BY <1>2 DEF Listed, PostIdsUnique, Calm, ListShrinks

LEMMA CalmLoops == ASSUME TypeOK, TypeOK', Listed, Loops, Calm PROVE Loops'
<1>1. /\ s_seq \in Nat /\ s_seq' \in Nat /\ s_seq <= s_seq' /\ nalloc \in Nat /\ nalloc' \in Nat
      /\ nalloc <= nalloc'
  BY DEF TypeOK, Calm
<1>2. /\ \A n \in 0..s_seq : n \in 0..s_seq'
      /\ \A n \in 1..nalloc : n \in 1..nalloc'
      /\ 0 \in 0..s_seq'
  BY <1>1
<1>3. ASSUME NEW k \in 1..depth' PROVE GoodFrame(k)'
  <2>1. k < depth' => frame'[k].pc = "in"
    BY DEF Calm, LoopsGoOn
  <2>2. CASE Blank(k)'
    BY <1>2, <2>1, <2>2 DEF Blank, GoodFrame
  <2>3. CASE Carries(k)
    <3>1. GoodFrame(k)
      BY <2>3 DEF Carries, Loops
    <3>2. Owns(k)' => heap'[frame'[k].w].state = heap[frame'[k].w].state
      BY DEF Calm, LoopsGoOn
    <3>3. \A w \in lst_message' : w \in lst_message
      BY DEF Calm, ListShrinks
    <3> QED
      BY <1>2, <2>1, <2>3, <3>1, <3>2, <3>3 DEF Carries, GoodFrame
  <2> QED
    BY <2>2, <2>3 DEF Calm, LoopsGoOn
<1>4. ASSUME NEW j \in 1..depth', NEW k \in 1..depth', Owns(j)', Owns(k)', frame'[j].w = frame'[k].w
      PROVE  j = k
  <2>1. Carries(j) /\ Carries(k)
    BY <1>4 DEF Calm, LoopsGoOn, Blank
  <2> QED
    BY <1>4, <2>1 DEF Carries, Loops
<1>5. ASSUME NEW k \in 1..depth', NEW w \in lst_message', frame'[k].del
      PROVE  frame'[k].post # heap'[w].seq
  <2>1. w \in lst_message /\ heap'[w].seq = heap[w].seq /\ heap[w].seq \in 1..s_seq
    BY DEF Calm, ListShrinks, Listed
  <2>2. CASE Blank(k)'
    BY <1>1, <2>1, <2>2 DEF Blank
  <2>3. CASE Carries(k)
    BY <1>5, <2>1, <2>3 DEF Carries, Loops
  <2> QED
    BY <2>2, <2>3 DEF Calm, LoopsGoOn
<1>6. depth' > 0 => Exists'
  BY DEF Calm, LoopsGoOn, Exists
<1> QED
  BY <1>3, <1>4, <1>5, <1>6 DEF Loops

LEMMA CalmCancels ==
  ASSUME TypeOK, TypeOK', Listed, Cancels, Calm, CancelledNow PROVE Cancels'
<1>1. s_seq \in Nat /\ s_seq' \in Nat /\ s_seq <= s_seq'
  BY DEF TypeOK, Calm
<1>2. \A n \in 1..s_seq : n \in 1..s_seq'
  BY <1>1
<1>3. ASSUME NEW s \in cancelled'
      PROVE  /\ s \in 1..s_seq' /\ Pending(s)' = {}
             /\ \A k \in 1..depth' : frame'[k].post = s => ~frame'[k].del
  <2>1. CASE s \in cancelled
    <3>1. s \in 1..s_seq /\ Pending(s) = {} /\ \A k \in 1..depth : frame[k].post = s => ~frame[k].del
      BY <2>1 DEF Cancels, CancelledNeverRuns
    <3>2. Pending(s)' = {}
      BY <3>1 DEF Pending, Calm, ListShrinks
    <3>3. ASSUME NEW k \in 1..depth', frame'[k].post = s PROVE ~frame'[k].del
      <4>1. s # 0
        BY <1>1, <3>1
      <4>2. Carries(k)
        BY <3>3, <4>1 DEF Calm, LoopsGoOn, Blank
      <4> QED
        BY <3>1, <3>3, <4>2 DEF Carries
    <3> QED
      BY <1>2, <3>1, <3>2, <3>3
  <2>2. CASE s \notin cancelled
    BY <2>2 DEF CancelledNow
  <2> QED
    BY <2>1, <2>2
<1>4. cancelled' \subseteq 1..s_seq'
  BY <1>3
<1>5. CancelledNeverRuns'
  BY <1>3 DEF CancelledNeverRuns
<1> QED
  BY <1>4, <1>5 DEF Cancels

(* Such a step keeps the invariant of the messages ...                     *)
LEMMA CalmMessages ==
  ASSUME TypeOK, TypeOK', MessagesInv, Calm, CancelledNow PROVE MessagesInv'
BY CalmListed, CalmLoops, CalmCancels DEF MessagesInv

(* ... and brings no post back.                                            *)
Returns(s) == Running(s) # {} \/ Pending(s) # {}

LEMMA CalmGone ==
  ASSUME TypeOK, Calm, NEW s \in Posts, Returns(s)' PROVE Returns(s)
<1>1. s # 0
  BY DEF Posts, TypeOK
<1>2. CASE Running(s)' # {}
  <2>1. PICK k \in 1..depth' : frame'[k].post = s
    BY <1>2 DEF Running
  <2>2. Carries(k)
    BY <1>1, <2>1 DEF Calm, LoopsGoOn, Blank
  <2> QED
    BY <2>1, <2>2 DEF Carries, Running, Returns
<1>3. CASE Pending(s)' # {}
  BY <1>3 DEF Pending, Returns, Calm, ListShrinks
<1> QED
  BY <1>2, <1>3 DEF Returns

-----------------------------------------------------------------------------
(* Waiters: whoever loses what it waits for is woken.                      *)
LEMMA WaitersKept ==
  ASSUME TypeOK, WaitersInv, NEW W, NEW K,
         \A w : Awaited(w) => Awaited(w)' \/ w \in W,
         \A k \in 1..depth : frame[k].post # 0 => k \in K \/ (k \in 1..depth' /\ frame'[k].post # 0),
         \A c \in Clients : \/ cl'[c] = cl[c] /\ c \notin Woken(W, K)
                            \/ cl'[c].pc \notin {"waitend", "waitrun"}
                            \/ GoodWaiter(c)'
  PROVE  WaitersInv'
<1> SUFFICES ASSUME NEW c \in Clients, cl'[c] = cl[c], c \notin Woken(W, K) PROVE GoodWaiter(c)'
  BY DEF WaitersInv, GoodWaiter
<1>1. GoodWaiter(c)
  BY DEF WaitersInv
<1>2. cl[c].pc = "waitend" => Awaited(cl[c].on)'
  <2> SUFFICES ASSUME cl[c].pc = "waitend" PROVE Awaited(cl[c].on)'
    OBVIOUS
  <2>1. PICK w : w = cl[c].on /\ w = cl'[c].on /\ w \notin W
    BY DEF Woken
  <2>2. Awaited(w)'
    BY <1>1, <2>1 DEF GoodWaiter
  <2> QED
    BY <2>1, <2>2
<1>3. cl[c].pc = "waitrun" => cl[c].on \in 1..depth' /\ frame'[cl[c].on].post # 0
  BY <1>1 DEF GoodWaiter, Woken
<1> QED
  BY <1>2, <1>3 DEF GoodWaiter

(* notifyAll wakes whoever waits on what it is called for.                 *)
LEMMA NotifyAllWakes ==
  ASSUME NEW W, NEW K, NotifyAll(W, K)
  PROVE  \A c \in Clients : \/ cl'[c] = cl[c] /\ c \notin Woken(W, K)
                            \/ cl'[c].pc \notin {"waitend", "waitrun"}
BY DEF NotifyAll, Idle

(* The loop that sleeps goes on sleeping, and nothing is due sooner.       *)
LEMMA SleepKept ==
  ASSUME NoOversleep, UNCHANGED <<breakflag, depth, frame, sleep>>,
         \A w \in lst_message' : w \in lst_message /\ heap'[w].left = heap[w].left
  PROVE  NoOversleep'
BY DEF NoOversleep, Top

(* A loop that is awake does not oversleep.                                *)
LEMMA AwakeKept ==
  ASSUME depth' > 0 => frame'[depth'].pc # "sleep" PROVE NoOversleep'
BY DEF NoOversleep, Top

-----------------------------------------------------------------------------
(* What a step is to keep, GoneStaysGone's part included.                  *)
NoneReturns == \A s \in Posts : depth > 0 /\ Returns(s)' => Returns(s)
Kept == ListInv' /\ NoneReturns

(* Messages and loops are as they were: handlers come and go, clients call.*)
LEMMA StillStep ==
  ASSUME TypeOK, TypeOK', ListInv, mq' \in {mq, "exists"}, s_seq <= s_seq',
         UNCHANGED <<breakflag, depth, frame, sleep, nalloc, lst_message, heap, cancelled>>,
         \A c \in Clients : \/ cl'[c] = cl[c]
                            \/ cl'[c].pc \notin {"waitend", "waitrun"}
                            \/ GoodWaiter(c)'
  PROVE  Kept
<1>1. MessagesInv /\ WaitersInv /\ NoOversleep
  BY DEF ListInv
<1>2. LoopsGoOn
  <2>1. \A k \in 1..depth' : Carries(k)
    BY DEF Carries, Owns
  <2>2. \A k \in 1..depth' : k < depth' => frame'[k].pc = "in"
    BY <1>1 DEF MessagesInv, Loops, GoodFrame
  <2>3. depth' > 0 => mq' = "exists"
    BY <1>1 DEF MessagesInv, Loops, Exists
  <2> QED
    BY <2>1, <2>2, <2>3 DEF LoopsGoOn
<1>3. Calm
  BY <1>2 DEF Calm, ListShrinks, TypeOK
<1>4. MessagesInv'
  BY <1>1, <1>3, CalmMessages DEF CancelledNow
<1>5. WaitersInv'
  <2>1. \A w : Awaited(w) => Awaited(w)'
    BY DEF Awaited, Owns
  <2>2. Woken({}, {}) = {}
    BY DEF Woken
  <2> QED
    BY <1>1, <2>1, <2>2, WaitersKept
<1>6. NoOversleep'
  BY <1>1, SleepKept
<1> QED
  BY <1>3, <1>4, <1>5, <1>6, CalmGone DEF Kept, ListInv, NoneReturns

(* breaker->Notify changes nothing but that the innermost loop is awake.   *)
LEMMA NotifyLoops ==
  ASSUME TypeOK, Notify
  PROVE  /\ depth' = depth
         /\ \A k \in 1..depth :
              /\ Carries(k) /\ (Owns(k)' <=> Owns(k))
              /\ frame'[k].pc = frame[k].pc \/ (k = depth /\ frame'[k].pc = "top")
         /\ depth > 0 => frame'[depth].pc # "sleep"
<1>1. depth' = depth /\ depth \in 0..MaxDepth /\ frame \in [1..MaxDepth -> Frame]
  BY DEF TypeOK, Notify
<1>2. CASE depth > 0 /\ Top.pc = "sleep"
  <2>1. depth \in 1..MaxDepth /\ frame' = [frame EXCEPT ![depth] = [frame[depth] EXCEPT !.pc = "top"]]
    BY <1>1, <1>2, BoundsAssumption DEF Notify
  <2>2. /\ frame'[depth] = [frame[depth] EXCEPT !.pc = "top"]
        /\ \A k \in 1..depth : k \in 1..MaxDepth /\ (k # depth => frame'[k] = frame[k])
    BY <1>1, <2>1, BoundsAssumption
  <2>3. frame[depth] \in Frame
    BY <1>1, <2>1
  <2>4. /\ frame'[depth].pc = "top" /\ frame'[depth].post = frame[depth].post
        /\ frame'[depth].hs = frame[depth].hs /\ frame'[depth].w = frame[depth].w
        /\ frame'[depth].del = frame[depth].del
    BY <2>2, <2>3 DEF Frame
  <2>6. ASSUME NEW k \in 1..depth, k # depth
        PROVE  Carries(k) /\ (Owns(k)' <=> Owns(k)) /\ frame'[k].pc = frame[k].pc
    BY <2>2, <2>6 DEF Carries, Owns
  <2>7. ASSUME NEW k \in 1..depth, k = depth
        PROVE  Carries(k) /\ (Owns(k)' <=> Owns(k)) /\ frame'[k].pc = "top"
    BY <1>2, <2>4, <2>7 DEF Carries, Owns, Top
  <2> QED
    BY <1>1, <2>4, <2>6, <2>7
<1>3. CASE ~(depth > 0 /\ Top.pc = "sleep")
  <2>1. frame' = frame
    BY <1>3 DEF Notify
  <2> QED
    BY <1>1, <1>3, <2>1 DEF Carries, Owns, Top
<1> QED
  BY <1>2, <1>3

(* BreakMessageQueueRunloop wakes the loop, whose top will see the flag.   *)
LEMMA BreakStep == ASSUME TypeOK, TypeOK', ListInv, BreakMessageQueueRunloop PROVE Kept
<1>1. /\ Notify /\ UNCHANGED <<mq, s_seq, nalloc, lst_message, heap, cl, cancelled>>
  BY DEF BreakMessageQueueRunloop, messages, history
<1>2. MessagesInv /\ WaitersInv
  BY DEF ListInv
<1>3. depth' = depth /\ \A k \in 1..depth : /\ Carries(k) /\ (Owns(k)' <=> Owns(k))
                                            /\ frame'[k].pc = frame[k].pc \/ k = depth
  BY <1>1, NotifyLoops
<1>4. LoopsGoOn
  <2>1. \A k \in 1..depth : k < depth => frame'[k].pc = "in"
    BY <1>2, <1>3 DEF MessagesInv, Loops, GoodFrame, TypeOK
  <2>2. depth > 0 => mq' = "exists"
    BY <1>1, <1>2 DEF MessagesInv, Loops, Exists
  <2> QED
    BY <1>1, <1>3, <2>1, <2>2 DEF LoopsGoOn
<1>5. Calm
  BY <1>1, <1>4 DEF Calm, ListShrinks, TypeOK
<1>6. MessagesInv'
  BY <1>1, <1>2, <1>5, CalmMessages DEF CancelledNow
<1>7. WaitersInv'
  <2>1. \A w : Awaited(w) => Awaited(w)'
    BY <1>1, <1>3 DEF Awaited, Carries
  <2>2. Woken({}, {}) = {}
    BY DEF Woken
  <2>3. \A k \in 1..depth : frame[k].post # 0 => k \in 1..depth' /\ frame'[k].post # 0
    BY <1>3 DEF Carries
  <2> QED
    BY <1>1, <1>2, <2>1, <2>2, <2>3, WaitersKept
<1>8. NoOversleep'
  <2>1. depth > 0 => frame'[depth].pc # "sleep"
    BY <1>1, NotifyLoops
  <2> QED
    BY <1>3, <2>1, AwakeKept
<1> QED
  BY <1>5, <1>6, <1>7, <1>8, CalmGone DEF Kept, ListInv, NoneReturns

(* Messages W of the list are deleted, by any of the ways to cancel.       *)
LEMMA DeleteStep ==
  ASSUME TypeOK, TypeOK', ListInv, NEW W \in SUBSET lst_message,
         heap' = [w \in Wrappers |-> IF w \in W THEN Freed ELSE heap[w]],
         lst_message' = lst_message \ W, CancelledNow,
         UNCHANGED <<mq, breakflag, depth, frame, sleep, s_seq, nalloc>>,
         \A c \in Clients : \/ cl'[c] = cl[c] /\ c \notin Woken(W, {})
                            \/ cl'[c].pc \notin {"waitend", "waitrun"}
  PROVE  Kept
<1>1. MessagesInv /\ WaitersInv /\ NoOversleep
  BY DEF ListInv
<1>2. lst_message \subseteq Wrappers /\ 1..nalloc \subseteq Wrappers
  BY BoundsAssumption DEF TypeOK, Wrappers
<1>3. \A w \in Wrappers : w \notin W => heap'[w] = heap[w]
  OBVIOUS
<1>4. LoopsGoOn
  <2>1. \A k \in 1..depth' : Carries(k)
    BY DEF Carries, Owns
  <2>2. \A k \in 1..depth' : k < depth' => frame'[k].pc = "in"
    BY <1>1 DEF MessagesInv, Loops, GoodFrame
  <2>3. depth' > 0 => mq' = "exists"
    BY <1>1 DEF MessagesInv, Loops, Exists
  <2>4. ASSUME NEW k \in 1..depth', Owns(k)' PROVE heap'[frame'[k].w] = heap[frame'[k].w]
    <3>1. GoodFrame(k) /\ Owns(k) /\ frame'[k] = frame[k]
      BY <1>1, <2>4 DEF MessagesInv, Loops, Owns
    <3> QED
      BY <1>2, <1>3, <3>1 DEF GoodFrame
  <2> QED
    BY <2>1, <2>2, <2>3, <2>4 DEF LoopsGoOn
<1>5. Calm
  BY <1>2, <1>3, <1>4 DEF Calm, ListShrinks, TypeOK
<1>6. MessagesInv'
  BY <1>1, <1>5, CalmMessages
<1>7. WaitersInv'
  <2>1. \A w : Awaited(w) => Awaited(w)' \/ w \in W
    BY DEF Awaited, Owns
  <2> QED
    BY <1>1, <2>1, WaitersKept
<1>8. NoOversleep'
  BY <1>1, <1>2, <1>3, SleepKept
<1> QED
  BY <1>5, <1>6, <1>7, <1>8, CalmGone DEF Kept, ListInv, NoneReturns

-----------------------------------------------------------------------------
(* A message is posted: under a new id, or under the id of the message it  *)
(* replaces, which leaves the list in the same step.                       *)
LEMMA PushStep ==
  ASSUME TypeOK, TypeOK', ListInv, NEW W \in SUBSET lst_message, NEW r \in Wrapper,
         PushBack(W, r), r.state = "live", UNCHANGED <<mq, breakflag, cancelled>>,
         \/ r.seq = s_seq + 1 /\ s_seq' = s_seq + 1
         \/ s_seq <= s_seq' /\ \E it \in W : r.seq = heap[it].seq
  PROVE  Kept
<1>0. MessagesInv /\ WaitersInv /\ Listed /\ Loops /\ Cancels
  BY DEF ListInv, MessagesInv
<1>1. /\ s_seq \in Nat /\ s_seq' \in Nat /\ s_seq <= s_seq' /\ nalloc \in Nat
      /\ nalloc' = nalloc + 1 /\ nalloc + 1 \in Wrappers /\ 1..nalloc \subseteq Wrappers
  BY BoundsAssumption DEF TypeOK, PushBack, Wrappers
<1>2. PICK n : n = nalloc + 1 /\ n \notin 1..nalloc /\ n \notin lst_message /\ n \in 1..nalloc'
  BY <1>1 DEF TypeOK
<1>3. /\ lst_message' = (lst_message \ W) \cup {n} /\ heap'[n] = r
      /\ \A w \in 1..nalloc : w \notin W => heap'[w] = heap[w]
      /\ lst_message \subseteq 1..nalloc
  BY <1>1, <1>2 DEF PushBack, TypeOK
<1>4. /\ r.seq \in 1..s_seq' /\ \A v \in lst_message \ W : heap[v].seq # r.seq
      /\ \A k \in 1..depth : frame[k].del => frame[k].post # r.seq
      /\ \A s \in 1..s_seq : r.seq = s => Pending(s) # {}
  <2>1. \A v \in lst_message : heap[v].seq \in 1..s_seq
    BY <1>0 DEF Listed
  <2>2. \A k \in 1..depth : frame[k].post \in 0..s_seq
    BY <1>0 DEF Loops, GoodFrame
  <2>3. CASE r.seq = s_seq + 1 /\ s_seq' = s_seq + 1
    BY <1>1, <2>1, <2>2, <2>3
  <2>4. ASSUME NEW it \in W, r.seq = heap[it].seq
        PROVE  /\ r.seq \in 1..s_seq' /\ \A v \in lst_message \ W : heap[v].seq # r.seq
               /\ \A k \in 1..depth : frame[k].del => frame[k].post # r.seq
               /\ \A s \in 1..s_seq : r.seq = s => Pending(s) # {}
    <3>1. r.seq \in 1..s_seq'
      BY <1>1, <2>1, <2>4
    <3>2. \A v \in lst_message \ W : heap[v].seq # r.seq
      BY <1>0, <2>4 DEF Listed, PostIdsUnique
    <3>3. \A k \in 1..depth : frame[k].del => frame[k].post # r.seq
      BY <1>0, <2>4 DEF Loops
    <3> QED
      BY <2>4, <3>1, <3>2, <3>3 DEF Pending
  <2> QED
    BY <2>3, <2>4
<1>5. /\ depth' = depth
      /\ \A k \in 1..depth : /\ Carries(k) /\ (Owns(k)' <=> Owns(k))
                             /\ frame'[k].pc = frame[k].pc \/ k = depth
      /\ depth > 0 => frame'[depth].pc # "sleep"
  BY NotifyLoops DEF PushBack
<1>6. Listed'
  <2>1. ASSUME NEW w \in lst_message'
        PROVE  heap'[w].state = "live" /\ heap'[w].seq \in 1..s_seq'
    <3>1. CASE w = n
      BY <1>3, <1>4, <3>1
    <3>2. CASE w # n
      <4>1. w \in lst_message /\ heap'[w] = heap[w]
        BY <1>3, <3>2
      <4> QED
        BY <1>0, <1>1, <4>1 DEF Listed
    <3> QED
      BY <3>1, <3>2
  <2>2. ASSUME NEW v \in lst_message', NEW w \in lst_message', heap'[v].seq = heap'[w].seq
        PROVE  v = w
    <3>1. \A x \in lst_message' : x = n \/ (x \in lst_message \ W /\ heap'[x] = heap[x])
      BY <1>3
    <3> QED
      BY <1>0, <1>3, <1>4, <2>2, <3>1 DEF Listed, PostIdsUnique
  <2> QED
    BY <2>1, <2>2 DEF Listed, PostIdsUnique
<1>7. Loops'
  <2>1. ASSUME NEW k \in 1..depth PROVE GoodFrame(k)'
    <3>1. GoodFrame(k) /\ Carries(k) /\ (frame'[k].pc = frame[k].pc \/ k = depth)
      BY <1>0, <1>5 DEF Loops
    <3>2. frame'[k].post \in 0..s_seq' /\ (frame'[k].hs # {} => frame'[k].post # 0)
      BY <1>1, <3>1 DEF GoodFrame, Carries
    <3>3. k < depth' => frame'[k].pc = "in"
      BY <1>5, <3>1 DEF GoodFrame, TypeOK
    <3>4. ASSUME Owns(k)'
          PROVE  /\ frame'[k].w \in 1..nalloc' /\ frame'[k].w \notin lst_message'
                 /\ heap'[frame'[k].w].state = "live"
      <4>1. PICK w \in 1..nalloc : w = frame'[k].w /\ w \notin lst_message /\ heap[w].state = "live"
        BY <3>1, <3>4 DEF GoodFrame, Carries
      <4>2. w \notin lst_message' /\ heap'[w] = heap[w] /\ w \in 1..nalloc'
        BY <1>1, <1>2, <1>3, <4>1
      <4> QED
        BY <4>1, <4>2
    <3> QED
      BY <3>2, <3>3, <3>4 DEF GoodFrame
  <2>2. \A j, k \in 1..depth : Owns(j)' /\ Owns(k)' /\ frame'[j].w = frame'[k].w => j = k
    BY <1>0, <1>5 DEF Loops, Carries
  <2>3. ASSUME NEW k \in 1..depth, NEW w \in lst_message', frame'[k].del
        PROVE  frame'[k].post # heap'[w].seq
    <3>1. frame[k].del /\ frame'[k].post = frame[k].post
      BY <1>5, <2>3 DEF Carries
    <3>2. CASE w = n
      BY <1>3, <1>4, <3>1, <3>2
    <3>3. CASE w # n
      <4>1. w \in lst_message /\ heap'[w] = heap[w]
        BY <1>3, <3>3
      <4> QED
        BY <1>0, <3>1, <4>1 DEF Loops
    <3> QED
      BY <3>2, <3>3
  <2>4. depth' > 0 => Exists'
    BY <1>0, <1>5 DEF Loops, Exists
  <2> QED
    BY <1>5, <2>1, <2>2, <2>3, <2>4 DEF Loops
<1>8. \A s \in 1..s_seq : Pending(s)' # {} => Pending(s) # {}
  <2> SUFFICES ASSUME NEW s \in 1..s_seq, NEW w \in lst_message', heap'[w].seq = s PROVE Pending(s) # {}
    BY DEF Pending
  <2>1. w = n \/ (w \in lst_message /\ heap'[w] = heap[w])
    BY <1>3
  <2> QED
    BY <1>3, <1>4, <2>1 DEF Pending
<1>9. Cancels'
  <2>1. cancelled' \subseteq 1..s_seq'
    BY <1>0, <1>1 DEF Cancels
  <2>2. CancelledNeverRuns'
    BY <1>0, <1>5, <1>8 DEF Cancels, CancelledNeverRuns, Carries
  <2> QED
    BY <2>1, <2>2 DEF Cancels
<1>10. WaitersInv'
  <2>1. \A w : Awaited(w) => Awaited(w)' \/ w \in W
    BY <1>3, <1>5 DEF Awaited, Carries
  <2>2. NotifyAll(W, {})
    BY DEF PushBack
  <2>3. \A k \in 1..depth : frame[k].post # 0 => k \in 1..depth' /\ frame'[k].post # 0
    BY <1>5 DEF Carries
  <2> QED
    BY <1>0, <2>1, <2>2, <2>3, NotifyAllWakes, WaitersKept
<1>11. NoOversleep'
  BY <1>5, AwakeKept
<1>12. NoneReturns
  <2> SUFFICES ASSUME NEW s \in Posts, Returns(s)' PROVE Returns(s)
    BY DEF NoneReturns
  <2>1. CASE Running(s)' # {}
    BY <1>5, <2>1 DEF Running, Carries, Returns
  <2>2. CASE Pending(s)' # {}
    BY <1>8, <2>2 DEF Posts, Returns
  <2> QED
    BY <2>1, <2>2 DEF Returns
<1> QED
  BY <1>6, <1>7, <1>9, <1>10, <1>11, <1>12 DEF Kept, ListInv, MessagesInv

(* The innermost loop takes the first message that is due.                 *)
LEMMA LoopRunStep == ASSUME TypeOK, TypeOK', ListInv, LoopRun PROVE Kept
<1>0. MessagesInv /\ WaitersInv /\ Listed /\ Loops /\ Cancels
  BY DEF ListInv, MessagesInv
<1>1. PICK w \in lst_message, once \in BOOLEAN :
        /\ depth > 0 /\ Top.pc = "top" /\ NotifyAll({}, {depth})
        /\ frame' = [frame EXCEPT ![depth] = RunFrame(w, once)]
        /\ lst_message' = IF once THEN lst_message \ {w} ELSE lst_message
        /\ heap' = heap \/ heap' = [heap EXCEPT ![w].left = heap[w].period]
        /\ UNCHANGED <<content, s_seq, nalloc, depth, cancelled>>
  <2>1. Min(Due) \in lst_message
    BY PendingMin DEF LoopRun, Due
  <2>2. PICK once \in BOOLEAN : once = ~(heap[Min(Due)].type = "period")
    OBVIOUS
  <2> WITNESS Min(Due) \in lst_message, once \in BOOLEAN
  <2> QED
    BY <2>2 DEF LoopRun, LoopTop
<1>2. /\ w \in 1..nalloc /\ w \in Wrappers /\ lst_message \subseteq Wrappers
      /\ depth \in 1..depth /\ depth \in 1..MaxDepth /\ depth \in Nat /\ 1..nalloc \subseteq Wrappers
  BY <1>1, BoundsAssumption DEF TypeOK, Wrappers
<1>3. \A v \in Wrappers : heap'[v].seq = heap[v].seq /\ heap'[v].state = heap[v].state
  <2>1. heap \in [Wrappers -> Wrapper] /\ heap[w] \in Wrapper
    BY <1>2 DEF TypeOK
  <2>2. \A v \in Wrappers : heap'[v] = heap[v] \/ (v = w /\ heap'[v] = [heap[w] EXCEPT !.left = heap[w].period])
    BY <1>1, <2>1
  <2>3. LET x == [heap[w] EXCEPT !.left = heap[w].period] IN x.seq = heap[w].seq /\ x.state = heap[w].state
    BY <2>1 DEF Wrapper
  <2> QED
    BY <2>2, <2>3
<1>4. \A v \in lst_message' : v \in lst_message /\ v \in Wrappers /\ (once => v # w)
  BY <1>1, <1>2
<1>5. /\ \A k \in 1..depth : k # depth => frame'[k] = frame[k]
      /\ frame'[depth].pc = "call" /\ frame'[depth].w = w /\ frame'[depth].post = heap[w].seq
      /\ frame'[depth].del = once
  <2>1. \A k \in 1..depth : k \in 1..MaxDepth
    BY <1>2, BoundsAssumption
  <2>2. frame'[depth] = RunFrame(w, once)
    BY <1>1, <1>2 DEF TypeOK
  <2> QED
    BY <1>1, <2>1, <2>2 DEF TypeOK, RunFrame
<1>6. heap[w].state = "live" /\ heap[w].seq \in 1..s_seq /\ heap[w].seq \in 0..s_seq /\ heap[w].seq # 0
  BY <1>0 DEF Listed, TypeOK
<1>7. Listed'
  BY <1>0, <1>1, <1>3, <1>4 DEF Listed, PostIdsUnique
<1>8. ASSUME NEW k \in 1..depth, k # depth, Owns(k)'
      PROVE  Owns(k) /\ frame'[k].w = frame[k].w /\ frame[k].w # w
  BY <1>0, <1>5, <1>8 DEF Loops, GoodFrame, Owns
<1>9. Loops'
  <2>1. ASSUME NEW k \in 1..depth, k # depth PROVE GoodFrame(k)'
    <3>1. GoodFrame(k) /\ frame'[k] = frame[k]
      BY <1>0, <1>5, <2>1 DEF Loops
    <3>2. /\ frame'[k].post \in 0..s_seq' /\ (frame'[k].hs # {} => frame'[k].post # 0)
          /\ k < depth' => frame'[k].pc = "in"
      BY <1>1, <3>1 DEF GoodFrame
    <3>3. Owns(k)' => /\ frame'[k].w \in 1..nalloc' /\ frame'[k].w \notin lst_message'
                      /\ heap'[frame'[k].w].state = "live"
      BY <1>1, <1>2, <1>3, <1>4, <2>1, <3>1, <1>8 DEF GoodFrame
    <3> QED
      BY <3>2, <3>3 DEF GoodFrame
  <2>2. ASSUME NEW k \in 1..depth, k = depth PROVE GoodFrame(k)'
    <3>1. frame'[k].post \in 0..s_seq' /\ frame'[k].post # 0 /\ ~(k < depth')
      BY <1>1, <1>2, <1>5, <1>6, <2>2
    <3>2. Owns(k)' => /\ frame'[k].w \in 1..nalloc' /\ frame'[k].w \notin lst_message'
                      /\ heap'[frame'[k].w].state = "live"
      BY <1>1, <1>2, <1>3, <1>4, <1>5, <1>6, <2>2 DEF Owns
    <3> QED
      BY <3>1, <3>2 DEF GoodFrame
  <2>3. \A j, k \in 1..depth : Owns(j)' /\ Owns(k)' /\ frame'[j].w = frame'[k].w => j = k
    BY <1>0, <1>5, <1>8 DEF Loops
  <2>4. \A k \in 1..depth, v \in lst_message' : frame'[k].del => frame'[k].post # heap'[v].seq
    <3> SUFFICES ASSUME NEW k \in 1..depth, NEW v \in lst_message', frame'[k].del
                 PROVE  frame'[k].post # heap'[v].seq
      OBVIOUS
    <3>1. CASE k = depth
      BY <1>0, <1>3, <1>4, <1>5, <3>1 DEF Listed, PostIdsUnique
    <3>2. CASE k # depth
      BY <1>0, <1>3, <1>4, <1>5, <3>2 DEF Loops
    <3> QED
      BY <3>1, <3>2
  <2>5. depth' > 0 => Exists'
    BY <1>0, <1>1 DEF Loops, Exists, content
  <2> QED
    BY <1>1, <2>1, <2>2, <2>3, <2>4, <2>5 DEF Loops
<1>10. ASSUME NEW s PROVE /\ Pending(s)' # {} => Pending(s) # {}
                          /\ \A k \in 1..depth : frame'[k].post = s => Pending(s) # {} \/ frame'[k] = frame[k]
  BY <1>3, <1>4, <1>5 DEF Pending
<1>11. Cancels'
  <2>1. CancelledNeverRuns'
    BY <1>0, <1>1, <1>10 DEF Cancels, CancelledNeverRuns
  <2> QED
    BY <1>0, <1>1, <2>1 DEF Cancels
<1>12. WaitersInv'
  <2>1. ASSUME NEW v, Awaited(v) PROVE Awaited(v)'
    <3>1. ASSUME NEW k \in 1..depth, Owns(k), frame[k].w = v PROVE Awaited(v)'
      <4>1. k # depth
        BY <1>1, <3>1 DEF Owns, Top
      <4>2. frame'[k] = frame[k]
        BY <1>5, <4>1
      <4> QED
        BY <1>1, <3>1, <4>2 DEF Awaited, Owns
    <3>2. CASE v = w /\ once
      <4>1. ASSUME NEW k, k = depth PROVE Owns(k)' /\ frame'[k].w = v
        BY <1>5, <3>2, <4>1 DEF Owns
      <4> QED
        BY <1>1, <1>2, <4>1 DEF Awaited
    <3>3. CASE v \in lst_message /\ ~(v = w /\ once)
      BY <1>1, <3>3 DEF Awaited
    <3> QED
      BY <2>1, <3>1, <3>2, <3>3 DEF Awaited
  <2>2. \A k \in 1..depth : frame[k].post # 0 => k \in {depth} \/ (k \in 1..depth' /\ frame'[k].post # 0)
    BY <1>1, <1>5
  <2> QED
    BY <1>0, <1>1, <2>1, <2>2, NotifyAllWakes, WaitersKept
<1>13. NoOversleep'
  BY <1>1, <1>5, AwakeKept
<1>14. NoneReturns
  BY <1>1, <1>10 DEF NoneReturns, Returns, Running
<1> QED
  BY <1>7, <1>9, <1>11, <1>12, <1>13, <1>14 DEF Kept, ListInv, MessagesInv

(* The innermost loop goes on: it forgets its message, wakes, calls a      *)
(* handler or comes back from one.                                         *)
LEMMA TopStep ==
  ASSUME TypeOK, TypeOK', ListInv, depth > 0, NEW r, frame' = [frame EXCEPT ![depth] = r],
         UNCHANGED <<mq, s_seq, nalloc, lst_message, heap, depth, cancelled>>,
         \/ /\ r.post = 0 /\ r.hs = {} /\ r.pc = "sleep" /\ Top.pc = "top"
            /\ NotifyAll({}, {depth}) /\ NoOversleep'
         \/ /\ r.post = Top.post /\ r.hs = Top.hs /\ r.w = Top.w /\ r.del = Top.del
            /\ (r.pc \in {"call", "in"} <=> Top.pc \in {"call", "in"}) /\ r.pc # "sleep"
            /\ UNCHANGED cl
  PROVE  Kept
<1>0. MessagesInv /\ WaitersInv /\ Loops
  BY DEF ListInv, MessagesInv
<1>1. /\ depth \in 1..depth /\ \A k \in 1..depth : k # depth => frame'[k] = frame[k]
      /\ frame'[depth] = r
  <2>1. depth \in 1..depth /\ depth \in 1..MaxDepth /\ 1..depth \subseteq 1..MaxDepth
    BY BoundsAssumption DEF TypeOK
  <2> QED
    BY <2>1 DEF TypeOK
<1>2. \A k \in 1..depth : k # depth => Carries(k) /\ (Owns(k)' <=> Owns(k))
  BY <1>1 DEF Carries, Owns
<1>3. LoopsGoOn
  <2>1. \A k \in 1..depth : k < depth => frame'[k].pc = "in"
    BY <1>0, <1>1 DEF Loops, GoodFrame, TypeOK
  <2>2. mq' = "exists"
    BY <1>0 DEF Loops, Exists
  <2>3. ASSUME NEW k \in 1..depth, k = depth PROVE Blank(k)' \/ Carries(k)
    BY <1>1, <2>3 DEF Blank, Carries, Owns, Top
  <2> QED
    BY <1>2, <2>1, <2>2, <2>3 DEF LoopsGoOn
<1>4. Calm
  BY <1>3 DEF Calm, ListShrinks, TypeOK
<1>5. MessagesInv'
  BY <1>0, <1>4, CalmMessages DEF CancelledNow
<1>6. WaitersInv'
  <2>1. CASE /\ r.post = 0 /\ r.pc = "sleep" /\ Top.pc = "top" /\ NotifyAll({}, {depth})
    <3>1. ~Owns(depth)
      BY <2>1 DEF Owns, Top
    <3>2. \A w : Awaited(w) => Awaited(w)'
      BY <1>2, <3>1 DEF Awaited, Carries
    <3>3. \A k \in 1..depth : k \in {depth} \/ (k \in 1..depth' /\ frame'[k].post = frame[k].post)
      BY <1>1
    <3> QED
      BY <1>0, <2>1, <3>2, <3>3, NotifyAllWakes, WaitersKept
  <2>2. CASE /\ r.post = Top.post /\ r.w = Top.w /\ r.del = Top.del /\ UNCHANGED cl
             /\ (r.pc \in {"call", "in"} <=> Top.pc \in {"call", "in"})
    <3>1. ASSUME NEW k \in 1..depth, k = depth
          PROVE (Owns(k)' <=> Owns(k)) /\ frame'[k].w = frame[k].w /\ frame'[k].post = frame[k].post
      BY <1>1, <2>2, <3>1 DEF Owns, Top
    <3>2. \A k \in 1..depth :
            (Owns(k)' <=> Owns(k)) /\ frame'[k].w = frame[k].w /\ frame'[k].post = frame[k].post
      BY <1>1, <1>2, <3>1
    <3>3. \A w : Awaited(w) => Awaited(w)'
      BY <3>2 DEF Awaited
    <3>4. Woken({}, {}) = {}
      BY DEF Woken
    <3> QED
      BY <1>0, <2>2, <3>2, <3>3, <3>4, WaitersKept
  <2> QED
    BY <2>1, <2>2
<1>7. NoOversleep'
  <2>1. CASE r.pc # "sleep"
    BY <1>1, <2>1, AwakeKept
  <2> QED
    BY <2>1
<1> QED
  BY <1>4, <1>5, <1>6, <1>7, CalmGone DEF Kept, ListInv, NoneReturns

(* The sleep is as short as the first message asks for.                    *)
LEMMA LoopSleepStep == ASSUME TypeOK, TypeOK', ListInv, LoopSleep PROVE Kept
<1> DEFINE r == [NewFrame(Top.brk) EXCEPT !.pc = "sleep"]
<1>1. /\ depth > 0 /\ Top.pc = "top" /\ ~MustBreak /\ NotifyAll({}, {depth})
      /\ frame' = [frame EXCEPT ![depth] = r] /\ sleep' = WaitTime
      /\ UNCHANGED <<mq, breakflag, s_seq, nalloc, lst_message, heap, depth, cancelled>>
  BY DEF LoopSleep, LoopTop, content, messages
<1>2. r.post = 0 /\ r.hs = {} /\ r.pc = "sleep"
  BY DEF NewFrame
<1>3. \A w \in lst_message : WaitTime <= heap[w].left
  <2> DEFINE T == {DefaultWait} \cup {heap[w].left : w \in lst_message}
  <2>1. lst_message \subseteq Wrappers
    BY BoundsAssumption DEF TypeOK, Wrappers
  <2>2. \A w \in Wrappers : heap[w].left \in Nat
    BY DEF TypeOK, Wrapper
  <2>3. T \in SUBSET Nat /\ T # {} /\ \A w \in lst_message : heap[w].left \in T
    BY <2>1, <2>2, BoundsAssumption
  <2>4. \A y \in T : Min(T) <= y
    <3> HIDE DEF T
    <3> QED
      BY <2>3, MinIn
  <2> QED
    BY <2>3, <2>4 DEF WaitTime
<1>4. NoOversleep'
  BY <1>1, <1>3 DEF NoOversleep, MustBreak
<1> HIDE DEF r
<1> QED
  BY <1>1, <1>2, <1>4, TopStep

(* The loop wakes, calls a handler, or a handler returns.                  *)
LEMMA HandlerSteps ==
  ASSUME TypeOK, TypeOK', ListInv, LoopWake \/ HandlerCall \/ HandlerReturn PROVE Kept
<1>1. /\ depth > 0 /\ UNCHANGED <<mq, s_seq, nalloc, lst_message, heap, depth, cl, cancelled>>
  BY DEF LoopWake, HandlerCall, HandlerReturn, content, messages, history
<1>2. Top \in Frame /\ depth \in 1..MaxDepth
  BY <1>1, FrameType
<1>3. PICK r : /\ frame' = [frame EXCEPT ![depth] = r]
               /\ r.post = Top.post /\ r.hs = Top.hs /\ r.w = Top.w /\ r.del = Top.del
               /\ (r.pc \in {"call", "in"} <=> Top.pc \in {"call", "in"}) /\ r.pc # "sleep"
  <2>1. CASE LoopWake
    <3>1. PICK r : /\ r = [Top EXCEPT !.pc = "top"] /\ Top.pc = "sleep"
                   /\ frame' = [frame EXCEPT ![depth] = r]
      BY <2>1 DEF LoopWake, Top
    <3>2. /\ r.post = Top.post /\ r.hs = Top.hs /\ r.w = Top.w /\ r.del = Top.del /\ r.pc = "top"
      BY <1>2, <3>1 DEF Frame
    <3> QED
      BY <3>1, <3>2
  <2>2. CASE HandlerCall
    <3>1. PICK h, r : /\ r = [Top EXCEPT !.pc = "in", !.cur = h, !.todo = Top.todo \ {h}]
                      /\ frame' = [frame EXCEPT ![depth] = r] /\ Top.pc = "call"
      BY <2>2 DEF HandlerCall
    <3>2. /\ r.post = Top.post /\ r.hs = Top.hs /\ r.w = Top.w /\ r.del = Top.del /\ r.pc = "in"
      BY <1>2, <3>1 DEF Frame
    <3> QED
      BY <3>1, <3>2
  <2>3. CASE HandlerReturn
    <3>1. PICK r : /\ r = [Top EXCEPT !.pc = "call", !.cur = 0] /\ Top.pc = "in"
                   /\ frame' = [frame EXCEPT ![depth] = r]
      BY <2>3 DEF HandlerReturn
    <3>2. /\ r.post = Top.post /\ r.hs = Top.hs /\ r.w = Top.w /\ r.del = Top.del /\ r.pc = "call"
      BY <1>2, <3>1 DEF Frame
    <3> QED
      BY <3>1, <3>2
  <2> QED
    BY <2>1, <2>2, <2>3
<1> QED
  BY <1>1, <1>3, TopStep

(* A one-shot message is deleted by the loop that owns it, and by no other.*)
LEMMA LoopEndStep == ASSUME TypeOK, TypeOK', ListInv, LoopEnd PROVE Kept
<1>0. MessagesInv /\ WaitersInv /\ Loops
  BY DEF ListInv, MessagesInv
<1>1. PICK W : /\ W = (IF Top.del THEN {Top.w} ELSE {}) /\ depth > 0 /\ Top.pc = "call"
               /\ heap' = [w \in Wrappers |-> IF w \in W THEN Freed ELSE heap[w]]
               /\ lst_message' = lst_message \ W /\ NotifyAll(W, {})
               /\ frame' = [frame EXCEPT ![depth].pc = "top"]
               /\ UNCHANGED <<mq, breakflag, s_seq, nalloc, depth, cancelled>>
  BY DEF LoopEnd, Delete, content
<1>2. /\ depth \in 1..depth /\ depth \in 1..MaxDepth /\ 1..depth \subseteq 1..MaxDepth
      /\ lst_message \subseteq Wrappers /\ 1..nalloc \subseteq Wrappers
  BY <1>1, BoundsAssumption DEF TypeOK, Wrappers
<1>3. /\ \A k \in 1..depth : k # depth => frame'[k] = frame[k]
      /\ frame'[depth] = [frame[depth] EXCEPT !.pc = "top"] /\ frame[depth] \in Frame
  BY <1>1, <1>2 DEF TypeOK
<1>4. /\ frame'[depth].post = frame[depth].post /\ frame'[depth].hs = frame[depth].hs
      /\ frame'[depth].w = frame[depth].w /\ frame'[depth].del = frame[depth].del
      /\ frame'[depth].pc = "top"
  BY <1>3 DEF Frame
<1>5. ASSUME NEW k \in 1..depth, k = depth PROVE Carries(k) /\ ~Owns(k)'
  BY <1>4, <1>5 DEF Carries, Owns
<1>6. ASSUME NEW k \in 1..depth, k # depth
      PROVE  Carries(k) /\ (Owns(k)' <=> Owns(k)) /\ (Owns(k) => frame[k].w \notin W)
  <2>1. Carries(k) /\ (Owns(k)' <=> Owns(k))
    BY <1>3, <1>6 DEF Carries, Owns
  <2>2. Top.del => Owns(depth) /\ frame[depth].w = Top.w
    BY <1>1 DEF Owns, Top
  <2> QED
    BY <1>0, <1>1, <1>2, <1>6, <2>1, <2>2 DEF Loops
<1>7. LoopsGoOn
  <2>1. \A k \in 1..depth : k < depth => frame'[k].pc = "in"
    BY <1>0, <1>3 DEF Loops, GoodFrame, TypeOK
  <2>2. mq' = "exists"
    BY <1>0, <1>1 DEF Loops, Exists
  <2>3. ASSUME NEW k \in 1..depth, Owns(k)' PROVE heap'[frame'[k].w] = heap[frame'[k].w]
    <3>1. k # depth
      BY <1>5, <2>3
    <3>2. Owns(k) /\ frame'[k].w = frame[k].w /\ frame[k].w \notin W /\ GoodFrame(k)
      BY <1>0, <1>6, <2>3, <3>1 DEF Carries, Loops
    <3> QED
      BY <1>1, <1>2, <3>2 DEF GoodFrame
  <2> QED
    BY <1>1, <1>5, <1>6, <2>1, <2>2, <2>3 DEF LoopsGoOn
<1>8. Calm
  BY <1>1, <1>2, <1>7 DEF Calm, ListShrinks, TypeOK
<1>9. MessagesInv'
  BY <1>0, <1>1, <1>8, CalmMessages DEF CancelledNow
<1>10. WaitersInv'
  <2>1. ASSUME NEW v, Awaited(v), v \notin W PROVE Awaited(v)'
    <3>1. CASE v \in lst_message
      BY <1>1, <2>1, <3>1 DEF Awaited
    <3>2. ASSUME NEW k \in 1..depth, Owns(k), frame[k].w = v PROVE Awaited(v)'
      <4>1. k # depth
        BY <1>1, <2>1, <3>2 DEF Owns, Top
      <4> QED
        BY <1>1, <1>6, <3>2, <4>1 DEF Awaited, Carries
    <3> QED
      BY <2>1, <3>1, <3>2 DEF Awaited
  <2>2. \A k \in 1..depth : frame[k].post # 0 => k \in 1..depth' /\ frame'[k].post # 0
    BY <1>1, <1>5, <1>6 DEF Carries
  <2> QED
    BY <1>0, <1>1, <2>1, <2>2, NotifyAllWakes, WaitersKept
<1>11. NoOversleep'
  BY <1>1, <1>4, AwakeKept
<1> QED
  BY <1>8, <1>9, <1>10, <1>11, CalmGone DEF Kept, ListInv, NoneReturns

(* A loop ends, at its top; the outermost one deletes the messages left.   *)
LEMMA LoopBreakStep == ASSUME TypeOK, TypeOK', ListInv, LoopBreak PROVE Kept
<1>0. MessagesInv /\ WaitersInv /\ Loops
  BY DEF ListInv, MessagesInv
<1>1. PICK W : /\ depth > 0 /\ Top.pc = "top" /\ depth' = depth - 1 /\ NotifyAll(W, {depth})
               /\ frame' = [frame EXCEPT ![depth] = NewFrame(0)]
               /\ lst_message' = lst_message \ W /\ UNCHANGED <<s_seq, nalloc, cancelled>>
               /\ depth > 1 => UNCHANGED <<mq, lst_message, heap>>
               /\ depth = 1 => lst_message' = {}
  <2>1. CASE depth > 1
    <3>1. lst_message' = lst_message \ {}
      BY <2>1 DEF LoopBreak
    <3> QED
      BY <2>1, <3>1 DEF LoopBreak, LoopTop, TypeOK
  <2>2. CASE ~(depth > 1)
    <3>1. lst_message' = lst_message \ lst_message
      BY <2>2 DEF LoopBreak, ReleaseMessageQueueInfo
    <3> QED
      BY <2>2, <3>1 DEF LoopBreak, LoopTop, ReleaseMessageQueueInfo
  <2> QED
    BY <2>1, <2>2
<1>2. depth \in Nat /\ depth' \in Nat /\ (depth' > 0 => depth > 1) /\ (depth' = 0 => depth = 1)
  BY <1>1 DEF TypeOK
<1>3. \A k \in 1..depth' : k \in 1..depth /\ k < depth /\ frame'[k] = frame[k]
  BY <1>1, <1>2, BoundsAssumption DEF TypeOK
<1>4. \A k \in 1..depth' : Carries(k) /\ frame'[k].pc = "in"
  BY <1>0, <1>3 DEF Carries, Owns, Loops, GoodFrame
<1>5. Calm
  <2>1. LoopsGoOn
    BY <1>0, <1>1, <1>2, <1>4 DEF LoopsGoOn, Loops, Exists
  <2>2. ListShrinks
    BY <1>1, <1>2 DEF ListShrinks
  <2> QED
    BY <1>1, <2>1, <2>2 DEF Calm, TypeOK
<1>6. MessagesInv'
  BY <1>0, <1>1, <1>5, CalmMessages DEF CancelledNow
<1>7. WaitersInv'
  <2>1. ASSUME NEW v, Awaited(v), v \notin W PROVE Awaited(v)'
    <3>1. CASE v \in lst_message
      BY <1>1, <2>1, <3>1 DEF Awaited
    <3>2. ASSUME NEW k \in 1..depth, Owns(k), frame[k].w = v PROVE Awaited(v)'
      <4>1. k # depth
        BY <1>1, <3>2 DEF Owns, Top
      <4>2. k \in 1..depth'
        BY <1>1, <1>2, <4>1
      <4> QED
        BY <1>3, <3>2, <4>2 DEF Awaited, Owns
    <3> QED
      BY <2>1, <3>1, <3>2 DEF Awaited
  <2>2. \A k \in 1..depth : k \in {depth} \/ k \in 1..depth'
    BY <1>1, <1>2
  <2> QED
    BY <1>0, <1>1, <1>3, <2>1, <2>2, NotifyAllWakes, WaitersKept
<1>8. NoOversleep'
  <2>1. depth' > 0 => depth' \in 1..depth'
    BY <1>2
  <2> QED
    BY <1>4, <2>1, AwakeKept
<1> QED
  BY <1>5, <1>6, <1>7, <1>8, CalmGone DEF Kept, ListInv, NoneReturns

(* A loop begins, alone or inside a handler.                               *)
LEMMA LoopBeginStep ==
  ASSUME TypeOK, TypeOK', ListInv, NEW brk, Exists, depth < MaxDepth, depth' = depth + 1,
         depth > 0 => Top.pc = "in", frame' = [frame EXCEPT ![depth + 1] = NewFrame(brk)],
         UNCHANGED <<content, messages, cl, cancelled>>
  PROVE  Kept
<1>0. MessagesInv /\ WaitersInv /\ Loops
  BY DEF ListInv, MessagesInv
<1>1. depth \in Nat /\ MaxDepth \in Nat /\ depth + 1 \in 1..MaxDepth
  BY BoundsAssumption DEF TypeOK
<1>2. PICK n : n = depth + 1 /\ n = depth' /\ frame'[n] = NewFrame(brk) /\ n \in 1..depth'
  BY <1>1 DEF TypeOK
<1>3. \A k \in 1..depth' : k = n \/ (k \in 1..depth /\ k \in 1..MaxDepth)
  BY <1>1, <1>2
<1>4. \A k \in 1..depth : frame'[k] = frame[k] /\ k \in 1..depth' /\ k # n
  BY <1>1, <1>2 DEF TypeOK
<1>5. frame'[n].post = 0 /\ frame'[n].hs = {} /\ frame'[n].pc = "top"
  BY <1>2 DEF NewFrame
<1>6. Calm
  <2>1. Blank(n)'
    BY <1>2, <1>5 DEF Blank, Owns
  <2>2. \A k \in 1..depth : Carries(k)
    BY <1>4 DEF Carries, Owns
  <2>3. \A k \in 1..depth' : k < depth' => frame'[k].pc = "in"
    <3> SUFFICES ASSUME NEW k \in 1..depth, k # n PROVE frame'[k].pc = "in"
      BY <1>1, <1>2, <1>3
    <3>1. CASE k < depth
      BY <1>0, <1>4, <3>1 DEF Loops, GoodFrame
    <3>2. CASE k = depth
      BY <1>1, <1>4, <3>2 DEF Top
    <3> QED
      BY <1>1, <3>1, <3>2
  <2>4. LoopsGoOn
    BY <1>3, <2>1, <2>2, <2>3 DEF LoopsGoOn, Exists, content, messages
  <2> QED
    BY <2>4 DEF Calm, ListShrinks, messages, TypeOK
<1>7. MessagesInv'
  BY <1>0, <1>6, CalmMessages DEF CancelledNow
<1>8. WaitersInv'
  <2>1. \A w : Awaited(w) => Awaited(w)'
    BY <1>4 DEF Awaited, Owns, messages
  <2>2. Woken({}, {}) = {}
    BY DEF Woken
  <2> QED
    BY <1>0, <1>4, <2>1, <2>2, WaitersKept
<1>9. NoOversleep'
  BY <1>2, <1>5, AwakeKept
<1> QED
  BY <1>6, <1>7, <1>8, <1>9, CalmGone DEF Kept, ListInv, NoneReturns

(* Time passes for the sleeper as it does for the messages.                *)
LEMMA TickStep == ASSUME TypeOK, TypeOK', ListInv, Tick PROVE Kept
<1>0. MessagesInv /\ WaitersInv /\ NoOversleep
  BY DEF ListInv
<1>1. /\ sleep' = Minus1(sleep)
      /\ heap' = [w \in Wrappers |-> [heap[w] EXCEPT !.left = Minus1(@)]]
      /\ UNCHANGED <<mq, breakflag, s_seq, nalloc, lst_message, depth, frame, cl, cancelled>>
  BY DEF Tick, content, history
<1>2. lst_message \subseteq Wrappers /\ 1..nalloc \subseteq Wrappers
  BY BoundsAssumption DEF TypeOK, Wrappers
<1>3. \A w \in Wrappers : /\ heap'[w].seq = heap[w].seq /\ heap'[w].state = heap[w].state
                          /\ heap'[w].left = Minus1(heap[w].left) /\ heap[w].left \in Nat
  BY <1>1 DEF TypeOK, Wrapper
<1>4. LoopsGoOn
  <2>1. \A k \in 1..depth' : Carries(k)
    BY <1>1 DEF Carries, Owns
  <2>2. \A k \in 1..depth' : k < depth' => frame'[k].pc = "in"
    BY <1>0, <1>1 DEF MessagesInv, Loops, GoodFrame
  <2>3. depth' > 0 => mq' = "exists"
    BY <1>0, <1>1 DEF MessagesInv, Loops, Exists
  <2>4. ASSUME NEW k \in 1..depth', Owns(k)' PROVE heap'[frame'[k].w].state = heap[frame'[k].w].state
    <3>1. GoodFrame(k) /\ Owns(k) /\ frame'[k] = frame[k]
      BY <1>0, <1>1, <2>4 DEF MessagesInv, Loops, Owns
    <3> QED
      BY <1>2, <1>3, <3>1 DEF GoodFrame
  <2> QED
    BY <2>1, <2>2, <2>3, <2>4 DEF LoopsGoOn
<1>5. Calm
  BY <1>1, <1>2, <1>3, <1>4 DEF Calm, ListShrinks, TypeOK
<1>6. MessagesInv'
  BY <1>0, <1>1, <1>5, CalmMessages DEF CancelledNow
<1>7. WaitersInv'
  <2>1. \A w : Awaited(w) => Awaited(w)'
    BY <1>1 DEF Awaited, Owns
  <2>2. Woken({}, {}) = {}
    BY DEF Woken
  <2> QED
    BY <1>0, <1>1, <2>1, <2>2, WaitersKept
<1>8. NoOversleep'
  <2>1. \A m, n \in Nat : m <= n => Minus1(m) <= Minus1(n)
    BY DEF Minus1
  <2>2. sleep \in Nat
    BY DEF TypeOK
  <2> QED
    BY <1>0, <1>1, <1>2, <1>3, <2>1, <2>2 DEF NoOversleep, Top
<1> QED
  BY <1>5, <1>6, <1>7, <1>8, CalmGone DEF Kept, ListInv, NoneReturns

-----------------------------------------------------------------------------
(* The groups of actions.                                                  *)
LEMMA ListHandlers == ASSUME TypeOK, TypeOK', ListInv, Handlers PROVE Kept
<1>1. CASE BreakMessageQueueRunloop
  BY <1>1, BreakStep
<1>2. CASE ~BreakMessageQueueRunloop
  <2>1. /\ mq' \in {mq, "exists"} /\ s_seq' \in {s_seq, s_seq + 1}
        /\ UNCHANGED <<breakflag, depth, frame, sleep, nalloc, lst_message, heap, cancelled, cl>>
    BY <1>2 DEF Handlers, CreateMessageQueueInfo, InstallMessageHandler, UnInstallMessageHandler,
                MakeSeq, messages, loop, history
  <2>2. s_seq <= s_seq'
    BY <2>1 DEF TypeOK
  <2> QED
    BY <2>1, <2>2, StillStep
<1> QED
  BY <1>1, <1>2

LEMMA ListPosting == ASSUME TypeOK, TypeOK', ListInv, Posting PROVE Kept
<1>1. PICK title \in Titles, timing \in Timings :
        \/ PostMessage(0, title, timing)
        \/ \E h \in regs : \/ PostMessage(h, title, timing)
                           \/ \E replace \in BOOLEAN : SingletonMessage(replace, h, title, timing)
                           \/ FasterMessage(h, title, timing)
  BY DEF Posting, BroadcastMessage
<1>2. regs \subseteq Nat /\ s_seq \in Nat /\ (MakeSeq => s_seq' = s_seq + 1)
  BY DEF TypeOK, MakeSeq
<1>3. ASSUME NEW h \in Nat, MakeSeq, PushBack({}, MessageWrapper(h, title, timing, s_seq')),
             UNCHANGED <<content, cancelled>>
      PROVE  Kept
  <2>1. PICK r : r = MessageWrapper(h, title, timing, s_seq') /\ PushBack({}, r)
    BY <1>3
  <2>2. r \in Wrapper /\ r.state = "live" /\ r.seq = s_seq + 1
    BY <1>2, <1>3, <2>1, WrapperType DEF MessageWrapper
  <2> QED
    BY <1>2, <1>3, <2>1, <2>2, PushStep DEF content
<1>4. ASSUME NEW h \in Nat, NEW it \in lst_message, s_seq' \in {s_seq, s_seq + 1},
             PushBack({it}, MessageWrapper(h, title, timing, heap[it].seq)),
             UNCHANGED <<content, cancelled>>
      PROVE  Kept
  <2>1. PICK r : r = MessageWrapper(h, title, timing, heap[it].seq) /\ PushBack({it}, r)
    BY <1>4
  <2>2. it \in Wrappers /\ heap[it].seq \in Nat
    BY BoundsAssumption DEF TypeOK, Wrappers, Wrapper
  <2>3. r \in Wrapper /\ r.state = "live" /\ r.seq = heap[it].seq
    BY <2>1, <2>2, WrapperType DEF MessageWrapper
  <2>4. s_seq <= s_seq'
    BY <1>2, <1>4
  <2> QED
    BY <1>4, <2>1, <2>3, <2>4, PushStep DEF content
<1>5. \A h, t : Same(h, t) # {} => Min(Same(h, t)) \in lst_message
  BY PendingMin DEF Same
<1>6. ASSUME NEW h \in Nat, PostMessage(h, title, timing) PROVE Kept
  BY <1>3, <1>6 DEF PostMessage
<1>7. ASSUME NEW h \in Nat, NEW replace \in BOOLEAN, SingletonMessage(replace, h, title, timing)
      PROVE  Kept
  <2>1. CASE Same(h, title) = {}
    BY <1>3, <1>7, <2>1 DEF SingletonMessage
  <2>2. CASE Same(h, title) # {}
    BY <1>4, <1>5, <1>7, <2>2 DEF SingletonMessage
  <2> QED
    BY <2>1, <2>2
<1>8. ASSUME NEW h \in Nat, FasterMessage(h, title, timing) PROVE Kept
  <2>1. PICK it : it = Min(Same(h, title))
    OBVIOUS
  <2>2. MakeSeq /\ UNCHANGED <<content, cancelled>>
    BY <1>8 DEF FasterMessage
  <2>3. CASE Same(h, title) # {} /\ heap[it].left < timing.after
    <3>1. UNCHANGED <<nalloc, lst_message, heap, loop, cl>>
      BY <1>8, <2>1, <2>3 DEF FasterMessage
    <3>2. s_seq <= s_seq'
      BY <1>2, <2>2
    <3> QED
      BY <2>2, <3>1, <3>2, StillStep DEF loop, content
  <2>4. CASE Same(h, title) = {}
    BY <1>3, <1>8, <2>2, <2>4 DEF FasterMessage
  <2>5. CASE Same(h, title) # {} /\ ~(heap[it].left < timing.after)
    <3>1. PushBack({it}, MessageWrapper(h, title, timing, heap[it].seq)) /\ it \in lst_message
      BY <1>5, <1>8, <2>1, <2>5 DEF FasterMessage
    <3> QED
      BY <1>2, <1>4, <2>2, <3>1
  <2> QED
    BY <2>3, <2>4, <2>5
<1> QED
  BY <1>1, <1>2, <1>6, <1>7, <1>8

LEMMA ListCancelling == ASSUME TypeOK, TypeOK', ListInv, Cancelling PROVE Kept
<1>1. ASSUME NEW W \in SUBSET lst_message, Delete(W), CancelledNow,
             UNCHANGED <<content, s_seq, nalloc, loop>>
      PROVE  Kept
  <2>1. NotifyAll(W, {})
    BY <1>1 DEF Delete
  <2> QED
    BY <1>1, <2>1, NotifyAllWakes, DeleteStep DEF Delete, content, loop
<1>2. ASSUME NEW s \in Posts, CancelMessage(s) PROVE Kept
  <2>1. PICK w : w = Min(Pending(s)) /\ w \in Pending(s)
    BY <1>2, PendingMin DEF CancelMessage, Pending
  <2>2. /\ w \in lst_message /\ heap[w].seq = s /\ Delete({w}) /\ cancelled' = cancelled \cup {s}
        /\ UNCHANGED <<content, s_seq, nalloc, loop>>
    BY <1>2, <2>1 DEF CancelMessage, Pending
  <2>3. Pending(s)' = {}
    <3> SUFFICES ASSUME NEW v \in lst_message', heap'[v].seq = s PROVE FALSE
      BY DEF Pending
    <3>1. v \in lst_message /\ v # w /\ v \in Wrappers
      BY <2>2, BoundsAssumption DEF Delete, TypeOK, Wrappers
    <3>2. heap'[v] = heap[v]
      BY <2>2, <3>1 DEF Delete
    <3> QED
      BY <2>2, <3>1, <3>2 DEF ListInv, MessagesInv, Listed, PostIdsUnique
  <2>4. \A k \in 1..depth : frame[k].post = s => ~frame[k].del
    BY <2>2 DEF ListInv, MessagesInv, Loops
  <2>5. CancelledNow
    BY <2>2, <2>3, <2>4 DEF CancelledNow, Posts, loop
  <2> QED
    BY <1>1, <2>2, <2>5
<1>3. ASSUME NEW h, CancelMessageHandler(h) PROVE Kept
  <2>1. PICK W : W = {w \in lst_message : heap[w].reg = h} /\ Delete(W)
    BY <1>3 DEF CancelMessageHandler
  <2>2. CancelledNow /\ UNCHANGED <<content, s_seq, nalloc, loop>>
    BY <1>3 DEF CancelMessageHandler, CancelledNow
  <2> QED
    BY <1>1, <2>1, <2>2
<1>4. ASSUME NEW h, NEW t, CancelMessageTitle(h, t) PROVE Kept
  <2>1. PICK W : W = Same(h, t) /\ Delete(W)
    BY <1>4 DEF CancelMessageTitle
  <2>2. CancelledNow /\ UNCHANGED <<content, s_seq, nalloc, loop>>
    BY <1>4 DEF CancelMessageTitle, CancelledNow
  <2> QED
    BY <1>1, <2>1, <2>2 DEF Same
<1>5. ASSUME NEW c \in Clients, NEW h \in regs, CancelAndWait(c, h) PROVE Kept
  <2>1. /\ cl' = [cl EXCEPT ![c] = [pc |-> "cancel", on |-> 0, h |-> h]]
        /\ UNCHANGED <<mq, s_seq, breakflag, depth, frame, sleep, nalloc, lst_message, heap, cancelled>>
    BY <1>5 DEF CancelAndWait, messages, loop, history
  <2>2. \A d \in Clients : cl'[d] = cl[d] \/ cl'[d].pc \notin {"waitend", "waitrun"}
    BY <2>1 DEF TypeOK
  <2> QED
    BY <2>1, <2>2, StillStep DEF TypeOK
<1>6. ASSUME NEW c \in Clients, CancelAndWaitCancel(c) PROVE Kept
  <2>1. PICK W \in SUBSET lst_message :
          /\ heap' = [w \in Wrappers |-> IF w \in W THEN Freed ELSE heap[w]]
          /\ lst_message' = lst_message \ W
          /\ cl' = [d \in Clients |-> IF d = c THEN [cl[c] EXCEPT !.pc = "wait"]
                                      ELSE IF d \in Woken(W, {}) THEN Idle ELSE cl[d]]
    <3>1. PICK W : /\ W = (IF Exists THEN {w \in lst_message : heap[w].reg = cl[c].h} ELSE {})
                   /\ heap' = [w \in Wrappers |-> IF w \in W THEN Freed ELSE heap[w]]
                   /\ lst_message' = lst_message \ W
                   /\ cl' = [d \in Clients |-> IF d = c THEN [cl[c] EXCEPT !.pc = "wait"]
                                               ELSE IF d \in Woken(W, {}) THEN Idle ELSE cl[d]]
      BY <1>6 DEF CancelAndWaitCancel
    <3> QED
      BY <3>1
  <2>2. UNCHANGED <<mq, breakflag, depth, frame, sleep, s_seq, nalloc, cancelled>>
    BY <1>6 DEF CancelAndWaitCancel, content, loop, history
  <2>3. cl'[c].pc = "wait"
    BY <2>1 DEF TypeOK, Client
  <2>4. \A d \in Clients : \/ cl'[d] = cl[d] /\ d \notin Woken(W, {})
                           \/ cl'[d].pc \notin {"waitend", "waitrun"}
    BY <2>1, <2>3 DEF Idle
  <2> QED
    BY <2>1, <2>2, <2>4, DeleteStep DEF CancelledNow
<1> QED
  BY <1>2, <1>3, <1>4, <1>5, <1>6 DEF Cancelling

LEMMA ListWaiting == ASSUME TypeOK, TypeOK', ListInv, Waiting PROVE Kept
<1>1. PICK c \in Clients : \/ \E s \in Posts : WaitForRunningLockEnd(c, s) \/ WaitMessage(c, s)
                           \/ WaitForRunningLockEndQueue(c)
                           \/ WaitForRunningLockEndHandler(c)
                           \/ SpuriousWakeup(c)
  BY DEF Waiting
<1>2. UNCHANGED <<content, messages, loop, cancelled>>
  BY <1>1 DEF WaitForRunningLockEnd, WaitMessage, WaitForRunningLockEndQueue,
              WaitForRunningLockEndHandler, SpuriousWakeup, history
<1>3. ASSUME \A d \in Clients : \/ cl'[d] = cl[d]
                                \/ cl'[d].pc \notin {"waitend", "waitrun"}
                                \/ GoodWaiter(d)'
      PROVE  Kept
  BY <1>2, <1>3, StillStep DEF content, messages, loop, TypeOK
<1>4. ASSUME NEW pc, NEW on, NEW h, BlockOn(c, pc, on, h),
             \/ pc = "waitend" /\ on \in lst_message
             \/ pc = "waitrun" /\ on \in 1..depth /\ frame[on].post # 0
      PROVE  Kept
  <2>1. cl'[c] = [pc |-> pc, on |-> on, h |-> h] /\ \A d \in Clients : d # c => cl'[d] = cl[d]
    BY <1>4 DEF BlockOn, TypeOK
  <2>2. GoodWaiter(c)'
    BY <1>2, <1>4, <2>1 DEF GoodWaiter, Awaited, messages, loop
  <2> QED
    BY <1>3, <2>1, <2>2
<1>5. ASSUME cl' = [cl EXCEPT ![c] = Idle] PROVE Kept
  BY <1>3, <1>5 DEF TypeOK, Idle
<1>6. \A S \in SUBSET (1..depth) : S # {} => Min(S) \in S
  <2>1. 1..depth \subseteq Nat
    BY DEF TypeOK
  <2> QED
    BY <2>1, MinIn
<1>7. ASSUME NEW s \in Posts, Running(s) # {}
      PROVE  Min(Running(s)) \in 1..depth /\ frame[Min(Running(s))].post # 0
  <2>1. s # 0
    BY DEF Posts, TypeOK
  <2>2. Min(Running(s)) \in Running(s)
    BY <1>6, <1>7 DEF Running
  <2> QED
    BY <2>1, <2>2 DEF Running
<1>8. ASSUME NEW s \in Posts, WaitForRunningLockEnd(c, s) PROVE Kept
  BY <1>4, <1>7, <1>8 DEF WaitForRunningLockEnd
<1>9. ASSUME NEW s \in Posts, WaitMessage(c, s) PROVE Kept
  <2>1. CASE Pending(s) # {}
    <3>1. Min(Pending(s)) \in lst_message
      BY <2>1, PendingMin DEF Pending
    <3> QED
      BY <1>4, <1>9, <2>1, <3>1 DEF WaitMessage
  <2>2. CASE Pending(s) = {}
    BY <1>4, <1>7, <1>9, <2>2 DEF WaitMessage
  <2> QED
    BY <2>1, <2>2
<1>10. CASE WaitForRunningLockEndQueue(c)
  <2>1. 1 \in 1..depth
    BY <1>10 DEF WaitForRunningLockEndQueue, TypeOK
  <2> QED
    BY <1>4, <1>10, <2>1 DEF WaitForRunningLockEndQueue
<1>11. CASE WaitForRunningLockEndHandler(c)
  <2>1. CASE Exists /\ RunningHandler(cl[c].h) # {}
    <3>1. PICK k : k = Min(RunningHandler(cl[c].h)) /\ k \in RunningHandler(cl[c].h)
      BY <1>6, <2>1 DEF RunningHandler
    <3>2. k \in 1..depth /\ frame[k].hs # {}
      BY <3>1 DEF RunningHandler
    <3>3. frame[k].post # 0
      BY <3>2 DEF ListInv, MessagesInv, Loops, GoodFrame
    <3>4. BlockOn(c, "waitrun", k, cl[c].h)
      BY <1>11, <2>1, <3>1 DEF WaitForRunningLockEndHandler
    <3> QED
      BY <1>4, <3>2, <3>3, <3>4
  <2>2. CASE ~(Exists /\ RunningHandler(cl[c].h) # {})
    BY <1>5, <1>11, <2>2 DEF WaitForRunningLockEndHandler
  <2> QED
    BY <2>1, <2>2
<1>12. CASE SpuriousWakeup(c)
  BY <1>5, <1>12 DEF SpuriousWakeup
<1> QED
  BY <1>1, <1>8, <1>9, <1>10, <1>11, <1>12

LEMMA ListRunLoop == ASSUME TypeOK, TypeOK', ListInv, RunLoop PROVE Kept
<1>1. CASE RunBegin
  <2>1. /\ Exists /\ depth < MaxDepth /\ depth' = depth + 1 /\ ~(depth > 0)
        /\ frame' = [frame EXCEPT ![depth + 1] = NewFrame(0)]
        /\ UNCHANGED <<content, messages, cl, cancelled>>
    BY <1>1, BoundsAssumption DEF RunBegin, history
  <2> QED
    BY <2>1, LoopBeginStep
<1>2. ASSUME NEW s \in Posts, WaitMessageInQueue(s) PROVE Kept
  <2>1. /\ Exists /\ depth < MaxDepth /\ depth' = depth + 1 /\ Top.pc = "in"
        /\ frame' = [frame EXCEPT ![depth + 1] = NewFrame(s)]
        /\ UNCHANGED <<content, messages, cl, cancelled>>
    BY <1>2, BoundsAssumption
       DEF WaitMessageInQueue, history, TypeOK, ListInv, MessagesInv, Loops
  <2> QED
    BY <2>1, LoopBeginStep
<1> QED
  BY <1>1, <1>2, LoopBreakStep, LoopSleepStep, LoopRunStep, HandlerSteps, LoopEndStep DEF RunLoop

(* Every step keeps the invariant and brings no post back.                 *)
LEMMA ListNext == ASSUME TypeOK, TypeOK', ListInv, [Next]_vars PROVE Kept
<1>1. CASE UNCHANGED vars
  <2>1. UNCHANGED <<mq, s_seq, breakflag, depth, frame, sleep, nalloc, lst_message, heap, cancelled, cl>>
    BY <1>1 DEF vars, content, messages, loop, history
  <2> QED
    BY <2>1, StillStep DEF TypeOK
<1>2. CASE Next
  BY <1>1, <1>2, ListHandlers, ListPosting, ListCancelling, ListWaiting, ListRunLoop, TickStep
     DEF Next, Terminated
<1> QED
  BY <1>1, <1>2

LEMMA ListInit == Init => ListInv
<1> SUFFICES ASSUME Init PROVE ListInv
  OBVIOUS
<1>1. 1..depth = {}
  BY DEF Init
<1>2. Listed /\ Loops /\ Cancels
  BY <1>1 DEF Init, Listed, Loops, Cancels, PostIdsUnique, CancelledNeverRuns
<1>3. WaitersInv
  BY DEF Init, WaitersInv, GoodWaiter, Idle
<1>4. NoOversleep
  BY DEF Init, NoOversleep
<1> QED
  BY <1>2, <1>3, <1>4 DEF ListInv, MessagesInv

LEMMA ListInvariant == Spec => []ListInv
<1>1. TypeOK /\ TypeOK' /\ ListInv /\ [Next]_vars => ListInv'
  BY ListNext DEF Kept
<1> QED
  BY <1>1, ListInit, TypeCorrect, PTL DEF Spec

-----------------------------------------------------------------------------
(* A post id names one message of lst_message at most, although            *)
(* SingletonMessage and FasterMessage (message_queue.cc:324, 397) hand ids *)
(* on: whatever is cancelled or waited for by id is the one meant.         *)
THEOREM PostIdsAreUnique == Spec => []PostIdsUnique
<1>1. ListInv => PostIdsUnique
  BY DEF ListInv, MessagesInv, Listed
<1> QED
  BY <1>1, ListInvariant, PTL

(* After CancelMessage has returned true (message_queue.cc:495) no message *)
(* with that id is in the list, and no loop runs one for its only time.    *)
THEOREM CancelledDoesNotRun == Spec => []CancelledNeverRuns
<1>1. ListInv => CancelledNeverRuns
  BY DEF ListInv, MessagesInv, Cancels
<1> QED
  BY <1>1, ListInvariant, PTL

(* RunLoop::Run (message_queue.cc:706) never sleeps past a message or past *)
(* a break, however the list changes while it sleeps.                      *)
THEOREM LoopDoesNotOversleep == Spec => []NoOversleep
<1>1. ListInv => NoOversleep
  BY DEF ListInv
<1> QED
  BY <1>1, ListInvariant, PTL

(* A client in WaitMessage or WaitForRunningLockEnd waits for a message    *)
(* that is still to be deleted, or on a loop that will come to its top.    *)
THEOREM WaitersAreNotified == Spec => []WaitersHaveNotifier
<1>1. TypeOK /\ ListInv => WaitersHaveNotifier
  <2> SUFFICES ASSUME TypeOK, ListInv, NEW c \in Clients, GoodWaiter(c)
               PROVE  /\ cl[c].pc = "waitend" =>
                           /\ cl[c].on \in Wrappers /\ heap[cl[c].on].state = "live"
                           /\ \/ cl[c].on \in lst_message
                              \/ \E k \in 1..depth : frame[k].w = cl[c].on /\ frame[k].del
                      /\ cl[c].pc = "waitrun" => cl[c].on \in 1..depth /\ frame[cl[c].on].post # 0
    BY DEF WaitersHaveNotifier, ListInv, WaitersInv
  <2>1. 1..nalloc \subseteq Wrappers /\ lst_message \subseteq Wrappers
    BY BoundsAssumption DEF TypeOK, Wrappers
  <2>2. ASSUME NEW w, Awaited(w)
        PROVE  /\ w \in Wrappers /\ heap[w].state = "live"
               /\ w \in lst_message \/ \E k \in 1..depth : frame[k].w = w /\ frame[k].del
    <3>1. CASE w \in lst_message
      BY <2>1, <3>1 DEF ListInv, MessagesInv, Listed
    <3>2. ASSUME NEW k \in 1..depth, Owns(k), frame[k].w = w
          PROVE  w \in Wrappers /\ heap[w].state = "live" /\ frame[k].del
      BY <2>1, <3>2 DEF ListInv, MessagesInv, Loops, GoodFrame, Owns
    <3> QED
      BY <2>2, <3>1, <3>2 DEF Awaited
  <2> QED
    BY <2>2 DEF GoodWaiter
<1> QED
  BY <1>1, ListInvariant, TypeCorrect, PTL

(* A message FoundMessage (message_queue.cc:474) does not find any more is *)
(* never found again while the loop runs.                                  *)
THEOREM GoneMessagesStayGone == Spec => GoneStaysGone
<1>1. ASSUME TypeOK, TypeOK', ListInv, [Next]_vars
      PROVE  [\A s \in Posts : depth > 0 /\ ~FoundMessage(s) => ~FoundMessage(s)']_vars
  <2>1. NoneReturns
    BY <1>1, ListNext DEF Kept
  <2>2. depth > 0 => Exists
    BY <1>1 DEF ListInv, MessagesInv, Loops
  <2>3. ASSUME NEW s \in Posts, depth > 0, ~FoundMessage(s) PROVE ~FoundMessage(s)'
    BY <2>1, <2>2, <2>3 DEF FoundMessage, NoneReturns, Returns
  <2> QED
    BY <2>3
<1> QED
  BY <1>1, ListInvariant, TypeCorrect, PTL DEF Spec, GoneStaysGone

=============================================================================
