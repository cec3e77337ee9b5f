----------------------------- MODULE AlarmProofs -----------------------------
(***************************************************************************)
(* Proofs about Alarm for any number of alarms, on the default queue or on *)
(* others, and any number of Starts: a destroyed alarm is silent, no       *)
(* time-out comes early, and every Start has one outcome at most.          *)
(*                                                                         *)
(* A Start's number is new, so what is on its way under that number is     *)
(* the Start's own: a broadcast, a message handed to the alarm's queue, or *)
(* one callback.  ~Alarm puts an end to one carrier after the other, in an *)
(* order in which none can feed one that has been stopped.                 *)
(***************************************************************************)
EXTENDS Alarm, WellFoundedInduction, TLAPS

(* A message for one alarm is in that alarm's queue, a broadcast in the    *)
(* default one.                                                            *)
InPlace(q, m) ==
  IF m.what = "KALARM" THEN q = "def" /\ m.a = 0 ELSE m.a \in Alarms /\ q = Queue(m.a)

Placed ==
  /\ \A q \in Queues : \A m \in lst[q] : InPlace(q, m)
  /\ \A q \in Queues :
       /\ loop[q].msg = NoMessage => loop[q].handlers = {} /\ loop[q].todo = {} /\ loop[q].calling = 0
       /\ loop[q].msg # NoMessage => InPlace(q, loop[q].msg)
       /\ loop[q].todo \subseteq loop[q].handlers
       /\ loop[q].msg.what \in {"OnAlarm", "Run"} => loop[q].handlers \subseteq {loop[q].msg.a}
       /\ loop[q].calling # 0 => loop[q].calling \in loop[q].handlers

(* What each step of ~Alarm has put an end to.                             *)
Stage(a) ==
  /\ pc[a] # "alive" => seq[a] = 0
  /\ pc[a] \notin {"alive", "reg"} => ~reg[a]
  /\ pc[a] \notin {"alive", "reg", "regwait"} => ~Handling(a, "def", {"KALARM"})
  /\ pc[a] \notin {"alive", "reg", "regwait", "async"} => ~reg_async[a]
  /\ pc[a] \in {"asyncwait", "join", "dead"} => \A m \in lst[Queue(a)] : m.a # a
  /\ pc[a] \in {"join", "dead"} => ~Handling(a, Queue(a), {"OnAlarm", "Run"})
  /\ pc[a] = "dead" => thr[a] = 0

Stages == \A a \in Alarms : Stage(a)

(* Sequence numbers are those of past Starts.                              *)
Fresh ==
  /\ \A a \in Alarms : seq[a] < sg_seq
  /\ \A q \in Queues : (\A m \in lst[q] : m.seq < sg_seq) /\ loop[q].msg.seq < sg_seq
  /\ \A a, b \in Alarms : seq[a] = seq[b] /\ seq[a] # 0 => a = b

(* The messages of the Start in force are as late as its delay says.       *)
Late ==
  \A a \in Alarms : seq[a] # 0 =>
    /\ status[a] = "kStart"
    /\ \A q \in Queues :
         /\ \A m \in lst[q] : m.seq = seq[a] =>
              /\ m.what = "KALARM" => m.due >= starttime[a] + after[a]
              /\ m.what = "OnAlarm" => now >= starttime[a] + after[a]
         /\ loop[q].msg.what # "Run" /\ loop[q].msg.seq = seq[a] => now >= starttime[a] + after[a]

(* The callbacks on their way, for Start s: in a list, in a loop, or in    *)
(* runthread_.                                                             *)
Listed(q, m) == m \in lst[q] /\ m.what = "Run"
Called(q) == loop[q].msg.what = "Run" /\ loop[q].todo # {}
Started(a) == thr[a] # 0 /\ thrpc[a] = "init"

Outcomes ==
  /\ \A s \in Seqs : s >= sg_seq => outcome[s] = "none"
  /\ \A a \in Alarms : seq[a] # 0 => outcome[seq[a]] = "waiting"
  /\ \A q \in Queues : \A m \in lst[q] : Listed(q, m) => outcome[m.seq] = "accepted"
  /\ \A q \in Queues : Called(q) => outcome[loop[q].msg.seq] = "accepted"
  /\ \A a \in Alarms : Started(a) => outcome[thr[a]] = "accepted"

Single ==
  /\ \A p, q \in Queues : \A m \in lst[p], n \in lst[q] :
       Listed(p, m) /\ Listed(q, n) /\ m.seq = n.seq => p = q /\ m = n
  /\ \A p, q \in Queues : \A m \in lst[p] : Listed(p, m) /\ Called(q) => m.seq # loop[q].msg.seq
  /\ \A q \in Queues, a \in Alarms : \A m \in lst[q] : Listed(q, m) /\ Started(a) => m.seq # thr[a]
  /\ \A p, q \in Queues : Called(p) /\ Called(q) /\ loop[p].msg.seq = loop[q].msg.seq => p = q
  /\ \A q \in Queues, a \in Alarms : Called(q) /\ Started(a) => loop[q].msg.seq # thr[a]
  /\ \A a, b \in Alarms : Started(a) /\ Started(b) /\ thr[a] = thr[b] => a = b

Inv == TypeOK /\ Placed /\ Stages /\ Fresh /\ Late /\ Outcomes /\ Single

-----------------------------------------------------------------------------
(* A nonempty set of alarms has a first one, which the loop calls next.    *)
LEMMA Least ==
  ASSUME NEW S, S \subseteq Alarms, S # {}
  PROVE  (CHOOSE a \in S : \A b \in S : a <= b) \in S
<1>1. S \subseteq Nat
  BY AlarmAssumption DEF Alarms
<1> DEFINE Below == {p \in Nat \X Nat : p[1] < p[2]}
<1>2. IsWellFoundedOn(Below, Nat)
  BY NatLessThanWellFounded DEF OpToRel
<1>3. PICK x \in S : \A y \in S : <<y, x>> \notin Below
  <2> HIDE DEF Below
  <2> QED
    BY <1>1, <1>2, WFMin
<1>4. ASSUME NEW y \in S PROVE x <= y
  <2>1. x \in Nat /\ y \in Nat
    BY <1>1
  <2>2. y < x => <<y, x>> \in Below
    BY <2>1
  <2> QED
    BY <1>3, <2>1, <2>2
<1> QED
  BY <1>4

LoopRecords == [msg : Messages \cup {NoMessage}, handlers : SUBSET Alarms,
                todo : SUBSET Alarms, calling : 0..N]

(* The handler that a loop calls next.                                     *)
LEMMA NextIs ==
  ASSUME TypeOK, NEW q \in Queues, loop[q].todo # {}
  PROVE  NextHandler(q) \in loop[q].todo /\ NextHandler(q) \in Alarms
<1>1. loop[q].todo \subseteq Alarms
  BY DEF TypeOK
<1>2. NextHandler(q) \in loop[q].todo
  BY <1>1, Least DEF NextHandler
<1> QED
  BY <1>1, <1>2


-----------------------------------------------------------------------------
(* Steps that put nothing new on its way: lists and loops lose what they   *)
(* had, alarms stop waiting, runthread_ ends.                              *)
LstShrinks == kind' = kind /\ \A q \in Queues : lst'[q] \subseteq lst[q]
LoopShrinks ==
  \A q \in Queues :
    \/ loop'[q] = Idle
    \/ /\ loop'[q].msg = loop[q].msg /\ loop'[q].handlers = loop[q].handlers
       /\ loop'[q].todo \subseteq loop[q].todo
       /\ loop'[q].calling \in {0, loop[q].calling} \cup loop[q].todo
SeqShrinks ==
  /\ sg_seq' = sg_seq
  /\ \A a \in Alarms : seq'[a] = 0 \/ (seq'[a] = seq[a] /\ status'[a] = status[a])
ThreadShrinks ==
  \A a \in Alarms : /\ thr'[a] \in {0, thr[a]}
                    /\ thr'[a] # 0 /\ thrpc'[a] = "init" => thrpc[a] = "init"
TimeGoesOn == now' \in Nat /\ now <= now' /\ UNCHANGED <<starttime, after>>

(* Each part of the invariant in a step that puts nothing on its way.      *)
LEMMA PlacedKept == ASSUME TypeOK, Placed, LstShrinks, LoopShrinks PROVE Placed'
<1>1. \A q \in Queues : \A m \in lst'[q] : InPlace(q, m)'
  BY DEF Placed, LstShrinks, InPlace, Queue
<1>2. ASSUME NEW q \in Queues
      PROVE  /\ loop'[q].msg = NoMessage =>
                  loop'[q].handlers = {} /\ loop'[q].todo = {} /\ loop'[q].calling = 0
             /\ loop'[q].msg # NoMessage => InPlace(q, loop[q].msg)' 
             /\ loop'[q].todo \subseteq loop'[q].handlers
             /\ loop'[q].msg.what \in {"OnAlarm", "Run"} =>
                  loop'[q].handlers \subseteq {loop'[q].msg.a}
             /\ loop'[q].calling # 0 => loop'[q].calling \in loop'[q].handlers
  <2>1. CASE loop'[q] = Idle
    BY <2>1 DEF Idle, NoMessage
  <2>2. CASE loop'[q] # Idle
    BY <2>2 DEF LoopShrinks, LstShrinks, Placed, InPlace, Queue
  <2> QED
    BY <2>1, <2>2
<1> QED
  BY <1>1, <1>2 DEF Placed

LEMMA FreshKept ==
  ASSUME TypeOK, Fresh, LstShrinks, LoopShrinks, SeqShrinks PROVE Fresh'
<1>1. sg_seq \in Nat /\ 0 < sg_seq
  BY DEF TypeOK
<1>2. \A a \in Alarms : seq'[a] < sg_seq'
  BY <1>1 DEF Fresh, SeqShrinks
<1>3. \A a, b \in Alarms : seq'[a] = seq'[b] /\ seq'[a] # 0 => a = b
  BY DEF Fresh, SeqShrinks
<1>4. \A q \in Queues : (\A m \in lst'[q] : m.seq < sg_seq') /\ loop'[q].msg.seq < sg_seq'
  BY <1>1 DEF Fresh, SeqShrinks, LstShrinks, LoopShrinks, Idle, NoMessage
<1> QED
  BY <1>2, <1>3, <1>4 DEF Fresh

LEMMA LateKept ==
  ASSUME TypeOK, Late, LstShrinks, LoopShrinks, SeqShrinks, TimeGoesOn PROVE Late'
<1> SUFFICES ASSUME NEW a \in Alarms, seq'[a] # 0
             PROVE  /\ status'[a] = "kStart"
                    /\ \A q \in Queues :
                         /\ \A m \in lst'[q] : m.seq = seq'[a] =>
                              /\ m.what = "KALARM" => m.due >= starttime'[a] + after'[a]
                              /\ m.what = "OnAlarm" => now' >= starttime'[a] + after'[a]
                         /\ loop'[q].msg.what # "Run" /\ loop'[q].msg.seq = seq'[a] =>
                              now' >= starttime'[a] + after'[a]
  BY DEF Late
<1>1. seq'[a] = seq[a] /\ status'[a] = status[a] /\ starttime'[a] = starttime[a] /\ after'[a] = after[a]
  BY DEF SeqShrinks, TimeGoesOn
<1>2. now' \in Nat /\ now \in Nat /\ now <= now' /\ starttime[a] \in Nat /\ after[a] \in Nat
  BY AlarmAssumption DEF TypeOK, TimeGoesOn
<1>3. \A q \in Queues : \A m \in lst'[q] : m \in lst[q]
  BY DEF LstShrinks
<1>4. \A q \in Queues : loop'[q].msg = loop[q].msg \/ loop'[q].msg.seq = 0
  BY DEF LoopShrinks, Idle, NoMessage
<1>5. now >= starttime[a] + after[a] => now' >= starttime[a] + after[a]
  BY <1>2
<1> QED
  BY <1>1, <1>3, <1>4, <1>5 DEF Late

LEMMA CarriedKept ==
  ASSUME LstShrinks, LoopShrinks, ThreadShrinks
  PROVE  /\ \A q \in Queues : \A m \in lst'[q] : m \in lst[q] /\ (Listed(q, m)' <=> m.what = "Run")
         /\ \A q \in Queues : Called(q)' => Called(q) /\ loop'[q].msg = loop[q].msg
         /\ \A a \in Alarms : Started(a)' => Started(a) /\ thr'[a] = thr[a]
<1>1. \A q \in Queues : \A m \in lst'[q] : m \in lst[q] /\ (Listed(q, m)' <=> m.what = "Run")
  BY DEF LstShrinks, Listed
<1>2. \A q \in Queues : Called(q)' => Called(q) /\ loop'[q].msg = loop[q].msg
  BY DEF LoopShrinks, Called, Idle, NoMessage
<1>3. \A a \in Alarms : Started(a)' => Started(a) /\ thr'[a] = thr[a]
  BY DEF ThreadShrinks, Started
<1> QED
  BY <1>1, <1>2, <1>3

LEMMA SingleKept == ASSUME Single, LstShrinks, LoopShrinks, ThreadShrinks PROVE Single'
BY CarriedKept DEF Single, Listed

(* The Starts that a queue or a thread still serves, or an alarm waits for. *)
Carried(s) ==
  \/ \E a \in Alarms : seq[a] = s \/ (Started(a) /\ thr[a] = s)
  \/ \E q \in Queues : Called(q) /\ loop[q].msg.seq = s
  \/ \E q \in Queues : \E m \in lst[q] : m.what = "Run" /\ m.seq = s

OutcomesKeep ==
  \A s \in Seqs : outcome'[s] # outcome[s] => s < sg_seq /\ ~Carried(s)'

LEMMA OutcomesKept ==
  ASSUME TypeOK, Outcomes, LstShrinks, LoopShrinks, ThreadShrinks, SeqShrinks, OutcomesKeep
  PROVE  Outcomes'
<1>1. \A s \in Seqs : Carried(s)' => outcome'[s] = outcome[s]
  BY DEF OutcomesKeep
<1>2. sg_seq \in Nat /\ sg_seq' = sg_seq /\ \A s \in Seqs : s \in Nat
  BY DEF TypeOK, Seqs, SeqShrinks
<1>3. \A s \in Seqs : s >= sg_seq' => outcome'[s] = "none"
  <2> TAKE s \in Seqs
  <2> HAVE s >= sg_seq'
  <2>1. ~(s < sg_seq)
    BY <1>2
  <2> QED
    BY <1>2, <2>1 DEF OutcomesKeep, Outcomes
<1>4. ASSUME NEW a \in Alarms, seq'[a] # 0 PROVE outcome'[seq'[a]] = "waiting"
  <2>1. seq'[a] = seq[a] /\ seq[a] \in Seqs
    BY <1>4, AlarmAssumption DEF SeqShrinks, TypeOK, Seqs
  <2>2. Carried(seq[a])'
    BY DEF Carried
  <2> QED
    BY <1>1, <1>4, <2>1, <2>2 DEF Outcomes
<1>5. ASSUME NEW q \in Queues, NEW m \in lst'[q], m.what = "Run"
      PROVE  outcome'[m.seq] = "accepted"
  <2>1. m \in lst[q] /\ Listed(q, m)
    BY <1>5 DEF LstShrinks, Listed
  <2>2. m.seq \in Seqs
    BY <2>1 DEF TypeOK, Messages
  <2>3. Carried(m.seq)'
    BY <1>5 DEF Carried
  <2> QED
    BY <1>1, <2>1, <2>2, <2>3 DEF Outcomes
<1>6. ASSUME NEW q \in Queues, Called(q)' PROVE outcome'[loop'[q].msg.seq] = "accepted"
  <2>1. Called(q) /\ loop'[q].msg = loop[q].msg
    BY <1>6, CarriedKept
  <2>2. loop[q].msg.seq \in Seqs
    BY <2>1 DEF TypeOK, Messages, Called, NoMessage
  <2>3. Carried(loop[q].msg.seq)'
    BY <1>6, <2>1 DEF Carried
  <2> QED
    BY <1>1, <2>1, <2>2, <2>3 DEF Outcomes
<1>7. ASSUME NEW a \in Alarms, Started(a)' PROVE outcome'[thr'[a]] = "accepted"
  <2>1. Started(a) /\ thr'[a] = thr[a]
    BY <1>7, CarriedKept
  <2>2. thr[a] \in Seqs
    BY <2>1, AlarmAssumption DEF TypeOK, Started, Seqs
  <2>3. Carried(thr[a])'
    BY <1>7, <2>1 DEF Carried
  <2> QED
    BY <1>1, <2>1, <2>2, <2>3 DEF Outcomes
<1> QED
  BY <1>3, <1>4, <1>5, <1>6, <1>7 DEF Outcomes, Listed

(* What was put to an end stays so ...                                     *)
LEMMA EndedStays ==
  ASSUME LstShrinks, LoopShrinks, SeqShrinks, ThreadShrinks, NEW a \in Alarms
  PROVE  /\ seq[a] = 0 => seq'[a] = 0
         /\ thr[a] = 0 => thr'[a] = 0
         /\ Handling(a, "def", {"KALARM"})' => Handling(a, "def", {"KALARM"})
         /\ Handling(a, Queue(a), {"OnAlarm", "Run"})' => Handling(a, Queue(a), {"OnAlarm", "Run"})
         /\ lst'[Queue(a)'] \subseteq lst[Queue(a)]
<1>1. \A q \in Queues :
        a \in loop'[q].handlers => a \in loop[q].handlers /\ loop'[q].msg = loop[q].msg
  BY DEF LoopShrinks, Idle
<1>2. Queue(a)' = Queue(a) /\ Queue(a) \in Queues /\ "def" \in Queues
  BY DEF LstShrinks, Queue, Queues
<1>3. (seq[a] = 0 => seq'[a] = 0) /\ (thr[a] = 0 => thr'[a] = 0)
  BY DEF SeqShrinks, ThreadShrinks
<1>4. Handling(a, "def", {"KALARM"})' => Handling(a, "def", {"KALARM"})
  BY <1>1, <1>2 DEF Handling
<1>5. Handling(a, Queue(a), {"OnAlarm", "Run"})' => Handling(a, Queue(a), {"OnAlarm", "Run"})
  BY <1>1, <1>2 DEF Handling
<1>6. lst'[Queue(a)'] \subseteq lst[Queue(a)]
  BY <1>2 DEF LstShrinks
<1> QED
  BY <1>3, <1>4, <1>5, <1>6

(* ... for a destructor that makes no step.                                *)
LEMMA StageKept ==
  ASSUME Stages, LstShrinks, LoopShrinks, SeqShrinks, ThreadShrinks, NEW a \in Alarms,
         pc'[a] = pc[a], reg'[a] = reg[a], reg_async'[a] = reg_async[a]
  PROVE  Stage(a)'
BY EndedStays DEF Stages, Stage

LEMMA StagesKept ==
  ASSUME Stages, LstShrinks, LoopShrinks, SeqShrinks, ThreadShrinks,
         UNCHANGED <<reg, reg_async, pc>>
  PROVE  Stages'
BY StageKept DEF Stages

(* The parts of the type invariant.                                        *)
TimeType == kind \in [Alarms -> Kinds] /\ sg_seq \in 1..(MaxSeq + 1) /\ now \in 0..MaxTime
ObjectType ==
  /\ seq \in [Alarms -> 0..MaxSeq]
  /\ status \in [Alarms -> {"kInit", "kStart", "kCancel", "kOnAlarm"}]
  /\ starttime \in [Alarms -> 0..MaxTime]
  /\ after \in [Alarms -> Nat]
LstType == lst \in [Queues -> SUBSET Messages]
LoopType == loop \in [Queues -> LoopRecords]
RegType == reg \in [Alarms -> BOOLEAN] /\ reg_async \in [Alarms -> BOOLEAN]
ThreadType == thr \in [Alarms -> 0..MaxSeq] /\ thrpc \in [Alarms -> {"init", "run"}]
PcType ==
  pc \in [Alarms -> {"alive", "reg", "regwait", "async", "asyncmsgs", "asyncwait", "join", "dead"}]
OutcomeType == outcome \in [Seqs -> {"none", "waiting", "accepted"} \cup Ended]

(* The type invariant taken apart.                                         *)
LEMMA Types ==
  TypeOK <=> /\ TimeType /\ ObjectType /\ LstType /\ LoopType
             /\ RegType /\ ThreadType /\ PcType /\ OutcomeType
BY DEF TypeOK, TimeType, ObjectType, LstType, LoopType, LoopRecords, RegType, ThreadType, PcType,
       OutcomeType

(* The type invariant put together.                                        *)
LEMMA TypesNext ==
  ASSUME TimeType', ObjectType', LstType', LoopType', RegType', ThreadType', PcType', OutcomeType'
  PROVE  TypeOK'
BY DEF TypeOK, TimeType, ObjectType, LstType, LoopType, LoopRecords, RegType, ThreadType, PcType,
       OutcomeType

LEMMA TypeKept ==
  ASSUME TypeOK
  PROVE  /\ UNCHANGED <<kind, sg_seq, now>> => TimeType'
         /\ UNCHANGED object => ObjectType'
         /\ UNCHANGED lst => LstType'
         /\ UNCHANGED loop => LoopType'
         /\ UNCHANGED <<reg, reg_async>> => RegType'
         /\ UNCHANGED thread => ThreadType'
         /\ UNCHANGED pc => PcType'
         /\ UNCHANGED outcome => OutcomeType'
<1>1. /\ TimeType /\ ObjectType /\ LstType /\ LoopType
      /\ RegType /\ ThreadType /\ PcType /\ OutcomeType
  BY Types
<1>2. UNCHANGED <<kind, sg_seq, now>> => TimeType'
  BY <1>1 DEF TimeType
<1>3. UNCHANGED object => ObjectType'
  BY <1>1 DEF ObjectType, object
<1>4. UNCHANGED thread => ThreadType'
  BY <1>1 DEF ThreadType, thread
<1>5. (UNCHANGED lst => LstType') /\ (UNCHANGED loop => LoopType')
  BY <1>1 DEF LstType, LoopType
<1>6. UNCHANGED <<reg, reg_async>> => RegType'
  BY <1>1 DEF RegType
<1>7. (UNCHANGED pc => PcType') /\ (UNCHANGED outcome => OutcomeType')
  BY <1>1 DEF PcType, OutcomeType
<1> QED
  BY <1>2, <1>3, <1>4, <1>5, <1>6, <1>7

(* What does not change does not grow.                                     *)
LEMMA Unchanging ==
  ASSUME TypeOK
  PROVE  /\ UNCHANGED <<kind, lst>> => LstShrinks
         /\ UNCHANGED loop => LoopShrinks
         /\ UNCHANGED <<sg_seq, object>> => SeqShrinks
         /\ UNCHANGED thread => ThreadShrinks
         /\ UNCHANGED <<now, starttime, after>> => TimeGoesOn
         /\ UNCHANGED outcome => OutcomesKeep
<1>1. UNCHANGED <<kind, lst>> => LstShrinks
  BY DEF LstShrinks
<1>2. UNCHANGED loop => LoopShrinks
  BY DEF LoopShrinks
<1>3. UNCHANGED <<sg_seq, object>> => SeqShrinks
  BY DEF SeqShrinks, object
<1>4. UNCHANGED thread => ThreadShrinks
  BY DEF ThreadShrinks, thread
<1>5. UNCHANGED <<now, starttime, after>> => TimeGoesOn
  BY AlarmAssumption DEF TimeGoesOn, TypeOK
<1>6. UNCHANGED outcome => OutcomesKeep
  BY DEF OutcomesKeep
<1> QED
  BY <1>1, <1>2, <1>3, <1>4, <1>5, <1>6

(* A step that puts nothing on its way keeps the invariant if it keeps the *)
(* promises of the destructors.                                            *)
LEMMA QuietInv ==
  ASSUME Inv, TypeOK', Stages', LstShrinks, LoopShrinks, SeqShrinks, ThreadShrinks, TimeGoesOn,
         OutcomesKeep
  PROVE  Inv'
BY PlacedKept, FreshKept, LateKept, OutcomesKept, SingleKept DEF Inv

(* A Start that nobody serves any more may change its outcome.             *)
LEMMA OneEnds ==
  ASSUME TypeOK, Outcomes, NEW s \in Seqs, NEW e, outcome[s] # "none",
         outcome' = [outcome EXCEPT ![s] = e], ~Carried(s)'
  PROVE  OutcomesKeep
<1>1. s < sg_seq
  BY DEF TypeOK, Outcomes, Seqs
<1>2. \A t \in Seqs : t # s => outcome'[t] = outcome[t]
  BY DEF TypeOK
<1> QED
  BY <1>1, <1>2 DEF OutcomesKeep

-----------------------------------------------------------------------------
(* Nothing is on its way at first.                                         *)
LEMMA InitInv == Init => Inv
<1> SUFFICES ASSUME Init PROVE Inv
  OBVIOUS
<1>1. TypeOK
  BY AlarmAssumption DEF Init, TypeOK, Alarms, Queues, Messages, Idle, Kinds
<1>2. Placed /\ Stages /\ Fresh /\ Late
  BY AlarmAssumption DEF Init, Placed, Stages, Stage, Fresh, Late, Idle, NoMessage, Handling, Alarms, Queues, Queue
<1>3. Outcomes /\ Single
  BY DEF Init, Outcomes, Single, Idle, NoMessage, Listed, Called, Started
<1> QED
  BY <1>1, <1>2, <1>3 DEF Inv

(* Time passes: what was late enough is so still.                          *)
LEMMA Waits == ASSUME Inv, Tick PROVE Inv'
<1>0. TypeOK
  BY DEF Inv
<1>1. /\ UNCHANGED <<kind, sg_seq, lst, loop, reg, reg_async, pc, outcome>>
      /\ UNCHANGED object /\ UNCHANGED thread /\ now' = now + 1 /\ now < MaxTime
      /\ UNCHANGED <<starttime, after>>
  BY DEF Tick, object, thread, queues
<1>2. TimeType' /\ TimeGoesOn
  BY <1>0, <1>1, AlarmAssumption DEF TypeOK, TimeType, TimeGoesOn
<1>3. TypeOK'
  BY <1>0, <1>1, <1>2, TypeKept, TypesNext
<1>4. LstShrinks /\ LoopShrinks /\ SeqShrinks /\ ThreadShrinks /\ OutcomesKeep
  BY <1>0, <1>1, Unchanging
<1>5. Stages'
  BY <1>0, <1>1, <1>4, StagesKept DEF Inv
<1> QED
  BY <1>2, <1>3, <1>4, <1>5, QuietInv

-----------------------------------------------------------------------------
(* The turns of a loop that only finish something.                         *)
LEMMA LoopEnds ==
  ASSUME Inv, NEW q \in Queues, OnAlarmIgnore(q) \/ RunEnd(q) \/ Done(q) \/ RunBegin(q)
  PROVE  Inv'
<1>0. TypeOK
  BY DEF Inv
<1>1. /\ UNCHANGED <<kind, sg_seq, now, lst, reg, reg_async, pc>>
      /\ UNCHANGED object /\ UNCHANGED thread /\ UNCHANGED <<starttime, after>>
  BY DEF OnAlarmIgnore, RunEnd, Done, RunBegin, object, thread
<1>2. LstShrinks /\ SeqShrinks /\ ThreadShrinks /\ TimeGoesOn
  BY <1>0, <1>1, Unchanging
<1>3. loop[q] \in LoopRecords
  BY <1>0 DEF TypeOK, LoopRecords
<1>4. ASSUME NEW r \in LoopRecords, loop' = [loop EXCEPT ![q] = r],
             \/ r = Idle
             \/ /\ r.msg = loop[q].msg /\ r.handlers = loop[q].handlers
                /\ r.todo \subseteq loop[q].todo
                /\ r.calling \in {0, loop[q].calling} \cup loop[q].todo,
             OutcomesKeep, OutcomeType'
      PROVE  Inv'
  <2>1. LoopType'
    BY <1>0, <1>4 DEF TypeOK, LoopType, LoopRecords
  <2>2. LoopShrinks
    BY <1>0, <1>4 DEF LoopShrinks, TypeOK
  <2>3. TypeOK'
    BY <1>0, <1>1, <1>4, <2>1, TypeKept, TypesNext
  <2>4. Stages'
    BY <1>0, <1>1, <1>2, <2>2, StagesKept DEF Inv
  <2> QED
    BY <1>2, <1>4, <2>2, <2>3, <2>4, QuietInv
<1>5. UNCHANGED outcome => OutcomesKeep /\ OutcomeType'
  BY <1>0, Unchanging, TypeKept
<1>6. CASE OnAlarmIgnore(q)
  <2> DEFINE r == [loop[q] EXCEPT !.todo = @ \ {NextHandler(q)}]
  <2>1. loop' = [loop EXCEPT ![q] = r] /\ UNCHANGED outcome
    BY <1>6 DEF OnAlarmIgnore
  <2>2. /\ r \in LoopRecords /\ r.msg = loop[q].msg /\ r.handlers = loop[q].handlers
        /\ r.todo \subseteq loop[q].todo /\ r.calling = loop[q].calling
    BY <1>3 DEF LoopRecords
  <2> HIDE DEF r
  <2> QED
    BY <1>4, <1>5, <2>1, <2>2
<1>7. CASE RunEnd(q)
  <2> DEFINE r == [loop[q] EXCEPT !.calling = 0]
  <2>1. loop' = [loop EXCEPT ![q] = r] /\ UNCHANGED outcome
    BY <1>7 DEF RunEnd
  <2>2. /\ r \in LoopRecords /\ r.msg = loop[q].msg /\ r.handlers = loop[q].handlers
        /\ r.todo \subseteq loop[q].todo /\ r.calling = 0
    BY <1>3, AlarmAssumption DEF LoopRecords
  <2> HIDE DEF r
  <2> QED
    BY <1>4, <1>5, <2>1, <2>2
<1>8. CASE Done(q)
  <2>1. loop' = [loop EXCEPT ![q] = Idle] /\ UNCHANGED outcome
    BY <1>8 DEF Done
  <2>2. Idle \in LoopRecords
    BY AlarmAssumption DEF Idle, LoopRecords
  <2> QED
    BY <1>4, <1>5, <2>1, <2>2
<1>9. CASE RunBegin(q)
  <2> DEFINE r == [loop[q] EXCEPT !.todo = {}, !.calling = NextHandler(q)]
  <2>1. /\ loop' = [loop EXCEPT ![q] = r] /\ loop[q].todo # {} /\ Called(q)
        /\ outcome' = Ran(loop[q].msg.seq)
    BY <1>9 DEF RunBegin, Called
  <2>2. NextHandler(q) \in loop[q].todo /\ NextHandler(q) \in 0..N
    BY <1>0, <2>1, NextIs, AlarmAssumption DEF Alarms
  <2>3. /\ r \in LoopRecords /\ r.msg = loop[q].msg /\ r.handlers = loop[q].handlers
        /\ r.todo = {} /\ r.calling \in loop[q].todo
    BY <1>3, <2>2 DEF LoopRecords
  <2> HIDE DEF r
  <2>4. PICK s \in Seqs : s = loop[q].msg.seq /\ outcome[s] = "accepted"
    BY <1>0, <2>1 DEF Inv, Outcomes, TypeOK, Messages, Called, NoMessage
  <2>5. outcome' = [outcome EXCEPT ![s] = "ran"]
    BY <2>1, <2>4 DEF Ran
  <2>6. OutcomeType'
    BY <1>0, <2>4, <2>5 DEF TypeOK, OutcomeType, Ended
  <2>7. ~Carried(s)'
    <3>1. \A a \in Alarms : seq[a] # s /\ ~(Started(a) /\ thr[a] = s)
      BY <2>1, <2>4 DEF Inv, Outcomes, Single, Seqs
    <3>2. \A a \in Alarms : seq'[a] # s /\ ~(Started(a)' /\ thr'[a] = s)
      BY <1>1, <3>1 DEF Started, object, thread
    <3>3. ~Called(q)'
      BY <1>0, <2>1, <2>3 DEF Called, TypeOK
    <3>4. \A p \in Queues : p # q => (loop'[p] = loop[p] /\ (Called(p)' <=> Called(p)))
      BY <1>0, <2>1 DEF Called, TypeOK
    <3>5. \A p \in Queues : ~(Called(p)' /\ loop'[p].msg.seq = s)
      BY <2>1, <2>4, <3>3, <3>4 DEF Inv, Single
    <3>6. \A p \in Queues : \A m \in lst'[p] : ~(m.what = "Run" /\ m.seq = s)
      BY <1>1, <2>1, <2>4 DEF Inv, Single, Listed
    <3> QED
      BY <3>2, <3>5, <3>6 DEF Carried
  <2>8. OutcomesKeep
    BY <1>0, <2>4, <2>5, <2>7, OneEnds DEF Inv
  <2> QED
    BY <1>4, <2>1, <2>3, <2>6, <2>8
<1> QED
  BY <1>6, <1>7, <1>8, <1>9

(* runthread_ begins its callback, and ends.                               *)
LEMMA ThreadRuns == ASSUME Inv, NEW a \in Alarms, RunThread(a) PROVE Inv'
<1>0. TypeOK
  BY DEF Inv
<1>1. /\ UNCHANGED <<kind, sg_seq, now, lst, loop, reg, reg_async, pc>>
      /\ UNCHANGED object /\ UNCHANGED <<starttime, after>>
  BY DEF RunThread, ThreadRunBegin, ThreadRunEnd, object, queues
<1>2. LstShrinks /\ LoopShrinks /\ SeqShrinks /\ TimeGoesOn
  BY <1>0, <1>1, Unchanging
<1>3. ASSUME ThreadShrinks, ThreadType', OutcomesKeep, OutcomeType' PROVE Inv'
  <2>1. TypeOK'
    BY <1>0, <1>1, <1>3, TypeKept, TypesNext
  <2>2. Stages'
    BY <1>0, <1>1, <1>2, <1>3, StagesKept DEF Inv
  <2> QED
    BY <1>2, <1>3, <2>1, <2>2, QuietInv
<1>4. CASE ThreadRunEnd(a)
  <2>1. /\ thrpc[a] = "run" /\ thrpc' = [thrpc EXCEPT ![a] = "init"]
        /\ thr' = [thr EXCEPT ![a] = 0] /\ UNCHANGED outcome
    BY <1>4 DEF ThreadRunEnd
  <2>2. ThreadShrinks /\ ThreadType'
    BY <1>0, <2>1, AlarmAssumption DEF TypeOK, ThreadShrinks, ThreadType
  <2>3. OutcomesKeep /\ OutcomeType'
    BY <1>0, <2>1, Unchanging, TypeKept
  <2> QED
    BY <1>3, <2>2, <2>3
<1>5. CASE ThreadRunBegin(a)
  <2>1. /\ Started(a) /\ thrpc' = [thrpc EXCEPT ![a] = "run"] /\ UNCHANGED thr
        /\ outcome' = Ran(thr[a])
    BY <1>5 DEF ThreadRunBegin, Started
  <2>2. ThreadShrinks /\ ThreadType'
    BY <1>0, <2>1 DEF TypeOK, ThreadShrinks, ThreadType
  <2>3. PICK s \in Seqs : s = thr[a] /\ outcome[s] = "accepted"
    BY <1>0, <2>1, AlarmAssumption DEF Inv, Outcomes, TypeOK, Started, Seqs
  <2>4. outcome' = [outcome EXCEPT ![s] = "ran"]
    BY <2>1, <2>3 DEF Ran
  <2>5. OutcomeType'
    BY <1>0, <2>4 DEF TypeOK, OutcomeType, Ended
  <2>6. ~Carried(s)'
    <3>1. \A b \in Alarms : seq'[b] # s
      BY <1>1, <2>3 DEF Inv, Outcomes, Seqs, object
    <3>2. \A b \in Alarms : Started(b)' => Started(b) /\ b # a /\ thr'[b] = thr[b]
      BY <1>0, <2>1 DEF Started, TypeOK
    <3>3. \A b \in Alarms : ~(Started(b)' /\ thr'[b] = s)
      BY <2>1, <2>3, <3>2 DEF Inv, Single
    <3>4. \A p \in Queues : ~(Called(p)' /\ loop'[p].msg.seq = s)
      BY <1>1, <2>1, <2>3 DEF Inv, Single, Called
    <3>5. \A p \in Queues : \A m \in lst'[p] : ~(m.what = "Run" /\ m.seq = s)
      BY <1>1, <2>1, <2>3 DEF Inv, Single, Listed
    <3> QED
      BY <3>1, <3>3, <3>4, <3>5 DEF Carried
  <2>7. OutcomesKeep
    BY <1>0, <2>3, <2>4, <2>6, OneEnds DEF Inv
  <2> QED
    BY <1>3, <2>2, <2>5, <2>7
<1> QED
  BY <1>4, <1>5 DEF RunThread

-----------------------------------------------------------------------------
(* Cancel, wherever it is called from, leaves nothing for a in its queue.  *)
LEMMA Cancels ==
  ASSUME Inv, NEW a \in Alarms, CancelMessages(a), UNCHANGED <<kind, sg_seq, loop, thr, thrpc>>,
         seq' = [seq EXCEPT ![a] = 0],
         outcome' = [s \in Seqs |-> IF s \in Undone(a) THEN "cancelled" ELSE outcome[s]]
  PROVE  /\ LstType' /\ OutcomeType' /\ LstShrinks /\ OutcomesKeep
         /\ \A m \in lst'[Queue(a)] : m.a # a
<1>0. TypeOK /\ Queue(a) \in Queues
  BY DEF Inv, Queue, Queues
<1>1. /\ lst'[Queue(a)] = {m \in lst[Queue(a)] : m.a # a}
      /\ \A q \in Queues : q # Queue(a) => lst'[q] = lst[q]
  BY <1>0 DEF CancelMessages, TypeOK
<1>2. LstShrinks
  BY <1>0, <1>1 DEF LstShrinks
<1>3. LstType'
  BY <1>0 DEF CancelMessages, TypeOK, LstType
<1>4. OutcomeType'
  BY <1>0 DEF TypeOK, OutcomeType, Ended
<1>5. ASSUME NEW s \in Seqs, s = seq[a] PROVE ~Carried(s)' /\ outcome[s] # "none"
  <2>1. s # 0 /\ outcome[s] = "waiting"
    BY <1>5 DEF Inv, Outcomes, Seqs
  <2>2. \A b \in Alarms : seq'[b] # s
    BY <1>0, <1>5, <2>1 DEF TypeOK, Inv, Fresh
  <2>3. \A b \in Alarms : ~(Started(b)' /\ thr'[b] = s)
    BY <2>1 DEF Inv, Outcomes, Started
  <2>4. \A p \in Queues : ~(Called(p)' /\ loop'[p].msg.seq = s)
    BY <2>1 DEF Inv, Outcomes, Called
  <2>5. \A p \in Queues : \A m \in lst'[p] : ~(m.what = "Run" /\ m.seq = s)
    BY <1>2, <2>1 DEF Inv, Outcomes, Listed, LstShrinks
  <2> QED
    BY <2>1, <2>2, <2>3, <2>4, <2>5 DEF Carried
<1>6. ASSUME NEW s \in Seqs, NEW m \in lst[Queue(a)], m.what = "Run", m.a = a, m.seq = s
      PROVE  ~Carried(s)' /\ outcome[s] # "none"
  <2>1. s # 0 /\ outcome[s] = "accepted" /\ Listed(Queue(a), m)
    BY <1>0, <1>6 DEF Inv, Outcomes, Seqs, Listed
  <2>2. \A b \in Alarms : seq'[b] # s
    BY <1>0, <2>1 DEF TypeOK, Inv, Outcomes
  <2>3. \A b \in Alarms : ~(Started(b)' /\ thr'[b] = s)
    BY <1>0, <1>6, <2>1 DEF Inv, Single, Started
  <2>4. \A p \in Queues : ~(Called(p)' /\ loop'[p].msg.seq = s)
    BY <1>0, <1>6, <2>1 DEF Inv, Single, Called
  <2>5. ASSUME NEW p \in Queues, NEW n \in lst'[p], n.what = "Run", n.seq = s PROVE FALSE
    <3>1. n \in lst[p] /\ Listed(p, n)
      BY <1>2, <2>5 DEF LstShrinks, Listed
    <3>2. p = Queue(a) /\ n = m
      BY <1>0, <1>6, <2>1, <2>5, <3>1 DEF Inv, Single
    <3> QED
      BY <1>1, <1>6, <2>5, <3>2
  <2> QED
    BY <2>1, <2>2, <2>3, <2>4, <2>5 DEF Carried
<1>7. ASSUME NEW s \in Seqs, outcome'[s] # outcome[s] PROVE s < sg_seq /\ ~Carried(s)'
  <2>1. s \in Undone(a)
    BY <1>7
  <2>2. ~Carried(s)' /\ outcome[s] # "none"
    BY <1>5, <1>6, <2>1 DEF Undone
  <2> QED
    BY <1>0, <2>2 DEF Inv, Outcomes, TypeOK, Seqs
<1> QED
  BY <1>1, <1>2, <1>3, <1>4, <1>7 DEF OutcomesKeep

(* A destructor's step, or a Cancel: nothing new, and the stage is true.   *)
LEMMA Steps ==
  ASSUME Inv, NEW a \in Alarms, NEW p, pc' = [pc EXCEPT ![a] = p], PcType',
         \A b \in Alarms : b # a => reg'[b] = reg[b] /\ reg_async'[b] = reg_async[b], RegType',
         UNCHANGED <<kind, sg_seq, now, starttime, after, loop, thr, thrpc>>, ObjectType', SeqShrinks,
         LstType', OutcomeType', LstShrinks, OutcomesKeep, Stage(a)'
  PROVE  Inv'
<1>0. TypeOK
  BY DEF Inv
<1>1. UNCHANGED thread
  BY DEF thread
<1>2. LoopShrinks /\ ThreadShrinks /\ TimeGoesOn
  BY <1>0, <1>1, Unchanging
<1>3. TypeOK'
  BY <1>0, <1>1, TypeKept, TypesNext
<1>4. \A b \in Alarms : b # a => Stage(b)'
  <2>1. \A b \in Alarms : b # a => pc'[b] = pc[b]
    BY <1>0 DEF TypeOK
  <2> QED
    BY <1>2, <2>1, StageKept DEF Inv
<1>5. Stages'
  BY <1>4 DEF Stages
<1> QED
  BY <1>2, <1>3, <1>5, QuietInv

LEMMA CancelStep ==
  ASSUME Inv, NEW a \in Alarms, Cancel(a) \/ DestroyCancel(a)
  PROVE  Inv'
<1>0. TypeOK
  BY DEF Inv
<1>1. PICK p \in {"alive", "reg"} : pc[a] = "alive" /\ pc' = [pc EXCEPT ![a] = p]
  <2>1. CASE Cancel(a)
    <3>1. pc' = [pc EXCEPT ![a] = "alive"]
      BY <1>0, <2>1 DEF Cancel, TypeOK
    <3> QED
      BY <2>1, <3>1 DEF Cancel
  <2>2. CASE DestroyCancel(a)
    BY <2>2 DEF DestroyCancel
  <2> QED
    BY <2>1, <2>2
<1>2. /\ CancelMessages(a) /\ seq' = [seq EXCEPT ![a] = 0]
      /\ status' = [status EXCEPT ![a] = IF seq[a] = 0 THEN @ ELSE "kCancel"]
      /\ outcome' = [s \in Seqs |-> IF s \in Undone(a) THEN "cancelled" ELSE outcome[s]]
      /\ UNCHANGED <<kind, sg_seq, now, starttime, after, loop, reg, reg_async, thr, thrpc>>
  BY DEF Cancel, DestroyCancel, CancelBody, thread
<1>3. LstType' /\ OutcomeType' /\ LstShrinks /\ OutcomesKeep
  BY <1>2, Cancels
<1>4. PcType' /\ RegType'
  BY <1>0, <1>1, <1>2 DEF TypeOK, PcType, RegType
<1>5. ObjectType' /\ SeqShrinks /\ seq'[a] = 0
  BY <1>0, <1>2, AlarmAssumption DEF TypeOK, ObjectType, SeqShrinks
<1>6. Stage(a)'
  <2>1. pc'[a] \in {"alive", "reg"}
    BY <1>0, <1>1 DEF TypeOK
  <2> QED
    BY <1>5, <2>1 DEF Stage
<1> QED
  BY <1>1, <1>2, <1>3, <1>4, <1>5, <1>6, Steps

(* The other steps of ~Alarm.                                              *)
LEMMA DestroyStep == ASSUME Inv, NEW a \in Alarms, Destroy(a) PROVE Inv'
<1>0. TypeOK /\ Stage(a)
  BY DEF Inv, Stages
<1>1. /\ UNCHANGED <<kind, sg_seq, now, starttime, after, loop, thr, thrpc, seq, status>>
      /\ UNCHANGED object /\ UNCHANGED thread
  BY DEF Destroy, DestroyReg, DestroyRegWait, DestroyAsync, DestroyAsyncMessages,
         DestroyAsyncWait, DestroyJoin, object, thread, queues
<1>2. ObjectType' /\ SeqShrinks /\ LoopShrinks /\ ThreadShrinks
  BY <1>0, <1>1, TypeKept, Unchanging
<1>3. UNCHANGED <<lst, outcome>> => LstType' /\ OutcomeType' /\ LstShrinks /\ OutcomesKeep
  BY <1>0, <1>1, TypeKept, Unchanging
<1>4. UNCHANGED <<reg, reg_async>> =>
        RegType' /\ \A b \in Alarms : b # a => reg'[b] = reg[b] /\ reg_async'[b] = reg_async[b]
  BY <1>0, TypeKept
<1>5. \A p \in {"regwait", "async", "asyncmsgs", "asyncwait", "join", "dead"} :
        pc' = [pc EXCEPT ![a] = p] => PcType' /\ pc'[a] = p
  BY <1>0 DEF TypeOK, PcType
<1>6. CASE DestroyReg(a)
  <2>1. /\ pc[a] = "reg" /\ reg' = [reg EXCEPT ![a] = FALSE] /\ pc' = [pc EXCEPT ![a] = "regwait"]
        /\ UNCHANGED <<lst, outcome, reg_async>>
    BY <1>6 DEF DestroyReg, queues
  <2>2. /\ RegType' /\ reg'[a] = FALSE
        /\ \A b \in Alarms : b # a => reg'[b] = reg[b] /\ reg_async'[b] = reg_async[b]
    BY <1>0, <2>1 DEF TypeOK, RegType
  <2>3. LstType' /\ OutcomeType' /\ LstShrinks /\ OutcomesKeep
    BY <1>3, <2>1
  <2>4. PcType' /\ pc'[a] = "regwait"
    BY <1>5, <2>1
  <2>5. Stage(a)'
    BY <1>0, <1>1, <2>1, <2>2, <2>4 DEF Stage
  <2> QED
    BY <1>1, <1>2, <2>1, <2>2, <2>3, <2>4, <2>5, Steps
<1>7. CASE DestroyRegWait(a)
  <2>1. /\ pc[a] = "regwait" /\ ~Handling(a, "def", {"KALARM"})
        /\ pc' = [pc EXCEPT ![a] = "async"] /\ UNCHANGED <<lst, outcome, reg, reg_async>>
    BY <1>7 DEF DestroyRegWait, queues
  <2>2. /\ LstType' /\ OutcomeType' /\ LstShrinks /\ OutcomesKeep /\ RegType'
        /\ \A b \in Alarms : b # a => reg'[b] = reg[b] /\ reg_async'[b] = reg_async[b]
    BY <1>3, <1>4, <2>1
  <2>3. PcType' /\ pc'[a] = "async"
    BY <1>5, <2>1
  <2>4. ~Handling(a, "def", {"KALARM"})'
    BY <1>1, <2>1 DEF Handling
  <2>5. Stage(a)'
    BY <1>0, <1>1, <2>1, <2>3, <2>4 DEF Stage
  <2> QED
    BY <1>1, <1>2, <2>1, <2>2, <2>3, <2>5, Steps
<1>8. CASE DestroyAsync(a)
  <2>1. /\ pc[a] = "async" /\ reg_async' = [reg_async EXCEPT ![a] = FALSE]
        /\ pc' = [pc EXCEPT ![a] = "asyncmsgs"] /\ UNCHANGED <<lst, outcome, reg>>
    BY <1>8 DEF DestroyAsync, queues
  <2>2. /\ RegType' /\ reg_async'[a] = FALSE
        /\ \A b \in Alarms : b # a => reg'[b] = reg[b] /\ reg_async'[b] = reg_async[b]
    BY <1>0, <2>1 DEF TypeOK, RegType
  <2>3. LstType' /\ OutcomeType' /\ LstShrinks /\ OutcomesKeep
    BY <1>3, <2>1
  <2>4. PcType' /\ pc'[a] = "asyncmsgs"
    BY <1>5, <2>1
  <2>5. Stage(a)'
    BY <1>0, <1>1, <1>2, <2>1, <2>2, <2>3, <2>4, EndedStays DEF Stage
  <2> QED
    BY <1>1, <1>2, <2>1, <2>2, <2>3, <2>4, <2>5, Steps
<1>9. CASE DestroyAsyncMessages(a)
  <2>1. /\ pc[a] = "asyncmsgs" /\ CancelMessages(a) /\ pc' = [pc EXCEPT ![a] = "asyncwait"]
        /\ outcome' = [s \in Seqs |-> IF s \in Undone(a) THEN "cancelled" ELSE outcome[s]]
        /\ UNCHANGED <<reg, reg_async>>
    BY <1>9 DEF DestroyAsyncMessages
  <2>2. seq' = [seq EXCEPT ![a] = 0]
    BY <1>0, <1>1, <2>1 DEF Stage, TypeOK
  <2>3. /\ LstType' /\ OutcomeType' /\ LstShrinks /\ OutcomesKeep
        /\ \A m \in lst'[Queue(a)] : m.a # a
    BY <1>1, <2>1, <2>2, Cancels
  <2>4. /\ RegType' /\ PcType' /\ pc'[a] = "asyncwait" /\ Queue(a)' = Queue(a)
        /\ \A b \in Alarms : b # a => reg'[b] = reg[b] /\ reg_async'[b] = reg_async[b]
    BY <1>1, <1>4, <1>5, <2>1 DEF Queue
  <2>5. Stage(a)'
    BY <1>0, <1>1, <1>2, <2>1, <2>3, <2>4, EndedStays DEF Stage
  <2> QED
    BY <1>1, <1>2, <2>1, <2>3, <2>4, <2>5, Steps
<1>10. CASE DestroyAsyncWait(a)
  <2>1. /\ pc[a] = "asyncwait" /\ ~Handling(a, Queue(a), {"OnAlarm", "Run"})
        /\ pc' = [pc EXCEPT ![a] = "join"] /\ UNCHANGED <<lst, outcome, reg, reg_async>>
    BY <1>10 DEF DestroyAsyncWait, queues
  <2>2. /\ LstType' /\ OutcomeType' /\ LstShrinks /\ OutcomesKeep /\ RegType'
        /\ \A b \in Alarms : b # a => reg'[b] = reg[b] /\ reg_async'[b] = reg_async[b]
    BY <1>3, <1>4, <2>1
  <2>3. PcType' /\ pc'[a] = "join"
    BY <1>5, <2>1
  <2>4. Stage(a)'
    BY <1>0, <1>1, <1>2, <2>1, <2>2, <2>3, EndedStays DEF Stage
  <2> QED
    BY <1>1, <1>2, <2>1, <2>2, <2>3, <2>4, Steps
<1>11. CASE DestroyJoin(a)
  <2>1. /\ pc[a] = "join" /\ thr[a] = 0
        /\ pc' = [pc EXCEPT ![a] = "dead"] /\ UNCHANGED <<lst, outcome, reg, reg_async>>
    BY <1>11 DEF DestroyJoin, queues
  <2>2. /\ LstType' /\ OutcomeType' /\ LstShrinks /\ OutcomesKeep /\ RegType'
        /\ \A b \in Alarms : b # a => reg'[b] = reg[b] /\ reg_async'[b] = reg_async[b]
    BY <1>3, <1>4, <2>1
  <2>3. PcType' /\ pc'[a] = "dead"
    BY <1>5, <2>1
  <2>4. Stage(a)'
    BY <1>0, <1>1, <1>2, <2>1, <2>2, <2>3, EndedStays DEF Stage
  <2> QED
    BY <1>1, <1>2, <2>1, <2>2, <2>3, <2>4, Steps
<1> QED
  BY <1>6, <1>7, <1>8, <1>9, <1>10, <1>11 DEF Destroy

-----------------------------------------------------------------------------
(* Start: the number is new, so nothing that is on its way has it.         *)
LEMMA StartStep == ASSUME Inv, NEW a \in Alarms, NEW d \in Afters, Start(a, d) PROVE Inv'
<1>0. TypeOK /\ d \in Nat /\ now \in Nat /\ "def" \in Queues
  BY AlarmAssumption DEF Inv, TypeOK, Queues
<1>1. PICK s \in Seqs : s = sg_seq
  BY <1>0 DEF Start, TypeOK, Seqs
<1>2. PICK n : n = Broadcast(s, now + d)
  OBVIOUS
<1>3. n.what = "KALARM" /\ n.a = 0 /\ n.seq = s /\ n.due = now + d /\ n \in Messages
  BY <1>0, <1>1, <1>2, AlarmAssumption DEF Broadcast, Messages, Start
<1>4. /\ pc[a] = "alive" /\ seq[a] = 0 /\ sg_seq' = s + 1
      /\ lst' = [lst EXCEPT !["def"] = @ \cup {n}]
      /\ status' = [status EXCEPT ![a] = "kStart"]
      /\ starttime' = [starttime EXCEPT ![a] = now]
      /\ after' = [after EXCEPT ![a] = d]
      /\ seq' = [seq EXCEPT ![a] = s]
      /\ outcome' = [outcome EXCEPT ![s] = "waiting"]
      /\ UNCHANGED <<kind, now, loop, reg, reg_async, thr, thrpc, pc>> /\ UNCHANGED thread
  BY <1>1, <1>2 DEF Start, thread
<1>5. \A q \in Queues : lst'[q] = IF q = "def" THEN lst[q] \cup {n} ELSE lst[q]
  BY <1>0, <1>4 DEF TypeOK
<1>6. \A b \in Alarms : b # a => /\ seq'[b] = seq[b] /\ status'[b] = status[b]
                                 /\ starttime'[b] = starttime[b] /\ after'[b] = after[b]
  BY <1>0, <1>4 DEF TypeOK
<1>7. seq'[a] = s /\ status'[a] = "kStart" /\ starttime'[a] = now /\ after'[a] = d
  BY <1>0, <1>4 DEF TypeOK
<1>8. TypeOK'
  <2>1. TimeType'
    BY <1>0, <1>1, <1>4, AlarmAssumption DEF TypeOK, TimeType, Seqs
  <2>2. ObjectType'
    BY <1>0, <1>4 DEF TypeOK, ObjectType, Seqs
  <2>3. LstType'
    BY <1>0, <1>3, <1>4 DEF TypeOK, LstType
  <2>4. OutcomeType'
    BY <1>0, <1>4 DEF TypeOK, OutcomeType
  <2> QED
    BY <1>0, <1>4, <2>1, <2>2, <2>3, <2>4, TypeKept, TypesNext
<1>9. Placed'
  BY <1>3, <1>4, <1>5 DEF Inv, Placed, InPlace, Queue
<1>10. Stages'
  <2>1. \A b \in Alarms : b # a => Stage(b)'
    <3> SUFFICES ASSUME NEW b \in Alarms, b # a PROVE Stage(b)'
      OBVIOUS
    <3>1. b # 0 /\ Stage(b)
      BY AlarmAssumption DEF Inv, Stages, Alarms
    <3>2. Queue(b)' = Queue(b) /\ Queue(b) \in Queues
      BY <1>4 DEF Queue, Queues
    <3>3. \A m \in lst'[Queue(b)'] : m \in lst[Queue(b)] \/ m.a # b
      BY <1>3, <1>5, <3>1, <3>2
    <3> QED
      BY <1>4, <1>6, <3>1, <3>2, <3>3 DEF Stage, Handling
  <2>2. Stage(a)'
    BY <1>4 DEF Stage
  <2> QED
    BY <2>1, <2>2 DEF Stages
<1>11. /\ sg_seq \in Nat /\ s \in Nat /\ s # 0
       /\ \A b \in Alarms : seq[b] < s /\ seq[b] \in Nat
       /\ \A q \in Queues : \A m \in lst[q] : m.seq < s /\ m.seq \in Nat
       /\ \A q \in Queues : loop[q].msg.seq < s /\ loop[q].msg.seq \in Nat
  BY <1>0, <1>1 DEF Inv, Fresh, TypeOK, Seqs, Messages, NoMessage
<1>12. Fresh'
  <2>1. \A b \in Alarms : seq'[b] < s + 1 /\ (b # a => seq'[b] # s)
    BY <1>6, <1>7, <1>11
  <2>2. \A b, c \in Alarms : seq'[b] = seq'[c] /\ seq'[b] # 0 => b = c
    BY <1>6, <1>7, <2>1 DEF Inv, Fresh
  <2>3. \A q \in Queues : (\A m \in lst'[q] : m.seq < s + 1) /\ loop'[q].msg.seq < s + 1
    BY <1>3, <1>4, <1>5, <1>11
  <2> QED
    BY <1>4, <2>1, <2>2, <2>3 DEF Fresh
<1>13. Late'
  <2> SUFFICES ASSUME NEW b \in Alarms, seq'[b] # 0
               PROVE  /\ status'[b] = "kStart"
                      /\ \A q \in Queues :
                           /\ \A m \in lst'[q] : m.seq = seq'[b] =>
                                /\ m.what = "KALARM" => m.due >= starttime'[b] + after'[b]
                                /\ m.what = "OnAlarm" => now' >= starttime'[b] + after'[b]
                           /\ loop'[q].msg.what # "Run" /\ loop'[q].msg.seq = seq'[b] =>
                                now' >= starttime'[b] + after'[b]
    BY DEF Late
  <2>1. CASE b = a
    <3>1. \A q \in Queues : loop'[q].msg.seq # s /\ \A m \in lst'[q] : m.seq = s => m = n
      BY <1>4, <1>5, <1>11
    <3> QED
      BY <1>0, <1>3, <1>7, <2>1, <3>1
  <2>2. CASE b # a
    <3>1. n.seq # seq[b]
      BY <1>3, <1>11
    <3>2. \A q \in Queues : \A m \in lst'[q] : m.seq = seq[b] => m \in lst[q]
      BY <1>5, <3>1
    <3> QED
      BY <1>4, <1>6, <2>2, <3>2 DEF Inv, Late
  <2> QED
    BY <2>1, <2>2
<1>14. \A q \in Queues : \A m \in lst'[q] : m.what = "Run" => m \in lst[q]
  BY <1>3, <1>5
<1>15. /\ \A q \in Queues : \A m \in lst'[q] : Listed(q, m)' => m \in lst[q] /\ Listed(q, m)
       /\ \A q \in Queues : Called(q)' <=> Called(q)
       /\ \A b \in Alarms : Started(b)' <=> Started(b)
  BY <1>4, <1>14 DEF Listed, Called, Started
<1>16. Outcomes'
  <2>1. outcome[s] = "none" /\ outcome'[s] = "waiting" /\ \A t \in Seqs : t # s => outcome'[t] = outcome[t]
    BY <1>0, <1>1, <1>4, <1>11 DEF Inv, Outcomes, TypeOK
  <2>2. \A t \in Seqs : t >= s + 1 => outcome'[t] = "none"
    <3> TAKE t \in Seqs
    <3> HAVE t >= s + 1
    <3>1. t # s /\ t >= sg_seq
      BY <1>1, <1>11 DEF Seqs
    <3> QED
      BY <2>1, <3>1 DEF Inv, Outcomes
  <2>3. \A b \in Alarms : seq'[b] # 0 => outcome'[seq'[b]] = "waiting"
    <3> TAKE b \in Alarms
    <3> HAVE seq'[b] # 0
    <3>1. CASE b = a
      BY <1>7, <2>1, <3>1
    <3>2. CASE b # a
      <4>1. seq[b] \in Seqs /\ seq[b] # s /\ seq'[b] = seq[b]
        BY <1>0, <1>6, <1>11, <3>2 DEF TypeOK, Seqs
      <4> QED
        BY <2>1, <4>1 DEF Inv, Outcomes
    <3> QED
      BY <3>1, <3>2
  <2>4. ASSUME NEW q \in Queues, NEW m \in lst'[q], Listed(q, m)' PROVE outcome'[m.seq] = "accepted"
    <3>1. m \in lst[q] /\ Listed(q, m) /\ m.seq \in Seqs
      BY <1>0, <1>15, <2>4 DEF TypeOK, Messages
    <3> QED
      BY <2>1, <3>1 DEF Inv, Outcomes
  <2>5. ASSUME NEW q \in Queues, Called(q)' PROVE outcome'[loop'[q].msg.seq] = "accepted"
    <3>1. Called(q) /\ loop'[q] = loop[q] /\ loop[q].msg.seq \in Seqs
      BY <1>0, <1>4, <1>15, <2>5 DEF TypeOK, Messages, Called, NoMessage
    <3> QED
      BY <2>1, <3>1 DEF Inv, Outcomes
  <2>6. ASSUME NEW b \in Alarms, Started(b)' PROVE outcome'[thr'[b]] = "accepted"
    <3>1. Started(b) /\ thr'[b] = thr[b] /\ thr[b] \in Seqs
      BY <1>0, <1>4, <1>15, <2>6 DEF TypeOK, Started, Seqs
    <3> QED
      BY <2>1, <3>1 DEF Inv, Outcomes
  <2> QED
    BY <1>4, <2>2, <2>3, <2>4, <2>5, <2>6 DEF Outcomes
<1>17. Single'
  BY <1>4, <1>15 DEF Inv, Single
<1> QED
  BY <1>8, <1>9, <1>10, <1>12, <1>13, <1>16, <1>17 DEF Inv

(* A loop takes a due message: the handlers it collects are still to be    *)
(* called, and a callback goes from the list to the loop.                  *)
LEMMA TakeStep == ASSUME Inv, NEW q \in Queues, Take(q) PROVE Inv'
<1>0. TypeOK
  BY DEF Inv
<1>1. PICK m \in lst[q] :
        /\ m.due <= now /\ lst' = [lst EXCEPT ![q] = @ \ {m}]
        /\ loop' = [loop EXCEPT ![q] = [msg |-> m, handlers |-> Handlers(m),
                                        todo |-> Handlers(m), calling |-> 0]]
        /\ outcome' = IF m.what = "Run" /\ Handlers(m) = {}
                      THEN [outcome EXCEPT ![m.seq] = "cancelled"] ELSE outcome
        /\ UNCHANGED <<kind, sg_seq, now, starttime, after, seq, status, reg, reg_async, thr, thrpc, pc>>
        /\ UNCHANGED object /\ UNCHANGED thread
  BY DEF Take, object, thread
<1>2. PICK hs : hs = Handlers(m)
  OBVIOUS
<1>3. /\ m \in Messages /\ m.seq \in Seqs /\ m.seq # 0 /\ m # NoMessage
      /\ m.what \in {"KALARM", "OnAlarm", "Run"} /\ InPlace(q, m)
  BY <1>0 DEF TypeOK, Messages, NoMessage, Seqs, Inv, Placed
<1>4. /\ hs \subseteq Alarms
      /\ m.what # "KALARM" => hs \subseteq {m.a}
      /\ m.what = "KALARM" => \A b \in hs : reg[b]
  BY <1>2 DEF Handlers
<1>5. /\ lst'[q] = lst[q] \ {m} /\ \A p \in Queues : p # q => lst'[p] = lst[p]
      /\ loop'[q] = [msg |-> m, handlers |-> hs, todo |-> hs, calling |-> 0]
      /\ \A p \in Queues : p # q => loop'[p] = loop[p]
  BY <1>0, <1>1, <1>2 DEF TypeOK
<1>6. loop'[q].msg = m /\ loop'[q].handlers = hs /\ loop'[q].todo = hs /\ loop'[q].calling = 0
  BY <1>5
<1>7. LstShrinks
  BY <1>1, <1>5 DEF LstShrinks
<1>8. TypeOK'
  <2>1. LstType'
    BY <1>0, <1>1 DEF TypeOK, LstType
  <2>2. [msg |-> m, handlers |-> hs, todo |-> hs, calling |-> 0] \in LoopRecords
    BY <1>3, <1>4, AlarmAssumption DEF LoopRecords
  <2>3. LoopType'
    BY <1>0, <1>1, <1>2, <2>2 DEF TypeOK, LoopType, LoopRecords
  <2>4. OutcomeType'
    BY <1>0, <1>1 DEF TypeOK, OutcomeType, Ended
  <2> QED
    BY <1>0, <1>1, <2>1, <2>3, <2>4, TypeKept, TypesNext
<1>9. Placed'
  <2>1. \A p \in Queues : \A n \in lst'[p] : InPlace(p, n)'
    BY <1>1, <1>7 DEF Inv, Placed, InPlace, Queue, LstShrinks
  <2>2. InPlace(q, m)'
    BY <1>1, <1>3 DEF InPlace, Queue
  <2>3. \A p \in Queues : p # q => (InPlace(p, loop[p].msg)' <=> InPlace(p, loop[p].msg))
    BY <1>1, <1>5 DEF InPlace, Queue
  <2> QED
    BY <1>3, <1>4, <1>5, <1>6, <2>1, <2>2, <2>3 DEF Inv, Placed, InPlace, Queue
<1>10. Stages'
  <2> SUFFICES ASSUME NEW b \in Alarms PROVE Stage(b)'
    BY DEF Stages
  <2>0. Stage(b) /\ Queue(b)' = Queue(b) /\ Queue(b) \in Queues /\ "def" \in Queues
    BY <1>1 DEF Inv, Stages, Queue, Queues
  <2>1. Handling(b, "def", {"KALARM"})' => Handling(b, "def", {"KALARM"}) \/ reg[b]
    BY <1>4, <1>5, <1>6, <2>0 DEF Handling
  <2>2. Handling(b, Queue(b), {"OnAlarm", "Run"})' =>
          Handling(b, Queue(b), {"OnAlarm", "Run"}) \/ \E n \in lst[Queue(b)] : n.a = b
    <3> SUFFICES ASSUME Handling(b, Queue(b), {"OnAlarm", "Run"})', Queue(b) = q
                 PROVE  m \in lst[Queue(b)] /\ m.a = b
      BY <1>5, <2>0 DEF Handling
    <3>1. b \in hs /\ m.what # "KALARM"
      BY <1>6, <2>0 DEF Handling
    <3> QED
      BY <1>4, <3>1
  <2>3. lst'[Queue(b)'] \subseteq lst[Queue(b)]
    BY <1>7, <2>0 DEF LstShrinks
  <2> QED
    BY <1>1, <2>0, <2>1, <2>2, <2>3 DEF Stage
<1>11. Fresh'
  <2>1. \A p \in Queues : \A n \in lst'[p] : n.seq < sg_seq
    BY <1>7 DEF Inv, Fresh, LstShrinks
  <2>2. \A p \in Queues : loop'[p].msg.seq < sg_seq
    BY <1>5, <1>6 DEF Inv, Fresh
  <2> QED
    BY <1>1, <2>1, <2>2 DEF Inv, Fresh
<1>12. Late'
  <2> SUFFICES ASSUME NEW b \in Alarms, seq[b] # 0, m.seq = seq[b], m.what # "Run"
               PROVE  now >= starttime[b] + after[b]
    BY <1>1, <1>5, <1>6, <1>7 DEF Inv, Late, LstShrinks
  <2>1. m.due \in Nat /\ now \in Nat /\ starttime[b] \in Nat /\ after[b] \in Nat
    BY <1>0, <1>3, AlarmAssumption DEF TypeOK, Messages
  <2>2. CASE m.what = "KALARM"
    <3>1. m.due >= starttime[b] + after[b]
      BY <2>2 DEF Inv, Late
    <3> QED
      BY <1>1, <2>1, <3>1
  <2>3. CASE m.what = "OnAlarm"
    BY <2>3 DEF Inv, Late
  <2> QED
    BY <1>3, <2>2, <2>3
<1>13. /\ \A p \in Queues : \A n \in lst'[p] : n \in lst[p] /\ (Listed(p, n)' <=> Listed(p, n))
       /\ \A p \in Queues : p # q => (Called(p)' <=> Called(p))
       /\ \A b \in Alarms : Started(b)' <=> Started(b)
       /\ Called(q)' <=> m.what = "Run" /\ hs # {}
       /\ m.what = "Run" => Listed(q, m)
       /\ m \notin lst'[q]
  BY <1>1, <1>5, <1>6, <1>7 DEF Listed, Called, Started, LstShrinks
<1>14. Single'
  BY <1>1, <1>5, <1>6, <1>13 DEF Inv, Single
<1>15. Outcomes'
  <2>1. CASE ~(m.what = "Run" /\ hs = {})
    <3>1. outcome' = outcome
      BY <1>1, <1>2, <2>1
    <3> QED
      BY <1>1, <1>5, <1>6, <1>13, <3>1 DEF Inv, Outcomes
  <2>2. CASE m.what = "Run" /\ hs = {}
    <3>1. outcome[m.seq] = "accepted" /\ Listed(q, m) /\ ~Called(q)'
      BY <1>13, <2>2 DEF Inv, Outcomes
    <3>2. \A t \in Seqs : t # m.seq => outcome'[t] = outcome[t]
      BY <1>0, <1>1 DEF TypeOK
    <3>3. \A t \in Seqs : t >= sg_seq' => outcome'[t] = "none"
      BY <1>1, <3>1, <3>2 DEF Inv, Outcomes
    <3>4. \A b \in Alarms : seq'[b] # 0 => outcome'[seq'[b]] = "waiting"
      <4> TAKE b \in Alarms
      <4> HAVE seq'[b] # 0
      <4>1. seq[b] \in Seqs /\ outcome[seq[b]] = "waiting" /\ seq[b] = seq'[b]
        BY <1>0, <1>1 DEF TypeOK, Seqs, Inv, Outcomes
      <4> QED
        BY <3>1, <3>2, <4>1
    <3>5. ASSUME NEW p \in Queues, NEW n \in lst'[p], Listed(p, n)' PROVE outcome'[n.seq] = "accepted"
      <4>1. n \in lst[p] /\ Listed(p, n) /\ n.seq \in Seqs
        BY <1>0, <1>13, <3>5 DEF TypeOK, Messages
      <4>2. n.seq # m.seq
        BY <1>13, <3>1, <4>1 DEF Inv, Single
      <4> QED
        BY <3>2, <4>1, <4>2 DEF Inv, Outcomes
    <3>6. ASSUME NEW p \in Queues, Called(p)' PROVE outcome'[loop'[p].msg.seq] = "accepted"
      <4>1. p # q /\ Called(p) /\ loop'[p] = loop[p]
        BY <1>5, <1>13, <3>1, <3>6
      <4>2. loop[p].msg.seq \in Seqs /\ loop[p].msg.seq # m.seq
        BY <1>0, <3>1, <4>1 DEF TypeOK, Messages, Called, NoMessage, Inv, Single
      <4> QED
        BY <3>2, <4>1, <4>2 DEF Inv, Outcomes
    <3>7. ASSUME NEW b \in Alarms, Started(b)' PROVE outcome'[thr'[b]] = "accepted"
      <4>1. Started(b) /\ thr'[b] = thr[b] /\ thr[b] \in Seqs
        BY <1>0, <1>1, <1>13, <3>7 DEF TypeOK, Started, Seqs
      <4>2. thr[b] # m.seq
        BY <3>1, <4>1 DEF Inv, Single
      <4> QED
        BY <3>2, <4>1, <4>2 DEF Inv, Outcomes
    <3> QED
      BY <3>3, <3>4, <3>5, <3>6, <3>7 DEF Outcomes
  <2> QED
    BY <2>1, <2>2
<1> QED
  BY <1>8, <1>9, <1>10, <1>11, <1>12, <1>14, <1>15 DEF Inv

(* OnAlarm on the default queue hands a time-out to the alarm's own queue: *)
(* ~Alarm waits for it before it clears that queue.                        *)
LEMMA ForwardStep == ASSUME Inv, NEW q \in Queues, OnAlarmForward(q) PROVE Inv'
<1>0. TypeOK /\ loop[q] \in LoopRecords
  BY DEF Inv, TypeOK, LoopRecords
<1>1. PICK a, n, m :
        /\ a = NextHandler(q) /\ m = loop[q].msg /\ n = Invoke("OnAlarm", a, m.seq)
        /\ loop[q].todo # {} /\ m.what \in {"KALARM", "OnAlarm"} /\ Queue(a) # q
        /\ lst' = [lst EXCEPT ![Queue(a)] = @ \cup {n}]
        /\ loop' = [loop EXCEPT ![q] = [loop[q] EXCEPT !.todo = @ \ {a}]]
        /\ UNCHANGED <<kind, sg_seq, now, starttime, after, seq, status, reg, reg_async, thr, thrpc, pc, outcome>>
        /\ UNCHANGED object /\ UNCHANGED thread
  BY DEF OnAlarmForward, object, thread
<1>2. a \in loop[q].todo /\ a \in Alarms /\ a \in loop[q].handlers
  BY <1>0, <1>1, NextIs DEF Inv, Placed
<1>3. m \in Messages /\ m.seq \in Seqs /\ m # NoMessage
  BY <1>0, <1>1 DEF LoopRecords, Messages, NoMessage
<1>4. m.what = "KALARM" /\ q = "def"
  BY <1>1, <1>2, <1>3 DEF Inv, Placed, InPlace
<1>5. Queue(a) \in Queues
  BY DEF Queue, Queues
<1>6. n.what = "OnAlarm" /\ n.a = a /\ n.seq = m.seq /\ n \in Messages
  BY <1>0, <1>1, <1>2, <1>3, AlarmAssumption DEF Invoke, Messages, Alarms, TypeOK
<1>7. \A p \in Queues : lst'[p] = IF p = Queue(a) THEN lst[p] \cup {n} ELSE lst[p]
  BY <1>0, <1>1, <1>5 DEF TypeOK
<1>8. /\ loop'[q].msg = m /\ loop'[q].handlers = loop[q].handlers
      /\ loop'[q].todo = loop[q].todo \ {a} /\ loop'[q].calling = loop[q].calling
      /\ \A p \in Queues : p # q => loop'[p] = loop[p]
  BY <1>0, <1>1 DEF TypeOK, LoopRecords
<1>9. TypeOK'
  <2>1. LstType'
    BY <1>0, <1>1, <1>5, <1>6 DEF TypeOK, LstType
  <2>2. [loop[q] EXCEPT !.todo = @ \ {a}] \in LoopRecords
    BY <1>0 DEF LoopRecords
  <2>3. LoopType'
    BY <1>0, <1>1, <2>2 DEF TypeOK, LoopType, LoopRecords
  <2> QED
    BY <1>0, <1>1, <2>1, <2>3, TypeKept, TypesNext
<1>10. Placed'
  <2>1. \A p \in Queues : \A k \in lst'[p] : InPlace(p, k)'
    BY <1>1, <1>2, <1>6, <1>7 DEF Inv, Placed, InPlace, Queue
  <2>2. \A p \in Queues : loop'[p].msg = loop[p].msg
    BY <1>1, <1>8
  <2>3. \A p \in Queues : InPlace(p, loop[p].msg)' <=> InPlace(p, loop[p].msg)
    BY <1>1, <2>2 DEF InPlace, Queue
  <2>4. \A p \in Queues : loop'[p].msg # NoMessage => InPlace(p, loop[p].msg)'
    BY <2>2, <2>3 DEF Inv, Placed
  <2> HIDE DEF InPlace
  <2> QED
    BY <1>1, <1>3, <1>8, <2>1, <2>4 DEF Inv, Placed
<1>11. Stages'
  <2> SUFFICES ASSUME NEW b \in Alarms PROVE Stage(b)'
    BY DEF Stages
  <2>0. Stage(b) /\ Queue(b)' = Queue(b) /\ Queue(b) \in Queues /\ "def" \in Queues
    BY <1>1 DEF Inv, Stages, Queue, Queues
  <2>1. /\ Handling(b, "def", {"KALARM"})' => Handling(b, "def", {"KALARM"})
        /\ Handling(b, Queue(b), {"OnAlarm", "Run"})' => Handling(b, Queue(b), {"OnAlarm", "Run"})
    BY <1>1, <1>8, <2>0 DEF Handling
  <2>2. b # a => \A k \in lst'[Queue(b)'] : k.a = b => k \in lst[Queue(b)]
    BY <1>6, <1>7, <2>0
  <2>3. b = a => Handling(b, "def", {"KALARM"})
    BY <1>1, <1>2, <1>4 DEF Handling
  <2>4. pc[b] \in {"asyncwait", "join", "dead"} => b # a
    BY <2>0, <2>3 DEF Stage
  <2> QED
    BY <1>1, <2>0, <2>1, <2>2, <2>4 DEF Stage
<1>12. Fresh'
  <2>1. m.seq < sg_seq
    BY <1>1 DEF Inv, Fresh
  <2> QED
    BY <1>1, <1>6, <1>7, <1>8, <2>1 DEF Inv, Fresh
<1>13. Late'
  <2>1. \A b \in Alarms : seq[b] # 0 /\ m.seq = seq[b] => now >= starttime[b] + after[b]
    BY <1>1, <1>4 DEF Inv, Late
  <2> QED
    BY <1>1, <1>6, <1>7, <1>8, <2>1 DEF Inv, Late
<1>14. /\ \A p \in Queues : \A k \in lst'[p] : Listed(p, k)' => k \in lst[p] /\ Listed(p, k)
       /\ \A p \in Queues : (Called(p)' => Called(p)) /\ loop'[p].msg = loop[p].msg
       /\ \A b \in Alarms : Started(b)' <=> Started(b)
  BY <1>1, <1>4, <1>6, <1>7, <1>8 DEF Listed, Called, Started
<1>15. Single'
  BY <1>1, <1>14 DEF Inv, Single
<1>16. Outcomes'
  BY <1>1, <1>14 DEF Inv, Outcomes
<1> QED
  BY <1>9, <1>10, <1>11, <1>12, <1>13, <1>15, <1>16 DEF Inv

(* OnAlarm accepts the time-out: the alarm waits no more, and its callback *)
(* is the only one on its way for this Start.                              *)
LEMMA AcceptStep == ASSUME Inv, NEW q \in Queues, OnAlarmAccept(q) PROVE Inv'
<1>0. TypeOK /\ loop[q] \in LoopRecords
  BY DEF Inv, TypeOK, LoopRecords
<1>1. PICK a, s :
        /\ a = NextHandler(q) /\ s = seq[a] /\ s = loop[q].msg.seq
        /\ loop[q].todo # {} /\ loop[q].msg.what \in {"KALARM", "OnAlarm"} /\ Queue(a) = q
        /\ status' = [status EXCEPT ![a] = "kOnAlarm"]
        /\ seq' = [seq EXCEPT ![a] = 0]
        /\ loop' = [loop EXCEPT ![q] = [loop[q] EXCEPT !.todo = @ \ {a}]]
        /\ IF kind[a] = "thread"
           THEN /\ thr' = [thr EXCEPT ![a] = IF @ = 0 THEN s ELSE @]
                /\ outcome' = [outcome EXCEPT ![s] = IF thr[a] = 0 THEN "accepted" ELSE "dropped"]
                /\ UNCHANGED lst
           ELSE /\ lst' = [lst EXCEPT ![q] = @ \cup {Invoke("Run", a, s)}]
                /\ outcome' = [outcome EXCEPT ![s] = "accepted"]
                /\ UNCHANGED thr
        /\ UNCHANGED <<kind, sg_seq, now, starttime, after, reg, reg_async, thrpc, pc>>
  BY DEF OnAlarmAccept, Accepts
<1>2. a \in loop[q].todo /\ a \in Alarms /\ a \in loop[q].handlers
  BY <1>0, <1>1, NextIs DEF Inv, Placed
<1>3. s \in Seqs /\ s # 0 /\ outcome[s] = "waiting" /\ pc[a] = "alive"
  <2>1. s = loop[q].msg.seq /\ s = seq[a] /\ loop[q].msg.what # "none"
    BY <1>1
  <2>2. s \in Seqs
    <3>1. loop[q].msg \in Messages \cup {NoMessage}
      BY <1>0 DEF LoopRecords
    <3>2. loop[q].msg \in Messages
      BY <2>1, <3>1 DEF NoMessage
    <3> QED
      BY <2>1, <3>2 DEF Messages
  <2>3. s # 0
    BY <2>2 DEF Seqs
  <2> QED
    BY <1>2, <2>1, <2>2, <2>3 DEF Inv, Outcomes, Stages, Stage
<1>4. /\ loop'[q].msg = loop[q].msg /\ loop'[q].handlers = loop[q].handlers
      /\ loop'[q].todo = loop[q].todo \ {a} /\ loop'[q].calling = loop[q].calling
      /\ \A p \in Queues : p # q => loop'[p] = loop[p]
  BY <1>0, <1>1 DEF TypeOK, LoopRecords
<1>5. /\ seq'[a] = 0
      /\ \A b \in Alarms : b # a => seq'[b] = seq[b] /\ status'[b] = status[b]
      /\ \A b \in Alarms : seq'[b] # s
  <2>1. /\ seq' = [seq EXCEPT ![a] = 0] /\ status' = [status EXCEPT ![a] = "kOnAlarm"]
        /\ s = seq[a]
    BY <1>1
  <2>2. seq'[a] = 0 /\ \A b \in Alarms : b # a => seq'[b] = seq[b] /\ status'[b] = status[b]
    BY <1>0, <1>2, <2>1 DEF TypeOK
  <2> QED
    BY <1>2, <1>3, <2>1, <2>2 DEF Inv, Fresh
<1>6. LoopShrinks /\ SeqShrinks /\ TimeGoesOn
  BY <1>0, <1>1, <1>4, <1>5, AlarmAssumption DEF LoopShrinks, SeqShrinks, TimeGoesOn, TypeOK
<1>7. PICK n : n = Invoke("Run", a, s)
  OBVIOUS
<1>8. n.what = "Run" /\ n.a = a /\ n.seq = s /\ n \in Messages
  BY <1>0, <1>2, <1>3, <1>7, AlarmAssumption DEF Invoke, Messages, Alarms, TypeOK
<1>9. /\ \A p \in Queues : p # q => lst'[p] = lst[p]
      /\ lst'[q] = lst[q] \/ (lst'[q] = lst[q] \cup {n} /\ UNCHANGED thr /\ outcome'[s] = "accepted")
  BY <1>0, <1>1, <1>3, <1>7 DEF TypeOK
<1>10. /\ \A b \in Alarms : b # a => thr'[b] = thr[b]
       /\ \/ thr'[a] = thr[a]
          \/ thr'[a] = s /\ thr[a] = 0 /\ outcome'[s] = "accepted" /\ lst' = lst
  BY <1>0, <1>1, <1>2, <1>3 DEF TypeOK
<1>11. /\ \A t \in Seqs : t # s => outcome'[t] = outcome[t]
       /\ outcome'[s] \in {"accepted", "dropped"}
  BY <1>0, <1>1, <1>3 DEF TypeOK
<1>12. TypeOK'
  <2>1. TimeType' /\ RegType' /\ PcType'
    BY <1>0, <1>1, TypeKept
  <2>2. ObjectType'
    <3>1. /\ seq' = [seq EXCEPT ![a] = 0] /\ status' = [status EXCEPT ![a] = "kOnAlarm"]
          /\ UNCHANGED <<starttime, after>>
      BY <1>1
    <3>2. ObjectType /\ 0 \in 0..MaxSeq
      BY <1>0, Types, AlarmAssumption
    <3> QED
      BY <3>1, <3>2 DEF ObjectType
  <2>3. LstType'
    BY <1>0, <1>1, <1>7, <1>8 DEF TypeOK, LstType
  <2>4. [loop[q] EXCEPT !.todo = @ \ {a}] \in LoopRecords
    BY <1>0 DEF LoopRecords
  <2>5. LoopType'
    BY <1>0, <1>1, <2>4 DEF TypeOK, LoopType, LoopRecords
  <2>6. ThreadType'
    BY <1>0, <1>1, <1>3 DEF TypeOK, ThreadType, Seqs
  <2>7. OutcomeType'
    BY <1>0, <1>1 DEF TypeOK, OutcomeType, Ended
  <2> QED
    BY <2>1, <2>2, <2>3, <2>5, <2>6, <2>7, TypesNext
<1>13. Placed'
  <2>1. \A p \in Queues : \A k \in lst'[p] : InPlace(p, k)'
    BY <1>1, <1>2, <1>8, <1>9 DEF Inv, Placed, InPlace, Queue
  <2>2. \A p \in Queues : loop'[p].msg = loop[p].msg
    BY <1>4
  <2>3. \A p \in Queues : InPlace(p, loop[p].msg)' <=> InPlace(p, loop[p].msg)
    BY <1>1, <2>2 DEF InPlace, Queue
  <2>4. \A p \in Queues : loop'[p].msg # NoMessage => InPlace(p, loop[p].msg)'
    BY <2>2, <2>3 DEF Inv, Placed
  <2> QED
    BY <1>4, <2>1, <2>4 DEF Inv, Placed
<1>14. Stages'
  <2>1. ASSUME NEW b \in Alarms, b # a PROVE Stage(b)'
    <3>0. Stage(b) /\ Queue(b)' = Queue(b) /\ Queue(b) \in Queues /\ "def" \in Queues
      BY <1>1 DEF Inv, Stages, Queue, Queues
    <3>1. /\ Handling(b, "def", {"KALARM"})' => Handling(b, "def", {"KALARM"})
          /\ Handling(b, Queue(b), {"OnAlarm", "Run"})' => Handling(b, Queue(b), {"OnAlarm", "Run"})
      BY <1>4, <3>0 DEF Handling
    <3>2. \A k \in lst'[Queue(b)'] : k.a = b => k \in lst[Queue(b)]
      BY <1>8, <1>9, <2>1, <3>0
    <3> QED
      BY <1>1, <1>5, <1>10, <2>1, <3>0, <3>1, <3>2 DEF Stage
  <2>2. Stage(a)'
    BY <1>1, <1>3 DEF Stage
  <2> QED
    BY <2>1, <2>2 DEF Stages
<1>15. Fresh'
  <2>1. s < sg_seq
    BY <1>1 DEF Inv, Fresh
  <2>2. \A p \in Queues : \A k \in lst'[p] : k.seq < sg_seq
    BY <1>8, <1>9, <2>1 DEF Inv, Fresh
  <2>3. \A p \in Queues : loop'[p].msg.seq < sg_seq
    BY <1>4 DEF Inv, Fresh
  <2>4. \A b \in Alarms : seq'[b] < sg_seq
    BY <1>0, <1>5 DEF Inv, Fresh, TypeOK
  <2>5. \A b, c \in Alarms : seq'[b] = seq'[c] /\ seq'[b] # 0 => b = c
    BY <1>5 DEF Inv, Fresh
  <2> QED
    BY <1>1, <2>2, <2>3, <2>4, <2>5 DEF Fresh
<1>16. Late'
  <2>1. \A p \in Queues : \A k \in lst'[p] : k.what # "Run" => k \in lst[p]
    BY <1>8, <1>9
  <2>2. \A p \in Queues : loop'[p].msg = loop[p].msg
    BY <1>4
  <2> QED
    BY <1>1, <1>5, <2>1, <2>2 DEF Inv, Late
<1>17. /\ \A p \in Queues : \A k \in lst'[p] :
             Listed(p, k)' => \/ k \in lst[p] /\ Listed(p, k) /\ k.seq # s
                              \/ p = q /\ k = n /\ outcome'[s] = "accepted" /\ UNCHANGED thr
       /\ \A p \in Queues : Called(p)' => /\ Called(p) /\ loop'[p].msg = loop[p].msg
                                          /\ loop'[p].msg.seq # s
       /\ \A b \in Alarms :
             Started(b)' => \/ Started(b) /\ thr'[b] = thr[b] /\ thr[b] # s
                            \/ b = a /\ thr'[b] = s /\ outcome'[s] = "accepted" /\ lst' = lst
  <2>1. ASSUME NEW p \in Queues, NEW k \in lst'[p], Listed(p, k)'
        PROVE  \/ k \in lst[p] /\ Listed(p, k) /\ k.seq # s
               \/ p = q /\ k = n /\ outcome'[s] = "accepted" /\ UNCHANGED thr
    BY <1>3, <1>9, <2>1 DEF Listed, Inv, Outcomes
  <2>2. ASSUME NEW p \in Queues, Called(p)'
        PROVE  Called(p) /\ loop'[p].msg = loop[p].msg /\ loop'[p].msg.seq # s
    <3>1. Called(p) /\ loop'[p].msg = loop[p].msg
      BY <1>4, <2>2 DEF Called
    <3> QED
      BY <1>3, <3>1 DEF Inv, Outcomes
  <2>3. ASSUME NEW b \in Alarms, Started(b)'
        PROVE  \/ Started(b) /\ thr'[b] = thr[b] /\ thr[b] # s
               \/ b = a /\ thr'[b] = s /\ outcome'[s] = "accepted" /\ lst' = lst
    BY <1>1, <1>3, <1>10, <2>3 DEF Started, Inv, Outcomes
  <2> QED
    BY <2>1, <2>2, <2>3
<1>18. Single'
  <2>1. \A p, r \in Queues : \A k \in lst'[p], l \in lst'[r] :
          Listed(p, k)' /\ Listed(r, l)' /\ k.seq = l.seq => p = r /\ k = l
    BY <1>8, <1>17 DEF Inv, Single
  <2>2. \A p, r \in Queues : \A k \in lst'[p] :
          Listed(p, k)' /\ Called(r)' => k.seq # loop'[r].msg.seq
    BY <1>8, <1>17 DEF Inv, Single
  <2>3. \A p \in Queues, b \in Alarms : \A k \in lst'[p] :
          Listed(p, k)' /\ Started(b)' => k.seq # thr'[b]
    BY <1>3, <1>8, <1>17 DEF Inv, Single, Started, Outcomes, Listed
  <2>4. \A p, r \in Queues : Called(p)' /\ Called(r)' /\ loop'[p].msg.seq = loop'[r].msg.seq => p = r
    BY <1>17 DEF Inv, Single
  <2>5. \A p \in Queues, b \in Alarms : Called(p)' /\ Started(b)' => loop'[p].msg.seq # thr'[b]
    BY <1>17 DEF Inv, Single
  <2>6. \A b, c \in Alarms : Started(b)' /\ Started(c)' /\ thr'[b] = thr'[c] => b = c
    BY <1>17 DEF Inv, Single
  <2> QED
    BY <2>1, <2>2, <2>3, <2>4, <2>5, <2>6 DEF Single
<1>19. Outcomes'
  <2>1. \A t \in Seqs : t >= sg_seq' => outcome'[t] = "none"
    BY <1>1, <1>3, <1>11 DEF Inv, Outcomes
  <2>2. \A b \in Alarms : seq'[b] # 0 => outcome'[seq'[b]] = "waiting"
    <3> TAKE b \in Alarms
    <3> HAVE seq'[b] # 0
    <3>1. seq'[b] = seq[b] /\ seq[b] \in Seqs /\ seq[b] # s
      BY <1>0, <1>5 DEF TypeOK, Seqs
    <3> QED
      BY <1>11, <3>1 DEF Inv, Outcomes
  <2>3. ASSUME NEW p \in Queues, NEW k \in lst'[p], Listed(p, k)' PROVE outcome'[k.seq] = "accepted"
    <3>1. CASE k.seq = s
      BY <1>17, <2>3, <3>1
    <3>2. CASE k.seq # s
      <4>1. k \in lst[p] /\ Listed(p, k) /\ k.seq \in Seqs
        BY <1>0, <1>8, <1>17, <2>3, <3>2 DEF TypeOK, Messages
      <4> QED
        BY <1>11, <3>2, <4>1 DEF Inv, Outcomes
    <3> QED
      BY <3>1, <3>2
  <2>4. ASSUME NEW p \in Queues, Called(p)' PROVE outcome'[loop'[p].msg.seq] = "accepted"
    <3>1. Called(p) /\ loop'[p].msg = loop[p].msg /\ loop[p].msg.seq # s
      BY <1>17, <2>4
    <3>2. loop[p].msg.seq \in Seqs
      BY <1>0, <3>1 DEF TypeOK, Messages, Called, NoMessage
    <3> QED
      BY <1>11, <3>1, <3>2 DEF Inv, Outcomes
  <2>5. ASSUME NEW b \in Alarms, Started(b)' PROVE outcome'[thr'[b]] = "accepted"
    <3>1. CASE thr'[b] = s
      BY <1>17, <2>5, <3>1
    <3>2. CASE thr'[b] # s
      <4>1. Started(b) /\ thr'[b] = thr[b] /\ thr[b] \in Seqs
        BY <1>0, <1>17, <2>5, <3>2 DEF TypeOK, Started, Seqs
      <4> QED
        BY <1>11, <3>2, <4>1 DEF Inv, Outcomes
    <3> QED
      BY <3>1, <3>2
  <2> QED
    BY <2>1, <2>2, <2>3, <2>4, <2>5 DEF Outcomes
<1> QED
  BY <1>12, <1>13, <1>14, <1>15, <1>16, <1>18, <1>19 DEF Inv

-----------------------------------------------------------------------------
(* Every step keeps the invariant.                                         *)
LEMMA NextInv == Inv /\ [Next]_vars => Inv'
<1> SUFFICES ASSUME Inv, [Next]_vars PROVE Inv'
  OBVIOUS
<1>1. CASE UNCHANGED vars
  <2>0. TypeOK
    BY DEF Inv
  <2>1. /\ UNCHANGED <<kind, sg_seq, now, lst, loop, starttime, after, reg, reg_async, pc, outcome>>
        /\ UNCHANGED object /\ UNCHANGED thread
    BY <1>1 DEF vars, queues, object
  <2>2. TypeOK'
    BY <2>0, <2>1, TypeKept, TypesNext
  <2>3. LstShrinks /\ LoopShrinks /\ SeqShrinks /\ ThreadShrinks /\ TimeGoesOn /\ OutcomesKeep
    BY <2>0, <2>1, Unchanging
  <2>4. Stages'
    BY <2>1, <2>3, StagesKept DEF Inv
  <2> QED
    BY <2>2, <2>3, <2>4, QuietInv
<1>2. ASSUME NEW a \in Alarms, Client(a) \/ DestroyCancel(a) \/ Destroy(a) \/ RunThread(a)
      PROVE  Inv'
  BY <1>2, StartStep, CancelStep, DestroyStep, ThreadRuns DEF Client
<1>3. ASSUME NEW q \in Queues, Loop(q) PROVE Inv'
  BY <1>3, TakeStep, ForwardStep, AcceptStep, LoopEnds DEF Loop
<1> QED
  BY <1>1, <1>2, <1>3, Waits DEF Next

LEMMA Invariant == Spec => []Inv
BY InitInv, NextInv, PTL DEF Spec

-----------------------------------------------------------------------------
(* The types are kept, in particular a callback never runs for a Start     *)
(* that was not accepted just before (outcome is never "wrong").           *)
THEOREM TypeCorrect == Spec => []TypeOK
<1>1. Inv => TypeOK
  BY DEF Inv
<1> QED
  BY <1>1, Invariant, PTL

(* ~Alarm (alarm.h:74) leaves no gap: after it, no queue and no thread     *)
(* will touch the alarm, for any number of alarms on any mix of queues.    *)
THEOREM DestroyedAlarmIsSilent == Spec => []DestroyedIsSilent
<1>1. Inv => DestroyedIsSilent
  <2> SUFFICES ASSUME Inv, NEW a \in Alarms, pc[a] = "dead", NEW q \in Queues
               PROVE  /\ thr[a] = 0 /\ a \notin loop[q].todo /\ loop[q].calling # a
                      /\ \A m \in lst[q] : m.a # a
    BY DEF DestroyedIsSilent, Queues
  <2>1. a # 0 /\ Stage(a) /\ "def" \in Queues
    BY AlarmAssumption DEF Inv, Stages, Alarms, Queues
  <2>2. \A m \in lst[q] : m.a # a
    BY <2>1 DEF Inv, Placed, InPlace, Stage
  <2>3. a \notin loop[q].handlers
    <3> SUFFICES ASSUME a \in loop[q].handlers PROVE FALSE
      OBVIOUS
    <3>1. loop[q].msg \in Messages /\ InPlace(q, loop[q].msg)
      BY DEF Inv, TypeOK, Placed
    <3>2. CASE loop[q].msg.what = "KALARM"
      BY <2>1, <3>1, <3>2 DEF InPlace, Stage, Handling
    <3>3. CASE loop[q].msg.what \in {"OnAlarm", "Run"}
      <4>1. a = loop[q].msg.a /\ q = Queue(a)
        BY <3>1, <3>3 DEF Inv, Placed, InPlace
      <4> QED
        BY <2>1, <3>3, <4>1 DEF Stage, Handling
    <3> QED
      BY <3>1, <3>2, <3>3 DEF Messages
  <2> QED
    BY <2>1, <2>2, <2>3 DEF Inv, Placed, Stage
<1> QED
  BY <1>1, Invariant, PTL

(* No time-out is accepted before the delay of the Start in force has      *)
(* passed (alarm.cc:116), whichever messages of cancelled Starts, of other *)
(* alarms or forwarded between queues are still on their way.              *)
THEOREM NeverEarly == Spec => NotEarly
<1>1. Inv /\ [Next]_vars =>
        [\A a \in Alarms :
           (status[a] # "kOnAlarm" /\ status'[a] = "kOnAlarm") =>
             status[a] = "kStart" /\ now >= starttime[a] + after[a]]_vars
  <2> SUFFICES ASSUME Inv, Next, NEW a \in Alarms, status[a] # "kOnAlarm", status'[a] = "kOnAlarm"
               PROVE  status[a] = "kStart" /\ now >= starttime[a] + after[a]
    OBVIOUS
  <2>0. TypeOK
    BY DEF Inv
  <2>1. PICK q \in Queues : OnAlarmAccept(q)
    <3>1. ASSUME NEW q \in Queues, Loop(q), ~OnAlarmAccept(q) PROVE FALSE
      BY <3>1 DEF Loop, Take, OnAlarmForward, OnAlarmIgnore, RunBegin, RunEnd, Done, object
    <3>2. ASSUME NEW b \in Alarms, Client(b) \/ DestroyCancel(b) PROVE FALSE
      BY <2>0, <3>2 DEF Client, Cancel, Start, DestroyCancel, CancelBody, TypeOK
    <3>3. ASSUME NEW b \in Alarms, Destroy(b) \/ RunThread(b) PROVE FALSE
      BY <3>3 DEF Destroy, RunThread, ThreadRunBegin, ThreadRunEnd, DestroyReg, DestroyRegWait,
                  DestroyAsync, DestroyAsyncMessages, DestroyAsyncWait, DestroyJoin, object
    <3>4. ASSUME Tick PROVE FALSE
      BY <3>4 DEF Tick, object
    <3> QED
      BY <3>1, <3>2, <3>3, <3>4 DEF Next
  <2>2. /\ status' = [status EXCEPT ![NextHandler(q)] = "kOnAlarm"] /\ loop[q].todo # {}
        /\ seq[NextHandler(q)] = loop[q].msg.seq /\ loop[q].msg.what \in {"KALARM", "OnAlarm"}
    BY <2>1 DEF OnAlarmAccept, Accepts
  <2>3. a = NextHandler(q)
    BY <2>0, <2>2 DEF TypeOK
  <2>4. seq[a] # 0
    <3>1. loop[q].msg \in Messages
      BY <2>0, <2>2 DEF TypeOK, NoMessage
    <3> QED
      BY <2>2, <2>3, <3>1 DEF Messages, Seqs
  <2> QED
    BY <2>2, <2>3, <2>4 DEF Inv, Late
<1> QED
  BY <1>1, Invariant, PTL DEF Spec, NotEarly

(* Each Start comes to one end (alarm.cc:72 and 116): the callback runs    *)
(* once, or the Start is cancelled or dropped and the callback never runs, *)
(* however Cancel, the queues and runthread_ interleave.                   *)
THEOREM OneOutcomePerStart == Spec => OneOutcome
<1>1. Inv /\ [Next]_vars =>
        [\A s \in Seqs : outcome'[s] # outcome[s] => <<outcome[s], outcome'[s]>> \in Course]_vars
  <2> SUFFICES ASSUME Inv, Next, NEW s \in Seqs, outcome'[s] # outcome[s]
               PROVE  <<outcome[s], outcome'[s]>> \in Course
    OBVIOUS
  <2>0. TypeOK
    BY DEF Inv
  <2>1. ASSUME NEW a \in Alarms, s \in Undone(a), outcome'[s] = "cancelled"
        PROVE  <<outcome[s], outcome'[s]>> \in Course
    <3>1. s # 0 /\ Queue(a) \in Queues
      BY DEF Seqs, Queue, Queues
    <3>2. outcome[s] \in {"waiting", "accepted"}
      BY <2>1, <3>1 DEF Undone, Inv, Outcomes, Listed
    <3> QED
      BY <2>1, <3>2 DEF Course
  <2>2. ASSUME NEW a \in Alarms, Cancel(a) \/ DestroyCancel(a) \/ DestroyAsyncMessages(a)
        PROVE  <<outcome[s], outcome'[s]>> \in Course
    <3>1. outcome' = [t \in Seqs |-> IF t \in Undone(a) THEN "cancelled" ELSE outcome[t]]
      BY <2>2 DEF Cancel, DestroyCancel, DestroyAsyncMessages, CancelBody
    <3> QED
      BY <2>1, <3>1
  <2>3. ASSUME NEW a \in Alarms, NEW d \in Afters, Start(a, d)
        PROVE  <<outcome[s], outcome'[s]>> \in Course
    <3>1. outcome' = [outcome EXCEPT ![sg_seq] = "waiting"]
      BY <2>3 DEF Start
    <3>2. s = sg_seq /\ outcome'[s] = "waiting"
      BY <2>0, <3>1 DEF TypeOK
    <3>3. outcome[s] = "none"
      BY <2>0, <3>2 DEF Inv, Outcomes, TypeOK
    <3> QED
      BY <3>2, <3>3 DEF Course
  <2>4. ASSUME NEW a \in Alarms, RunThread(a) PROVE <<outcome[s], outcome'[s]>> \in Course
    <3>1. Started(a) /\ outcome' = Ran(thr[a])
      BY <2>4 DEF RunThread, ThreadRunBegin, ThreadRunEnd, Started
    <3>2. outcome[thr[a]] = "accepted"
      BY <3>1 DEF Inv, Outcomes
    <3>3. s = thr[a] /\ outcome'[s] = "ran"
      BY <2>0, <3>1, <3>2 DEF Ran, TypeOK
    <3> QED
      BY <3>2, <3>3 DEF Course
  <2>5. ASSUME NEW q \in Queues, RunBegin(q) PROVE <<outcome[s], outcome'[s]>> \in Course
    <3>1. Called(q) /\ outcome' = Ran(loop[q].msg.seq)
      BY <2>5 DEF RunBegin, Called
    <3>2. outcome[loop[q].msg.seq] = "accepted"
      BY <3>1 DEF Inv, Outcomes
    <3>3. s = loop[q].msg.seq /\ outcome'[s] = "ran"
      BY <2>0, <3>1, <3>2 DEF Ran, TypeOK
    <3> QED
      BY <3>2, <3>3 DEF Course
  <2>6. ASSUME NEW q \in Queues, Take(q) PROVE <<outcome[s], outcome'[s]>> \in Course
    <3>1. PICK m \in lst[q] : m.what = "Run" /\ outcome' = [outcome EXCEPT ![m.seq] = "cancelled"]
      BY <2>6 DEF Take
    <3>2. s = m.seq /\ outcome'[s] = "cancelled"
      BY <2>0, <3>1 DEF TypeOK
    <3>3. outcome[s] = "accepted"
      BY <3>1, <3>2 DEF Inv, Outcomes, Listed
    <3> QED
      BY <3>2, <3>3 DEF Course
  <2>7. ASSUME NEW q \in Queues, OnAlarmAccept(q) PROVE <<outcome[s], outcome'[s]>> \in Course
    <3>1. PICK a, e : /\ a = NextHandler(q) /\ loop[q].todo # {} /\ e \in {"accepted", "dropped"}
                      /\ outcome' = [outcome EXCEPT ![seq[a]] = e]
      <4>1. \/ outcome' = [outcome EXCEPT ![seq[NextHandler(q)]] = "accepted"]
            \/ outcome' = [outcome EXCEPT ![seq[NextHandler(q)]] = "dropped"]
        BY <2>7 DEF OnAlarmAccept
      <4> QED
        BY <2>7, <4>1 DEF OnAlarmAccept
    <3>2. a \in Alarms
      BY <2>0, <3>1, NextIs
    <3>3. s = seq[a] /\ outcome'[s] = e
      BY <2>0, <3>1 DEF TypeOK
    <3>4. s # 0
      BY DEF Seqs
    <3>5. outcome[s] = "waiting"
      BY <3>2, <3>3, <3>4 DEF Inv, Outcomes
    <3> QED
      BY <3>1, <3>3, <3>5 DEF Course
  <2>8. ASSUME NEW a \in Alarms, Destroy(a), ~DestroyAsyncMessages(a) PROVE FALSE
    BY <2>8 DEF Destroy, DestroyReg, DestroyRegWait, DestroyAsync, DestroyAsyncWait, DestroyJoin
  <2>9. ASSUME NEW q \in Queues, OnAlarmForward(q) \/ OnAlarmIgnore(q) \/ RunEnd(q) \/ Done(q)
        PROVE  FALSE
    BY <2>9 DEF OnAlarmForward, OnAlarmIgnore, RunEnd, Done
  <2>10. ~Tick
    BY DEF Tick
  <2>11. ASSUME NEW a \in Alarms, Client(a) \/ DestroyCancel(a) \/ Destroy(a) \/ RunThread(a)
         PROVE  <<outcome[s], outcome'[s]>> \in Course
    BY <2>2, <2>3, <2>4, <2>8, <2>11 DEF Client
  <2>12. ASSUME NEW q \in Queues, Loop(q) PROVE <<outcome[s], outcome'[s]>> \in Course
    BY <2>5, <2>6, <2>7, <2>9, <2>12 DEF Loop
  <2> QED
    BY <2>10, <2>11, <2>12 DEF Next
<1> QED
  BY <1>1, Invariant, PTL DEF Spec, OneOutcome

=============================================================================
