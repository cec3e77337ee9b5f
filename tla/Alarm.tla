-------------------------------- MODULE Alarm --------------------------------
(***************************************************************************)
(* class Alarm of mars/comm/alarm.h and alarm.cc.  Start broadcasts a      *)
(* delayed message with a fresh sequence number on the default queue;      *)
(* every Alarm's OnAlarm sees every such message, hands it to its own      *)
(* queue if that is another one, and accepts it if the number is the one   *)
(* it waits for.  The callback then runs on runthread_ or as an            *)
(* asynchronous invoke on the alarm's queue.  Clients start, cancel and    *)
(* destroy alarms while the queues run.  Alarms are numbered in the order  *)
(* in which their handlers were installed.  The Android branches are not   *)
(* part of the build modelled here.                                        *)
(***************************************************************************)
EXTENDS Integers

CONSTANTS
  N,        \* number of alarms
  Built,    \* how the alarms may have been constructed
  Afters,   \* the delays clients ask for
  MaxSeq,   \* bound: successful Starts
  MaxTime   \* bound: the clock

(* The two constructors: on the default queue, with the callback on        *)
(* runthread_ ("thread") or not ("same"), or on a given queue ("other").   *)
Kinds == {"thread", "same", "other"}

ASSUME AlarmAssumption ==
  N \in Nat /\ Built \subseteq [1..N -> Kinds]
  /\ Afters \subseteq Nat /\ MaxSeq \in Nat /\ MaxTime \in Nat

Alarms == 1..N
Seqs == 1..MaxSeq
Queues == {"def", "other"}

VARIABLES
  kind,       \* how each alarm was constructed
  sg_seq, now,
  seq,        \* seq_, 0 when the alarm is not waiting
  status, starttime, after,
  lst,        \* lst_message of each queue: alarm messages and invokes, no two
              \* alike; which of several due ones comes first is left open
  loop,       \* what each queue's loop is at: the message, the handlers
              \* it found for it, and those still to be called
  reg, reg_async, \* is the handler installed?
  thr,        \* runthread_: 0 when it is not running, else the Start it serves
  thrpc,
  pc,         \* where the destructor of each alarm is
  outcome     \* history: what became of each Start

queues == <<lst, loop>>
object == <<seq, status, starttime, after>>
thread == <<thr, thrpc>>
vars == <<kind, sg_seq, now, object, queues, reg, reg_async, thread, pc, outcome>>

Queue(a) == IF kind[a] = "other" THEN "other" ELSE "def"

Broadcast(s, due) == [what |-> "KALARM", a |-> 0, seq |-> s, due |-> due]
Invoke(f, a, s) == [what |-> f, a |-> a, seq |-> s, due |-> now]
NoMessage == [what |-> "none", a |-> 0, seq |-> 0, due |-> 0]
Messages == [what : {"KALARM", "OnAlarm", "Run"}, a : 0..N, seq : Seqs, due : 0..MaxTime]
Idle == [msg |-> NoMessage, handlers |-> {}, todo |-> {}, calling |-> 0]

(* History: what may become of a Start, step by step.                      *)
Ended == {"ran", "cancelled", "dropped"}
Course == {<<"none", "waiting">>, <<"waiting", "accepted">>, <<"waiting", "cancelled">>,
           <<"waiting", "dropped">>, <<"accepted", "ran">>, <<"accepted", "cancelled">>}
Ran(s) == [outcome EXCEPT ![s] = IF @ = "accepted" THEN "ran" ELSE "wrong"]

-----------------------------------------------------------------------------
(* Clients.                                                                *)

Start(a, d) ==
  /\ pc[a] = "alive" /\ seq[a] = 0
  /\ sg_seq <= MaxSeq /\ now + d <= MaxTime
  /\ sg_seq' = sg_seq + 1
  /\ lst' = [lst EXCEPT !["def"] = @ \cup {Broadcast(sg_seq, now + d)}]
  /\ status' = [status EXCEPT ![a] = "kStart"]
  /\ starttime' = [starttime EXCEPT ![a] = now]
  /\ after' = [after EXCEPT ![a] = d]
  /\ seq' = [seq EXCEPT ![a] = sg_seq]
  /\ outcome' = [outcome EXCEPT ![sg_seq] = "waiting"]
  /\ UNCHANGED <<kind, now, loop, reg, reg_async, thread, pc>>

(* Mutant of CancelMessages: what was handed to the queue stays there.     *)
CancelNoMessages(a) == UNCHANGED lst

(* CancelMessage(reg_async_.Get()).                                        *)
CancelMessages(a) ==
  lst' = [lst EXCEPT ![Queue(a)] = {m \in @ : m.a # a}]

(* The Starts that a Cancel of a undoes: the one it waits for, and those   *)
(* whose callback is still in its queue.                                   *)
Undone(a) ==
  {s \in Seqs : s = seq[a] \/ \E m \in lst[Queue(a)] : m.what = "Run" /\ m.a = a /\ m.seq = s}

CancelBody(a) ==
  /\ CancelMessages(a)
  /\ status' = [status EXCEPT ![a] = IF seq[a] = 0 THEN @ ELSE "kCancel"]
  /\ seq' = [seq EXCEPT ![a] = 0]
  /\ outcome' = [s \in Seqs |-> IF s \in Undone(a) THEN "cancelled" ELSE outcome[s]]

Cancel(a) ==
  /\ pc[a] = "alive"
  /\ CancelBody(a)
  /\ UNCHANGED <<kind, sg_seq, now, starttime, after, loop, reg, reg_async, thread, pc>>

-----------------------------------------------------------------------------
(* The destructor, by a thread that is not one of the queues'.             *)

(* a's handlers that a queue has found for its message, called or not.     *)
Handling(a, q, what) == a \in loop[q].handlers /\ loop[q].msg.what \in what

DestroyCancel(a) ==
  /\ pc[a] = "alive"
  /\ CancelBody(a)
  /\ pc' = [pc EXCEPT ![a] = "reg"]
  /\ UNCHANGED <<kind, sg_seq, now, starttime, after, loop, reg, reg_async, thread>>

(* reg_.CancelAndWait: no message is posted to reg_ itself.                *)
DestroyReg(a) ==
  /\ pc[a] = "reg"
  /\ reg' = [reg EXCEPT ![a] = FALSE]
  /\ pc' = [pc EXCEPT ![a] = "regwait"]
  /\ UNCHANGED <<kind, sg_seq, now, object, queues, reg_async, thread, outcome>>

DestroyRegWait(a) ==
  /\ pc[a] = "regwait"
  /\ ~Handling(a, "def", {"KALARM"})
  /\ pc' = [pc EXCEPT ![a] = "async"]
  /\ UNCHANGED <<kind, sg_seq, now, object, queues, reg, reg_async, thread, outcome>>

(* reg_async_.CancelAndWait: uninstall, cancel the messages, wait.         *)
DestroyAsync(a) ==
  /\ pc[a] = "async"
  /\ reg_async' = [reg_async EXCEPT ![a] = FALSE]
  /\ pc' = [pc EXCEPT ![a] = "asyncmsgs"]
  /\ UNCHANGED <<kind, sg_seq, now, object, queues, reg, thread, outcome>>

DestroyAsyncMessages(a) ==
  /\ pc[a] = "asyncmsgs"
  /\ CancelMessages(a)
  /\ outcome' = [s \in Seqs |-> IF s \in Undone(a) THEN "cancelled" ELSE outcome[s]]
  /\ pc' = [pc EXCEPT ![a] = "asyncwait"]
  /\ UNCHANGED <<kind, sg_seq, now, object, loop, reg, reg_async, thread>>

(* Mutant of DestroyAsyncWait: Cancel in place of CancelAndWait.           *)
DestroyAsyncNoWait(a) ==
  /\ pc[a] = "asyncwait"
  /\ pc' = [pc EXCEPT ![a] = "join"]
  /\ UNCHANGED <<kind, sg_seq, now, object, queues, reg, reg_async, thread, outcome>>

DestroyAsyncWait(a) ==
  /\ pc[a] = "asyncwait"
  /\ ~Handling(a, Queue(a), {"OnAlarm", "Run"})
  /\ pc' = [pc EXCEPT ![a] = "join"]
  /\ UNCHANGED <<kind, sg_seq, now, object, queues, reg, reg_async, thread, outcome>>

(* runthread_.join(), and target_ is deleted.                              *)
DestroyJoin(a) ==
  /\ pc[a] = "join"
  /\ thr[a] = 0
  /\ pc' = [pc EXCEPT ![a] = "dead"]
  /\ UNCHANGED <<kind, sg_seq, now, object, queues, reg, reg_async, thread, outcome>>

-----------------------------------------------------------------------------
(* The queues' loops.                                                      *)

(* Mutant of Handlers: a broadcast ends at the first handler that fits.    *)
FirstHandler(m) ==
  LET fit == IF m.what = "KALARM" THEN {a \in Alarms : reg[a]}
             ELSE {a \in Alarms : a = m.a /\ reg_async[a]}
  IN {a \in fit : \A b \in fit : a <= b}

(* A due message leaves the list and the loop collects its handlers; an    *)
(* invoke whose handler is gone is deleted without a call.                 *)
Handlers(m) == IF m.what = "KALARM" THEN {a \in Alarms : reg[a]}
               ELSE {a \in Alarms : a = m.a /\ reg_async[a]}

Take(q) ==
  /\ loop[q] = Idle
  /\ \E m \in lst[q] : LET hs == Handlers(m) IN
        /\ m.due <= now
        /\ lst' = [lst EXCEPT ![q] = @ \ {m}]
        /\ loop' = [loop EXCEPT ![q] = [msg |-> m, handlers |-> hs, todo |-> hs, calling |-> 0]]
        /\ outcome' = IF m.what = "Run" /\ hs = {} THEN [outcome EXCEPT ![m.seq] = "cancelled"]
                      ELSE outcome
  /\ UNCHANGED <<kind, sg_seq, now, object, reg, reg_async, thread, pc>>

NextHandler(q) == CHOOSE a \in loop[q].todo : \A b \in loop[q].todo : a <= b

(* Mutant of Accepts: any time-out is taken for the awaited one.           *)
AcceptsAny(a, m) == seq[a] # 0

Accepts(a, m) == seq[a] = m.seq

(* OnAlarm hands the message to the alarm's own queue ...                  *)
OnAlarmForward(q) ==
  LET m == loop[q].msg
      a == NextHandler(q)
  IN /\ loop[q].todo # {} /\ m.what \in {"KALARM", "OnAlarm"} /\ Queue(a) # q
     /\ lst' = [lst EXCEPT ![Queue(a)] = @ \cup {Invoke("OnAlarm", a, m.seq)}]
     /\ loop' = [loop EXCEPT ![q].todo = @ \ {a}]
     /\ UNCHANGED <<kind, sg_seq, now, object, reg, reg_async, thread, pc, outcome>>

(* ... or ignores it, when the alarm was cancelled or waits for another ... *)
OnAlarmIgnore(q) ==
  LET m == loop[q].msg
      a == NextHandler(q)
  IN /\ loop[q].todo # {} /\ m.what \in {"KALARM", "OnAlarm"} /\ Queue(a) = q
     /\ ~Accepts(a, m)
     /\ loop' = [loop EXCEPT ![q].todo = @ \ {a}]
     /\ UNCHANGED <<kind, sg_seq, now, object, lst, reg, reg_async, thread, pc, outcome>>

(* ... or accepts it: the callback is handed to runthread_, whose start()  *)
(* does nothing while it is still running, or posted to the queue.         *)
OnAlarmAccept(q) ==
  LET m == loop[q].msg
      a == NextHandler(q)
      s == seq[a]
  IN /\ loop[q].todo # {} /\ m.what \in {"KALARM", "OnAlarm"} /\ Queue(a) = q
     /\ Accepts(a, m)
     /\ status' = [status EXCEPT ![a] = "kOnAlarm"]
     /\ seq' = [seq EXCEPT ![a] = 0]
     /\ loop' = [loop EXCEPT ![q].todo = @ \ {a}]
     /\ IF kind[a] = "thread"
        THEN /\ thr' = [thr EXCEPT ![a] = IF @ = 0 THEN s ELSE @]
             /\ outcome' = [outcome EXCEPT ![s] = IF thr[a] = 0 THEN "accepted" ELSE "dropped"]
             /\ UNCHANGED lst
        ELSE /\ lst' = [lst EXCEPT ![q] = @ \cup {Invoke("Run", a, s)}]
             /\ outcome' = [outcome EXCEPT ![s] = "accepted"]
             /\ UNCHANGED thr
     /\ UNCHANGED <<kind, sg_seq, now, starttime, after, reg, reg_async, thrpc, pc>>

(* __Run on the queue: target_->run() begins, and returns.                 *)
RunBegin(q) ==
  /\ loop[q].msg.what = "Run" /\ loop[q].todo # {}
  /\ loop' = [loop EXCEPT ![q].todo = {}, ![q].calling = NextHandler(q)]
  /\ outcome' = Ran(loop[q].msg.seq)
  /\ UNCHANGED <<kind, sg_seq, now, object, lst, reg, reg_async, thread, pc>>

RunEnd(q) ==
  /\ loop[q].calling # 0
  /\ loop' = [loop EXCEPT ![q].calling = 0]
  /\ UNCHANGED <<kind, sg_seq, now, object, lst, reg, reg_async, thread, pc, outcome>>

(* The handlers have returned: the loop's next turn forgets them and       *)
(* notifies who waits for them.                                            *)
Done(q) ==
  /\ loop[q] # Idle /\ loop[q].todo = {} /\ loop[q].calling = 0
  /\ loop' = [loop EXCEPT ![q] = Idle]
  /\ UNCHANGED <<kind, sg_seq, now, object, lst, reg, reg_async, thread, pc, outcome>>

-----------------------------------------------------------------------------
(* runthread_.                                                             *)

ThreadRunBegin(a) ==
  /\ thr[a] # 0 /\ thrpc[a] = "init"
  /\ thrpc' = [thrpc EXCEPT ![a] = "run"]
  /\ outcome' = Ran(thr[a])
  /\ UNCHANGED <<kind, sg_seq, now, object, queues, reg, reg_async, thr, pc>>

ThreadRunEnd(a) ==
  /\ thrpc[a] = "run"
  /\ thrpc' = [thrpc EXCEPT ![a] = "init"]
  /\ thr' = [thr EXCEPT ![a] = 0]
  /\ UNCHANGED <<kind, sg_seq, now, object, queues, reg, reg_async, pc, outcome>>

Tick ==
  /\ now < MaxTime
  /\ now' = now + 1
  /\ UNCHANGED <<kind, sg_seq, object, queues, reg, reg_async, thread, pc, outcome>>

-----------------------------------------------------------------------------
Init ==
  /\ kind \in Built
  /\ sg_seq = 1 /\ now = 0
  /\ seq = [a \in Alarms |-> 0]
  /\ status = [a \in Alarms |-> "kInit"]
  /\ starttime = [a \in Alarms |-> 0]
  /\ after = [a \in Alarms |-> 0]
  /\ lst = [q \in Queues |-> {}]
  /\ loop = [q \in Queues |-> Idle]
  /\ reg = [a \in Alarms |-> TRUE]
  /\ reg_async = [a \in Alarms |-> TRUE]
  /\ thr = [a \in Alarms |-> 0]
  /\ thrpc = [a \in Alarms |-> "init"]
  /\ pc = [a \in Alarms |-> "alive"]
  /\ outcome = [s \in Seqs |-> "none"]

Client(a) == Cancel(a) \/ \E d \in Afters : Start(a, d)
Destroy(a) ==
  \/ DestroyReg(a) \/ DestroyRegWait(a)
  \/ DestroyAsync(a) \/ DestroyAsyncMessages(a) \/ DestroyAsyncWait(a)
  \/ DestroyJoin(a)
Loop(q) ==
  \/ Take(q) \/ OnAlarmForward(q) \/ OnAlarmIgnore(q) \/ OnAlarmAccept(q)
  \/ RunBegin(q) \/ RunEnd(q) \/ Done(q)
RunThread(a) == ThreadRunBegin(a) \/ ThreadRunEnd(a)

Next ==
  \/ \E a \in Alarms : Client(a) \/ DestroyCancel(a) \/ Destroy(a) \/ RunThread(a)
  \/ \E q \in Queues : Loop(q)
  \/ Tick

Spec == Init /\ [][Next]_vars

(* The queue threads and runthread_ are scheduled, callbacks return and    *)
(* time passes; clients call what they like, but finish a destructor.      *)
FairSpec ==
  /\ Spec
  /\ \A q \in Queues : WF_vars(Loop(q))
  /\ \A a \in Alarms : WF_vars(RunThread(a)) /\ WF_vars(Destroy(a))
  /\ WF_vars(Tick)

-----------------------------------------------------------------------------
(* Types of the variables.                                                 *)
TypeOK ==
  /\ kind \in [Alarms -> Kinds]
  /\ sg_seq \in 1..(MaxSeq + 1) /\ now \in 0..MaxTime
  /\ seq \in [Alarms -> 0..MaxSeq]
  /\ status \in [Alarms -> {"kInit", "kStart", "kCancel", "kOnAlarm"}]
  /\ starttime \in [Alarms -> 0..MaxTime]
  /\ after \in [Alarms -> Nat]
  /\ lst \in [Queues -> SUBSET Messages]
  /\ loop \in [Queues -> [msg : Messages \cup {NoMessage}, handlers : SUBSET Alarms,
                          todo : SUBSET Alarms, calling : 0..N]]
  /\ reg \in [Alarms -> BOOLEAN] /\ reg_async \in [Alarms -> BOOLEAN]
  /\ thr \in [Alarms -> 0..MaxSeq] /\ thrpc \in [Alarms -> {"init", "run"}]
  /\ pc \in [Alarms -> {"alive", "reg", "regwait", "async", "asyncmsgs", "asyncwait", "join", "dead"}]
  /\ outcome \in [Seqs -> {"none", "waiting", "accepted"} \cup Ended]

(* ~Alarm (alarm.h:74): once target_ is deleted no queue calls the alarm,  *)
(* runs its callback or holds a message for it, and runthread_ has ended:  *)
(* the order Cancel, reg_, reg_async_, join leaves no gap for an OnAlarm   *)
(* that posts or starts something behind the destructor's back.            *)
DestroyedIsSilent ==
  \A a \in Alarms : pc[a] = "dead" =>
    /\ thr[a] = 0
    /\ \A q \in Queues :
         /\ a \notin loop[q].todo /\ loop[q].calling # a
         /\ \A m \in lst[q] : m.a # a

(* OnAlarm (alarm.cc:116) accepts a time-out only when the delay of the    *)
(* Start in force has passed: the message of an earlier Start that was     *)
(* cancelled, or of another alarm, is never taken for it.                  *)
NotEarly ==
  [][\A a \in Alarms :
       (status[a] # "kOnAlarm" /\ status'[a] = "kOnAlarm") =>
         status[a] = "kStart" /\ now >= starttime[a] + after[a]]_vars

(* Each Start comes to one end: its callback runs once, or it is cancelled *)
(* (alarm.cc:72, callbacks still queued included) and never runs, or it is *)
(* dropped because runthread_ was busy.                                    *)
OneOutcome ==
  [][\A s \in Seqs : outcome'[s] # outcome[s] => <<outcome[s], outcome'[s]>> \in Course]_vars

(* Every Start whose time-out is not cancelled is accepted and its         *)
(* callback runs, or is dropped by a busy runthread_ (alarm.cc:160).       *)
EveryStartEnds ==
  \A s \in Seqs : outcome[s] \in {"waiting", "accepted"} ~> outcome[s] \in Ended
=============================================================================
