------------------------------ MODULE DnsProofs ------------------------------
(***************************************************************************)
(* Proofs about Dns for any number of callers, names and pthread ids:      *)
(* every lookup keeps its own entry in the shared list, no wake-up is      *)
(* lost, a lookup succeeds only with the answer to its own name, and a     *)
(* breaker whose entry has not been moved cancels its own lookup only.     *)
(***************************************************************************)
EXTENDS Dns, SequenceTheorems, TLAPS

Entry == [tid : Tids, dns : Objects, host : Hosts, status : Statuses]

(* No two callers wait for the same pthread.                               *)
OwnThread ==
  \A c, d \in Callers :
    call[c].pc # "idle" /\ call[d].pc # "idle" /\ call[c].tid = call[d].tid => c = d

(* The entry of a caller that sleeps is undecided.                         *)
SleepersUndecided ==
  \A c \in Callers : \A i \in Slots :
    call[c].pc = "wait" /\ vec[i].tid = call[c].tid => vec[i].status = "Doing"

(* A pthread resolves the name of its entry, and answers when it is done.  *)
Answers ==
  \A i \in Slots : LET t == thr[vec[i].tid] IN
    /\ t.pc \in {"resolve", "exited"} => t.host = vec[i].host
    /\ vec[i].status = "Suc" => t.pc = "exited"

Inv == TypeOK /\ OwnEntry /\ OwnThread /\ SleepersUndecided /\ Answers

-----------------------------------------------------------------------------
(* The search by tid finds the one entry with that tid.                    *)
LEMMA FoundIsOwn ==
  ASSUME OwnEntry, NEW i \in Slots
  PROVE  Mine(vec[i].tid) = {i} /\ First(Mine(vec[i].tid)) = i
<1>1. Mine(vec[i].tid) = {i}
  BY DEF OwnEntry, Mine
<1>2. \A j \in {i} : i <= j
  BY DEF Slots
<1> QED
  BY <1>1, <1>2 DEF First

(* Changing the status of some entries changes nothing else of them.       *)
LEMMA StatusSet ==
  ASSUME TypeOK, NEW S \in SUBSET Slots, NEW st \in Statuses, SetStatus(S, st)
  PROVE  /\ vec' \in Seq(Entry) /\ Len(vec') = Len(vec)
         /\ \A i \in Slots : /\ vec'[i].tid = vec[i].tid /\ vec'[i].dns = vec[i].dns
                             /\ vec'[i].host = vec[i].host
                             /\ vec'[i].status = IF i \in S THEN st ELSE vec[i].status
<1>1. vec \in Seq(Entry) /\ Len(vec) \in Nat /\ vec \in [1..Len(vec) -> Entry]
  BY LenProperties DEF TypeOK, Entry
<1>2. vec' \in [1..Len(vec) -> Entry]
  BY <1>1 DEF SetStatus, Slots, Entry
<1>3. vec' \in Seq(Entry) /\ Len(vec') = Len(vec)
  BY <1>1, <1>2, SeqDef
<1> QED
  BY <1>1, <1>3 DEF SetStatus, Slots, Entry

(* Erasing an entry moves the later ones up.                               *)
LEMMA Erased ==
  ASSUME TypeOK, NEW k \in Slots, Erase(k)
  PROVE  /\ vec' \in Seq(Entry) /\ Len(vec') = Len(vec) - 1
         /\ \A i \in 1..(Len(vec) - 1) : vec'[i] = IF i < k THEN vec[i] ELSE vec[i + 1]
<1>1. vec \in Seq(Entry) /\ Len(vec) \in Nat /\ vec \in [1..Len(vec) -> Entry]
  BY LenProperties DEF TypeOK, Entry
<1>2. Len(vec) - 1 \in Nat
  BY <1>1 DEF Slots
<1>3. vec' \in [1..(Len(vec) - 1) -> Entry]
  BY <1>1, <1>2 DEF Erase, Slots
<1>4. vec' \in Seq(Entry) /\ Len(vec') = Len(vec) - 1
  BY <1>2, <1>3, SeqDef
<1> QED
  BY <1>4 DEF Erase

(* Callers and names are as before, and the pthreads of entries go on.     *)
CallsKept ==
  \A c \in Callers : /\ call'[c].pc = "idle" <=> call[c].pc = "idle"
                     /\ call'[c].tid = call[c].tid /\ call'[c].host = call[c].host
EntriesKept ==
  /\ Slots' = Slots
  /\ \A i \in Slots : vec'[i].tid = vec[i].tid /\ vec'[i].host = vec[i].host
ThreadsKept ==
  \A i \in Slots : thr'[vec[i].tid] # Unused /\ ~thr'[vec[i].tid].detached

LEMMA KeptOwn ==
  ASSUME OwnEntry, OwnThread, CallsKept, EntriesKept, ThreadsKept
  PROVE  OwnEntry' /\ OwnThread'
<1>1. OwnThread'
  BY DEF OwnThread, CallsKept
<1>2. \A i, j \in Slots : vec'[i].tid = vec'[j].tid => i = j
  BY DEF OwnEntry, EntriesKept
<1>3. ASSUME NEW c \in Callers, call'[c].pc # "idle"
      PROVE  \E i \in Slots : vec'[i].tid = call'[c].tid /\ vec'[i].host = call'[c].host
  BY <1>3 DEF OwnEntry, EntriesKept, CallsKept
<1>4. ASSUME NEW i \in Slots
      PROVE  /\ \E c \in Callers : call'[c].tid = vec'[i].tid /\ call'[c].pc # "idle"
             /\ thr'[vec'[i].tid] # Unused /\ ~thr'[vec'[i].tid].detached
  BY <1>4 DEF OwnEntry, EntriesKept, CallsKept, ThreadsKept
<1>5. OwnEntry'
  BY <1>2, <1>3, <1>4 DEF OwnEntry, EntriesKept, Unused
<1> QED
  BY <1>1, <1>5

(* The types of the calls and of the pthreads.                             *)
Calls == [pc : {"wait", "woken", "timedout"}, tid : Tids, dns : Objects, host : Hosts, left : 0..Millsec]
CallType == call \in [Callers -> Calls \cup {NotCalling}]
Pthreads == [pc : {"unused", "begin", "resolve", "exited"}, host : Hosts \cup {NoHost},
             func : BOOLEAN, detached : BOOLEAN]
BreakerType == breaker \in [Callers -> [isbreak : BOOLEAN, dnsstatus : [buf : Nat, slot : Nat]]]
VecType == vec \in Seq(Entry) /\ buf \in Nat /\ cap \in Nat /\ Len(vec) <= cap
ThrType == thr \in [Tids -> Pthreads]
MovedType == moved \subseteq Looking

LEMMA Types == TypeOK <=> VecType /\ CallType /\ BreakerType /\ ThrType /\ MovedType
BY DEF TypeOK, VecType, CallType, BreakerType, ThrType, MovedType, Entry, Calls, Pthreads

LEMMA TypesNext == VecType' /\ CallType' /\ BreakerType' /\ ThrType' /\ MovedType' => TypeOK'
BY DEF TypeOK, VecType, CallType, BreakerType, ThrType, MovedType, Entry, Calls, Pthreads

LEMMA EntryType ==
  ASSUME VecType
  PROVE  \A i \in Slots : vec[i] \in Entry /\ vec[i].tid \in Tids /\ vec[i].host \in Hosts
<1>1. \A i \in Slots : vec[i] \in Entry
  BY ElementOfSeq DEF VecType, Slots
<1> QED
  BY <1>1 DEF Entry

(* What a step that neither adds nor erases an entry has to show.          *)
LEMMA KeptInv ==
  ASSUME Inv, CallsKept, EntriesKept, ThreadsKept, SleepersUndecided', Answers',
         VecType', CallType', BreakerType', ThrType', UNCHANGED moved
  PROVE  Inv'
<1>1. MovedType'
  BY Types DEF Inv, MovedType, Looking, CallsKept
<1> QED
  BY <1>1, KeptOwn, TypesNext DEF Inv

(* After notifyAll nobody sleeps, and callers wait for what they did.      *)
LEMMA Notified ==
  ASSUME CallType, NotifyAll
  PROVE  CallType' /\ CallsKept /\ \A c \in Callers : call'[c].pc # "wait"
<1>1. ASSUME NEW c \in Callers
      PROVE  /\ call'[c] \in Calls \cup {NotCalling} /\ call'[c].pc # "wait"
             /\ call'[c].pc = "idle" <=> call[c].pc = "idle"
             /\ call'[c].tid = call[c].tid /\ call'[c].host = call[c].host
  <2>1. call'[c] = IF call[c].pc = "wait" THEN [call[c] EXCEPT !.pc = "woken"] ELSE call[c]
    BY DEF NotifyAll
  <2>2. CASE call[c] = NotCalling
    BY <2>1, <2>2 DEF NotCalling
  <2>3. CASE call[c] \in Calls
    BY <2>1, <2>3 DEF Calls
  <2> QED
    BY <2>2, <2>3 DEF CallType
<1>2. CallType'
  BY <1>1 DEF NotifyAll, CallType
<1> QED
  BY <1>1, <1>2 DEF CallsKept

(* One caller moves.                                                       *)
LEMMA OneMoves ==
  ASSUME CallType, NEW c \in Callers, call[c].pc # "idle",
         NEW p \in {"wait", "woken", "timedout"}, call' = [call EXCEPT ![c].pc = p]
  PROVE  /\ CallType' /\ CallsKept /\ call'[c].pc = p
         /\ \A d \in Callers : d # c => call'[d] = call[d]
<1>1. call[c] \in Calls
  BY DEF CallType, NotCalling
<1>2. call'[c] \in Calls /\ call'[c].pc = p /\ call'[c].tid = call[c].tid /\ call'[c].host = call[c].host
  BY <1>1 DEF CallType, Calls
<1>3. \A d \in Callers : d # c => call'[d] = call[d]
  BY DEF CallType
<1>4. CallType'
  BY <1>2, <1>3 DEF CallType
<1>5. CallsKept
  BY <1>2, <1>3 DEF CallsKept
<1> QED
  BY <1>2, <1>3, <1>4, <1>5

(* A caller that waits finds its own entry.                                *)
LEMMA FindsEntry ==
  ASSUME OwnEntry, NEW c \in Callers, call[c].pc # "idle"
  PROVE  \E i \in Slots : /\ vec[i].tid = call[c].tid /\ vec[i].host = call[c].host
                          /\ Mine(call[c].tid) = {i} /\ First(Mine(call[c].tid)) = i
<1>1. PICK i \in Slots : vec[i].tid = call[c].tid /\ vec[i].host = call[c].host
  BY DEF OwnEntry
<1>2. Mine(vec[i].tid) = {i} /\ First(Mine(vec[i].tid)) = i
  BY FoundIsOwn
<1> QED
  BY <1>1, <1>2

LEMMA InitInv == Init => Inv
<1> SUFFICES ASSUME Init PROVE Inv
  OBVIOUS
<1>1. Slots = {}
  BY DEF Init, Slots
<1>2. \A c \in Callers : call[c].pc = "idle"
  BY DEF Init, NotCalling
<1>3. VecType
  BY DEF Init, VecType
<1>4. CallType /\ BreakerType
  BY DEF Init, CallType, BreakerType, NewBreaker, Null
<1>5. ThrType /\ MovedType
  BY DEF Init, ThrType, MovedType, Pthreads, Unused
<1>6. OwnEntry /\ OwnThread /\ SleepersUndecided /\ Answers
  BY <1>1, <1>2 DEF OwnEntry, OwnThread, SleepersUndecided, Answers
<1> QED
  BY <1>3, <1>4, <1>5, <1>6, Types DEF Inv

-----------------------------------------------------------------------------
(* Every action keeps the invariant.  First those of a caller that neither *)
(* begins nor ends its lookup.                                             *)
LEMMA CallerWaits ==
  ASSUME Inv, NEW c \in Callers,
         Refused(c) \/ WaitTimesOut(c) \/ SpuriousWakeup(c) \/ WaitAgain(c)
  PROVE  Inv'
<1>0. VecType /\ CallType /\ BreakerType /\ ThrType
  BY Types DEF Inv
<1>1. UNCHANGED <<vec, buf, cap, thr, moved>>
  BY DEF Refused, WaitTimesOut, SpuriousWakeup, WaitAgain
<1>2. VecType' /\ ThrType'
  BY <1>0, <1>1 DEF VecType, ThrType
<1>3. EntriesKept /\ ThreadsKept /\ Answers'
  BY <1>1 DEF Inv, OwnEntry, Answers, EntriesKept, ThreadsKept, Slots
<1>4. CASE Refused(c)
  <2>1. CallType' /\ CallsKept /\ SleepersUndecided' /\ UNCHANGED call
    BY <1>0, <1>1, <1>4 DEF Refused, CallType, CallsKept, Inv, SleepersUndecided, Slots
  <2>2. BreakerType'
    BY <1>0, <1>4 DEF Refused, BreakerType, NewBreaker, Null
  <2> QED
    BY <1>1, <1>2, <1>3, <2>1, <2>2, KeptInv
<1>5. ASSUME NEW p \in {"woken", "timedout"}, call[c].pc # "idle",
             call' = [call EXCEPT ![c].pc = p], UNCHANGED breaker
      PROVE  Inv'
  <2>1. /\ CallType' /\ CallsKept /\ call'[c].pc = p
        /\ \A d \in Callers : d # c => call'[d] = call[d]
    BY <1>0, <1>5, OneMoves
  <2>2. SleepersUndecided'
    BY <1>1, <2>1 DEF Inv, SleepersUndecided, Slots
  <2>3. BreakerType'
    BY <1>0, <1>5 DEF BreakerType
  <2> QED
    BY <1>1, <1>2, <1>3, <2>1, <2>2, <2>3, KeptInv
<1>6. CASE WaitAgain(c)
  <2>1. /\ call[c].pc \in {"woken", "timedout"} /\ Outcome(c) = "Doing" /\ UNCHANGED breaker
        /\ call' = [call EXCEPT ![c].pc = Wait(call[c].left)]
    BY <1>6 DEF WaitAgain
  <2>2. CASE Wait(call[c].left) = "timedout"
    BY <1>5, <2>1, <2>2
  <2>3. CASE Wait(call[c].left) = "wait"
    <3>1. /\ CallType' /\ CallsKept /\ call'[c].pc = "wait"
          /\ \A d \in Callers : d # c => call'[d] = call[d]
      BY <1>0, <2>1, <2>3, OneMoves
    <3>2. StatusOf(c) = "Doing"
      BY <2>1 DEF Outcome
    <3>3. \A i \in Slots : vec[i].tid = call[c].tid => vec[i].status = "Doing"
      <4>1. PICK k \in Slots : Mine(call[c].tid) = {k} /\ First(Mine(call[c].tid)) = k
        BY <2>1, FindsEntry DEF Inv
      <4> QED
        BY <3>2, <4>1 DEF StatusOf, EntryOf, Mine
    <3>4. SleepersUndecided'
      BY <1>1, <3>1, <3>3 DEF Inv, SleepersUndecided, Slots, CallsKept
    <3>5. BreakerType'
      BY <1>0, <2>1 DEF BreakerType
    <3> QED
      BY <1>1, <1>2, <1>3, <3>1, <3>4, <3>5, KeptInv
  <2> QED
    BY <2>2, <2>3 DEF Wait
<1>7. CASE WaitTimesOut(c) \/ SpuriousWakeup(c)
  BY <1>5, <1>7 DEF WaitTimesOut, SpuriousWakeup
<1> QED
  BY <1>4, <1>6, <1>7

(* Time passes.                                                            *)
LEMMA TimePasses == ASSUME Inv, Tick PROVE Inv'
<1>0. VecType /\ CallType /\ BreakerType /\ ThrType
  BY Types DEF Inv
<1>1. UNCHANGED <<vec, buf, cap, thr, breaker, moved>>
  BY DEF Tick
<1>2. ASSUME NEW c \in Callers
      PROVE  /\ call'[c] \in Calls \cup {NotCalling} /\ call'[c].pc = call[c].pc
             /\ call'[c].tid = call[c].tid /\ call'[c].host = call[c].host
  <2>1. call'[c] = IF call[c].left > 0 THEN [call[c] EXCEPT !.left = @ - 1] ELSE call[c]
    BY DEF Tick
  <2>2. CASE call[c] = NotCalling
    BY <2>1, <2>2 DEF NotCalling
  <2>3. CASE call[c] \in Calls
    BY <2>1, <2>3, DnsAssumption DEF Calls
  <2> QED
    BY <1>0, <2>2, <2>3 DEF CallType
<1>3. CallType'
  BY <1>2 DEF Tick, CallType
<1>4. CallsKept
  BY <1>2 DEF CallsKept
<1>5. VecType' /\ ThrType' /\ BreakerType'
  BY <1>0, <1>1 DEF VecType, ThrType, BreakerType
<1>6. EntriesKept /\ ThreadsKept /\ Answers'
  BY <1>1 DEF Inv, OwnEntry, Answers, EntriesKept, ThreadsKept, Slots
<1>7. SleepersUndecided'
  BY <1>1, <1>2 DEF Inv, SleepersUndecided, Slots
<1> QED
  BY <1>1, <1>3, <1>4, <1>5, <1>6, <1>7, KeptInv

(* A Cancel changes statuses, maybe those of other lookups, and wakes      *)
(* everybody.                                                              *)
LEMMA Cancels ==
  ASSUME Inv, NEW S \in SUBSET Slots, SetStatus(S, "Cancel"), NotifyAll,
         UNCHANGED <<buf, cap, thr, moved>>, BreakerType'
  PROVE  Inv'
<1>0. VecType /\ CallType /\ BreakerType /\ ThrType /\ TypeOK
  BY Types DEF Inv
<1>1. /\ vec' \in Seq(Entry) /\ Len(vec') = Len(vec)
      /\ \A i \in Slots : /\ vec'[i].tid = vec[i].tid /\ vec'[i].dns = vec[i].dns
                          /\ vec'[i].host = vec[i].host
                          /\ vec'[i].status = IF i \in S THEN "Cancel" ELSE vec[i].status
  BY <1>0, StatusSet DEF Statuses
<1>2. CallType' /\ CallsKept /\ \A c \in Callers : call'[c].pc # "wait"
  BY <1>0, Notified
<1>3. VecType' /\ ThrType'
  BY <1>0, <1>1 DEF VecType, ThrType
<1>4. EntriesKept /\ ThreadsKept
  BY <1>1 DEF EntriesKept, ThreadsKept, Slots, Inv, OwnEntry
<1>5. SleepersUndecided'
  BY <1>2 DEF SleepersUndecided
<1>6. Answers'
  BY <1>1, <1>4 DEF Inv, Answers, EntriesKept
<1> QED
  BY <1>2, <1>3, <1>4, <1>5, <1>6, KeptInv

LEMMA CancelStep ==
  ASSUME Inv, \/ \E o \in Objects : CancelHosts(o, Hosts) \/ \E h \in Hosts : CancelHosts(o, {h})
              \/ \E c \in Callers : CancelBreaker(c)
  PROVE  Inv'
<1>0. BreakerType
  BY Types DEF Inv
<1>1. ASSUME NEW o \in Objects, NEW hs, CancelHosts(o, hs) PROVE Inv'
  <2>1. BreakerType'
    BY <1>0, <1>1 DEF CancelHosts, BreakerType
  <2>2. {i \in Slots : vec[i].dns = o /\ vec[i].host \in hs} \in SUBSET Slots
    OBVIOUS
  <2> QED
    BY <1>1, <2>1, <2>2, Cancels DEF CancelHosts
<1>2. ASSUME NEW c \in Callers, CancelBreaker(c) PROVE Inv'
  <2>1. BreakerType'
    BY <1>0, <1>2 DEF CancelBreaker, BreakerType
  <2>2. {i \in Slots : breaker[c].dnsstatus.buf = buf /\ breaker[c].dnsstatus.slot = i} \in SUBSET Slots
    OBVIOUS
  <2> QED
    BY <1>2, <2>1, <2>2, Cancels DEF CancelBreaker
<1> QED
  BY <1>1, <1>2

(* The pthread reads the name of its entry, ...                            *)
LEMMA PthreadBegins == ASSUME Inv, NEW t \in Tids, GetIPBegin(t) PROVE Inv'
<1>0. VecType /\ CallType /\ BreakerType /\ ThrType
  BY Types DEF Inv
<1>1. UNCHANGED <<vec, buf, cap, call, breaker, moved>>
  BY DEF GetIPBegin
<1>2. VecType' /\ CallType' /\ BreakerType' /\ CallsKept /\ EntriesKept /\ SleepersUndecided'
  BY <1>0, <1>1 DEF VecType, CallType, BreakerType, CallsKept, EntriesKept, Inv, SleepersUndecided, Slots
<1>3. Mine(t) # {} => First(Mine(t)) \in Slots /\ vec[First(Mine(t))].host \in Hosts
  <2>1. \A i \in Slots : vec[i].host \in Hosts
    BY <1>0, EntryType
  <2>2. \A i \in Mine(t) : i \in Slots /\ vec[i].tid = t
    BY DEF Mine
  <2>3. \A i \in Mine(t) : First(Mine(t)) = i
    BY <2>2, FoundIsOwn DEF Inv
  <2> QED
    BY <2>1, <2>2, <2>3
<1>4. /\ thr' \in [Tids -> Pthreads] /\ \A u \in Tids : u # t => thr'[u] = thr[u]
      /\ thr'[t].pc = "resolve" /\ thr'[t].detached = thr[t].detached
      /\ thr'[t].host = IF Mine(t) = {} THEN NoHost ELSE vec[First(Mine(t))].host
  <2>1. thr[t] \in Pthreads
    BY <1>0 DEF ThrType
  <2>2. PICK host \in Hosts \cup {NoHost}, func \in BOOLEAN :
          /\ thr' = [thr EXCEPT ![t].pc = "resolve", ![t].host = host, ![t].func = func]
          /\ host = IF Mine(t) = {} THEN NoHost ELSE vec[First(Mine(t))].host
    BY <1>3 DEF GetIPBegin
  <2>3. /\ thr'[t] \in Pthreads /\ thr'[t].pc = "resolve"
        /\ thr'[t].host = host /\ thr'[t].detached = thr[t].detached
    BY <1>0, <2>1, <2>2 DEF Pthreads, ThrType
  <2>4. \A u \in Tids : u # t => thr'[u] = thr[u]
    BY <1>0, <2>2 DEF ThrType
  <2>5. thr' \in [Tids -> Pthreads]
    BY <1>0, <2>2, <2>3, <2>4 DEF ThrType
  <2> QED
    BY <2>2, <2>3, <2>4, <2>5
<1>5. \A i \in Slots : vec[i].tid \in Tids
  BY <1>0, EntryType
<1>6. ThreadsKept
  <2>1. thr'[t] # Unused
    BY <1>4 DEF Unused
  <2> QED
    BY <1>4, <1>5, <2>1 DEF ThreadsKept, Inv, OwnEntry
<1>7. \A i \in Slots : vec[i].tid = t => thr'[t].host = vec[i].host /\ vec[i].status # "Suc"
  <2>1. \A i \in Slots : vec[i].tid = t => Mine(t) = {i} /\ First(Mine(t)) = i
    BY FoundIsOwn DEF Inv
  <2>2. \A i \in Slots : vec[i].tid = t => vec[i].status # "Suc"
    BY DEF GetIPBegin, Inv, Answers
  <2> QED
    BY <1>4, <2>1, <2>2
<1>8. Answers'
  BY <1>1, <1>4, <1>5, <1>7 DEF Inv, Answers, Slots
<1> QED
  BY <1>1, <1>2, <1>4, <1>6, <1>8, KeptInv DEF ThrType

(* ... and writes the outcome to it, if it is still there.                 *)
LEMMA PthreadEnds ==
  ASSUME Inv, NEW t \in Tids, NEW ok \in BOOLEAN, GetIPEnd(t, ok) PROVE Inv'
<1>0. VecType /\ CallType /\ BreakerType /\ ThrType /\ TypeOK
  BY Types DEF Inv
<1>1. UNCHANGED <<buf, cap, breaker, moved>> /\ BreakerType' /\ thr[t].pc = "resolve"
  BY <1>0 DEF GetIPEnd, BreakerType
<1>2. /\ ThrType' /\ \A u \in Tids : u # t => thr'[u] = thr[u]
      /\ ~thr[t].detached =>
           thr'[t].pc = "exited" /\ ~thr'[t].detached /\ thr'[t].host = thr[t].host
  BY <1>0 DEF GetIPEnd, Exit, ThrType, Pthreads, Unused
<1>3. \A i \in Slots : vec[i].tid \in Tids /\ ~thr[vec[i].tid].detached
  BY <1>0, EntryType DEF Inv, OwnEntry
<1>4. ThreadsKept
  <2>1. thr'[t].pc = "exited" => thr'[t] # Unused
    BY DEF Unused
  <2> QED
    BY <1>2, <1>3, <2>1 DEF ThreadsKept, Inv, OwnEntry
<1>5. CASE Found(t) = {}
  <2>1. UNCHANGED vec /\ (UNCHANGED call \/ NotifyAll)
    BY <1>5 DEF GetIPEnd
  <2>2. VecType' /\ EntriesKept
    BY <1>0, <1>1, <2>1 DEF VecType, EntriesKept, Slots
  <2>3. CallType' /\ CallsKept /\ SleepersUndecided'
    <3>1. CASE UNCHANGED call
      BY <1>0, <2>1, <3>1 DEF CallType, CallsKept, Inv, SleepersUndecided, Slots
    <3>2. CASE NotifyAll
      <4>1. CallType' /\ CallsKept /\ \A c \in Callers : call'[c].pc # "wait"
        BY <1>0, <3>2, Notified
      <4> QED
        BY <4>1 DEF SleepersUndecided
    <3> QED
      BY <2>1, <3>1, <3>2
  <2>4. \A i \in Slots : vec[i].tid # t
    BY <1>5 DEF Found, Mine
  <2>5. Answers'
    BY <1>2, <1>3, <2>1, <2>4 DEF Inv, Answers, Slots
  <2> QED
    BY <1>1, <1>2, <1>4, <2>2, <2>3, <2>5, KeptInv
<1>6. CASE Found(t) # {}
  <2>1. PICK k \in Slots : vec[k].tid = t /\ Mine(t) = {k} /\ First(Mine(t)) = k
    <3>1. PICK k \in Mine(t) : TRUE
      BY <1>6 DEF Found
    <3>2. k \in Slots /\ vec[k].tid = t
      BY DEF Mine
    <3> QED
      BY <3>2, FoundIsOwn DEF Inv
  <2>2. PICK st \in {"Suc", "Fail"} : SetStatus({k}, st)
    BY <1>6, <2>1 DEF GetIPEnd, Found
  <2>3. {k} \in SUBSET Slots /\ st \in Statuses
    BY DEF Statuses
  <2>4. /\ vec' \in Seq(Entry) /\ Len(vec') = Len(vec)
        /\ \A i \in Slots : /\ vec'[i].tid = vec[i].tid /\ vec'[i].dns = vec[i].dns
                            /\ vec'[i].host = vec[i].host
                            /\ vec'[i].status = IF i \in {k} THEN st ELSE vec[i].status
    BY <1>0, <2>2, <2>3, StatusSet
  <2>5. NotifyAll
    BY <1>6 DEF GetIPEnd
  <2>6. CallType' /\ CallsKept /\ \A c \in Callers : call'[c].pc # "wait"
    BY <1>0, <2>5, Notified
  <2>7. VecType' /\ EntriesKept
    BY <1>0, <1>1, <2>4 DEF VecType, EntriesKept, Slots
  <2>8. SleepersUndecided'
    BY <2>6 DEF SleepersUndecided
  <2>9. ASSUME NEW i \in Slots
        PROVE  /\ thr'[vec[i].tid].pc \in {"resolve", "exited"} => thr'[vec[i].tid].host = vec[i].host
               /\ vec'[i].status = "Suc" => thr'[vec[i].tid].pc = "exited"
    <3>1. CASE i = k
      BY <1>1, <1>2, <1>3, <2>1, <3>1 DEF Inv, Answers
    <3>2. CASE i # k
      <4>1. vec[i].tid # t
        BY <2>1, <3>2 DEF Inv, OwnEntry
      <4> QED
        BY <1>2, <1>3, <2>4, <3>2, <4>1 DEF Inv, Answers
    <3> QED
      BY <3>1, <3>2
  <2>10. Answers'
    BY <2>4, <2>7, <2>9 DEF Answers, EntriesKept
  <2> QED
    BY <1>1, <1>2, <1>4, <2>6, <2>7, <2>8, <2>10, KeptInv
<1> QED
  BY <1>5, <1>6

(* A lookup begins: its pthread's id is in no entry.                       *)
LEMMA LookupBegins ==
  ASSUME Inv, NEW c \in Callers, NEW o \in Objects, NEW h \in Hosts, NEW t \in Tids, Enter(c, o, h, t)
  PROVE  Inv'
<1> DEFINE e == [tid |-> t, dns |-> o, host |-> h, status |-> "Doing"]
           n == Len(vec) + 1
<1>0. VecType /\ CallType /\ BreakerType /\ ThrType
  BY Types DEF Inv
<1>1. e \in Entry
  BY DEF Entry, Statuses
<1>2. /\ vec' \in Seq(Entry) /\ Len(vec') = n /\ Len(vec) \in Nat /\ vec'[n] = e
      /\ \A i \in Slots : vec'[i] = vec[i]
  BY <1>0, <1>1, AppendProperties, LenProperties DEF Enter, VecType, Slots
<1>3. Slots' = Slots \cup {n} /\ n \notin Slots
  BY <1>2 DEF Slots
<1>4. VecType'
  BY <1>0, <1>2 DEF Enter, Grow, VecType
<1>5. BreakerType'
  BY <1>0, <1>2, <1>4 DEF Enter, BreakerType, VecType
<1>6. /\ ThrType' /\ \A u \in Tids : u # t => thr'[u] = thr[u]
      /\ thr'[t].pc = "begin" /\ ~thr'[t].detached
  BY <1>0 DEF Enter, ThrType, Pthreads
<1>7. /\ CallType' /\ \A d \in Callers : d # c => call'[d] = call[d]
      /\ call'[c].pc # "idle" /\ call'[c].tid = t /\ call'[c].host = h
  <2>1. [pc |-> Wait(Millsec), tid |-> t, dns |-> o, host |-> h, left |-> Millsec] \in Calls
    BY DnsAssumption DEF Calls, Wait
  <2> QED
    BY <1>0, <2>1 DEF Enter, CallType, Wait
<1>8. \A i \in Slots : vec[i].tid # t /\ vec[i].tid \in Tids
  BY <1>0, EntryType DEF Enter, Inv, OwnEntry
<1>9. \A d \in Callers : call[d].pc # "idle" => call[d].tid # t
  BY <1>8 DEF Inv, OwnEntry
<1>10. call[c].pc = "idle"
  BY DEF Enter
<1>11. OwnThread'
  BY <1>7, <1>9 DEF Inv, OwnThread
<1>12. OwnEntry'
  <2>1. \A i, j \in Slots' : vec'[i].tid = vec'[j].tid => i = j
    BY <1>2, <1>3, <1>8 DEF Inv, OwnEntry
  <2>2. ASSUME NEW d \in Callers, call'[d].pc # "idle"
        PROVE  \E i \in Slots' : vec'[i].tid = call'[d].tid /\ vec'[i].host = call'[d].host
    <3>1. CASE d = c
      BY <1>2, <1>3, <1>7, <3>1
    <3>2. CASE d # c
      BY <1>2, <1>3, <1>7, <2>2, <3>2 DEF Inv, OwnEntry
    <3> QED
      BY <3>1, <3>2
  <2>3. ASSUME NEW i \in Slots'
        PROVE  /\ \E d \in Callers : call'[d].tid = vec'[i].tid /\ call'[d].pc # "idle"
               /\ thr'[vec'[i].tid] # Unused /\ ~thr'[vec'[i].tid].detached
    <3>1. CASE i = n
      BY <1>2, <1>6, <1>7, <3>1 DEF Unused
    <3>2. CASE i \in Slots
      <4>1. PICK d \in Callers : call[d].tid = vec[i].tid /\ call[d].pc # "idle"
        BY <3>2 DEF Inv, OwnEntry
      <4>2. d # c
        BY <1>10, <4>1
      <4> QED
        BY <1>2, <1>6, <1>7, <1>8, <3>2, <4>1, <4>2 DEF Inv, OwnEntry
    <3> QED
      BY <1>3, <3>1, <3>2
  <2> QED
    BY <2>1, <2>2, <2>3 DEF OwnEntry, Unused
<1>13. SleepersUndecided'
  <2>1. ASSUME NEW d \in Callers, NEW i \in Slots', call'[d].pc = "wait", vec'[i].tid = call'[d].tid
        PROVE  vec'[i].status = "Doing"
    <3>1. CASE i = n
      BY <1>2, <3>1
    <3>2. CASE i \in Slots
      <4>1. d # c
        BY <1>2, <1>7, <1>8, <2>1, <3>2
      <4> QED
        BY <1>2, <1>7, <2>1, <3>2, <4>1 DEF Inv, SleepersUndecided
    <3> QED
      BY <1>3, <3>1, <3>2
  <2> QED
    BY <2>1 DEF SleepersUndecided
<1>14. Answers'
  BY <1>2, <1>3, <1>6, <1>8 DEF Inv, Answers
<1>15. MovedType'
  BY <1>7, Types DEF Enter, GrowMoves, Inv, MovedType, Looking
<1> QED
  BY <1>4, <1>5, <1>6, <1>7, <1>11, <1>12, <1>13, <1>14, <1>15, TypesNext DEF Inv

(* A lookup ends: what is erased is its own entry.                         *)
LEMMA LookupEnds == ASSUME Inv, NEW c \in Callers, Return(c) PROVE Inv'
<1> DEFINE t == call[c].tid
           From(k, i) == IF i < k THEN i ELSE i + 1
<1>0. VecType /\ CallType /\ BreakerType /\ ThrType /\ TypeOK
  BY Types DEF Inv
<1>1. call[c].pc # "idle" /\ call' = [call EXCEPT ![c] = NotCalling]
  BY DEF Return
<1>2. PICK k \in Slots : vec[k].tid = t /\ First(Mine(t)) = k
  BY <1>1, FindsEntry DEF Inv
<1>3. /\ vec' \in Seq(Entry) /\ Len(vec') = Len(vec) - 1
      /\ \A i \in 1..(Len(vec) - 1) : vec'[i] = IF i < k THEN vec[i] ELSE vec[i + 1]
  BY <1>0, <1>2, Erased DEF Return, EntryOf
<1>4. Len(vec) \in Nat /\ k \in 1..Len(vec)
  BY <1>0, LenProperties DEF VecType, Slots
<1>5. Slots' = 1..(Len(vec) - 1)
  BY <1>3 DEF Slots
<1>6. /\ \A i \in Slots' : /\ From(k, i) \in Slots /\ From(k, i) # k /\ vec'[i] = vec[From(k, i)]
                           /\ vec[From(k, i)].tid # t
      /\ \A i, j \in Slots' : From(k, i) = From(k, j) => i = j
      /\ \A j \in Slots : j # k => \E i \in Slots' : From(k, i) = j
  <2>1. \A i \in Slots' : From(k, i) \in Slots /\ From(k, i) # k /\ vec'[i] = vec[From(k, i)]
    BY <1>3, <1>4, <1>5 DEF Slots
  <2>2. \A i, j \in Slots' : From(k, i) = From(k, j) => i = j
    BY <1>4, <1>5
  <2>3. ASSUME NEW j \in Slots, j # k PROVE \E i \in Slots' : From(k, i) = j
    <3>1. j \in Int /\ j >= 1 /\ j <= Len(vec)
      BY <1>4 DEF Slots
    <3>2. CASE j < k
      BY <1>4, <1>5, <3>1, <3>2
    <3>3. CASE j > k
      <4>1. j - 1 \in Slots' /\ From(k, j - 1) = j
        BY <1>4, <1>5, <3>1, <3>3
      <4> QED
        BY <4>1
    <3> QED
      BY <1>4, <2>3, <3>1, <3>2, <3>3
  <2>4. \A j \in Slots : j # k => vec[j].tid # t
    BY <1>2 DEF Inv, OwnEntry
  <2> QED
    BY <2>1, <2>2, <2>3, <2>4
<1> HIDE DEF From
<1>7. /\ CallType' /\ call'[c].pc = "idle"
      /\ \A d \in Callers : d # c => call'[d] = call[d]
  BY <1>0, <1>1 DEF CallType, NotCalling
<1>8. /\ ThrType' /\ \A u \in Tids : u # t => thr'[u] = thr[u]
  BY <1>0 DEF Return, Detach, ThrType, Pthreads, Unused
<1>9. BreakerType'
  BY <1>0 DEF Return, BreakerType, Null
<1>10. VecType'
  BY <1>0, <1>3, <1>4 DEF Return, VecType
<1>11. \A i \in Slots : vec[i].tid \in Tids
  BY <1>0, EntryType
<1>12. OwnThread'
  BY <1>7 DEF Inv, OwnThread
<1>13. OwnEntry'
  <2>1. \A i, j \in Slots' : vec'[i].tid = vec'[j].tid => i = j
    BY <1>6 DEF Inv, OwnEntry
  <2>2. ASSUME NEW d \in Callers, call'[d].pc # "idle"
        PROVE  \E i \in Slots' : vec'[i].tid = call'[d].tid /\ vec'[i].host = call'[d].host
    <3>1. d # c /\ call'[d] = call[d]
      BY <1>7, <2>2
    <3>2. PICK j \in Slots : vec[j].tid = call[d].tid /\ vec[j].host = call[d].host
      BY <2>2, <3>1 DEF Inv, OwnEntry
    <3>3. j # k
      BY <1>1, <1>2, <2>2, <3>1, <3>2 DEF Inv, OwnThread
    <3> QED
      BY <1>6, <3>1, <3>2, <3>3
  <2>3. ASSUME NEW i \in Slots'
        PROVE  /\ \E d \in Callers : call'[d].tid = vec'[i].tid /\ call'[d].pc # "idle"
               /\ thr'[vec'[i].tid] # Unused /\ ~thr'[vec'[i].tid].detached
    <3>1. PICK j \in Slots : vec'[i] = vec[j] /\ vec[j].tid # t
      BY <1>6
    <3>2. PICK d \in Callers : call[d].tid = vec[j].tid /\ call[d].pc # "idle"
      BY DEF Inv, OwnEntry
    <3>3. call'[d] = call[d]
      BY <1>7, <3>1, <3>2
    <3>4. thr'[vec[j].tid] = thr[vec[j].tid]
      BY <1>8, <1>11, <3>1
    <3> QED
      BY <3>1, <3>2, <3>3, <3>4 DEF Inv, OwnEntry
  <2> QED
    BY <2>1, <2>2, <2>3 DEF OwnEntry, Unused
<1>14. SleepersUndecided'
  BY <1>6, <1>7 DEF Inv, SleepersUndecided
<1>15. Answers'
  BY <1>6, <1>8, <1>11 DEF Inv, Answers
<1>16. MovedType'
  BY <1>7, Types DEF Return, EraseMoves, Inv, MovedType, Looking
<1> QED
  BY <1>7, <1>8, <1>9, <1>10, <1>12, <1>13, <1>14, <1>15, <1>16, TypesNext DEF Inv

LEMMA NextInv == Inv /\ [Next]_vars => Inv'
<1> SUFFICES ASSUME Inv, [Next]_vars PROVE Inv'
  OBVIOUS
<1>1. CASE UNCHANGED vars
  <2>1. UNCHANGED <<vec, buf, cap, call, breaker, thr, moved>>
    BY <1>1 DEF vars
  <2>2. VecType /\ CallType /\ BreakerType /\ ThrType
    BY Types DEF Inv
  <2>3. VecType' /\ CallType' /\ BreakerType' /\ ThrType'
    BY <2>1, <2>2 DEF VecType, CallType, BreakerType, ThrType
  <2>4. CallsKept /\ EntriesKept
    BY <2>1 DEF CallsKept, EntriesKept, Slots
  <2>5. ThreadsKept
    BY <2>1 DEF ThreadsKept, Inv, OwnEntry
  <2>6. SleepersUndecided'
    BY <2>1 DEF Inv, SleepersUndecided, Slots
  <2>7. Answers'
    BY <2>1 DEF Inv, Answers, Slots
  <2> QED
    BY <2>1, <2>3, <2>4, <2>5, <2>6, <2>7, KeptInv
<1>2. ASSUME NEW c \in Callers, GetHostByName(c) \/ WaitTimesOut(c) \/ Resume(c) PROVE Inv'
  BY <1>2, LookupBegins, LookupEnds, CallerWaits DEF GetHostByName, Resume
<1>3. ASSUME NEW t \in Tids, GetIP(t) PROVE Inv'
  BY <1>3, PthreadBegins, PthreadEnds DEF GetIP
<1> QED
  BY <1>1, <1>2, <1>3, CancelStep, TimePasses DEF Next

LEMMA Invariant == Spec => []Inv
BY InitInv, NextInv, PTL DEF Spec

-----------------------------------------------------------------------------
(* GetHostByName's assertions (dns.cc:226 and 254) hold for any number of  *)
(* concurrent lookups, late pthreads and reused thread ids: each lookup    *)
(* has exactly one entry, and that entry's pthread was started for it.     *)
THEOREM EntriesAreOwn == Spec => []OwnEntry
<1>1. Inv => OwnEntry
  BY DEF Inv
<1> QED
  BY <1>1, Invariant, PTL

(* No wake-up is lost (dns.cc:217): the entry of whoever sleeps has been   *)
(* neither answered nor cancelled, not even through a breaker that points  *)
(* to it by mistake.                                                       *)
THEOREM SleepersAreAnswered == Spec => []NoLostWakeup
<1>1. Inv => NoLostWakeup
  <2> SUFFICES ASSUME Inv, NEW c \in Callers, call[c].pc = "wait" PROVE StatusOf(c) = "Doing"
    BY DEF NoLostWakeup
  <2>1. PICK i \in Slots : vec[i].tid = call[c].tid /\ First(Mine(call[c].tid)) = i
    BY FindsEntry DEF Inv
  <2> QED
    BY <2>1 DEF StatusOf, EntryOf, Inv, SleepersUndecided
<1> QED
  BY <1>1, Invariant, PTL

(* A lookup that succeeds was answered by its own pthread, which has       *)
(* resolved its own name (dns.cc:58), whatever other pthreads still do.    *)
THEOREM AnswersAreOwn == Spec => AnswerIsOwn
<1>1. Inv /\ [Next]_vars =>
        [\A c \in Callers :
           (call[c].pc # "idle" /\ call'[c].pc = "idle" /\ Outcome(c) = "Suc") =>
             thr[call[c].tid].pc = "exited" /\ thr[call[c].tid].host = call[c].host]_vars
  <2> SUFFICES ASSUME Inv, NEW c \in Callers, call[c].pc # "idle", Outcome(c) = "Suc"
               PROVE  thr[call[c].tid].pc = "exited" /\ thr[call[c].tid].host = call[c].host
    OBVIOUS
  <2>1. PICK i \in Slots : /\ vec[i].tid = call[c].tid /\ vec[i].host = call[c].host
                           /\ First(Mine(call[c].tid)) = i
    BY FindsEntry DEF Inv
  <2>2. vec[i].status = "Suc"
    BY <2>1 DEF Outcome, StatusOf, EntryOf
  <2> QED
    BY <2>1, <2>2 DEF Inv, Answers
<1> QED
  BY <1>1, Invariant, PTL DEF Spec, AnswerIsOwn

-----------------------------------------------------------------------------
(* What a breaker holds: nothing between lookups, and during one, until    *)
(* its entry is moved, the address of that entry.                          *)
Points(c) ==
  LET p == breaker[c].dnsstatus IN
    /\ c \notin Looking => p.slot = 0
    /\ c \in Looking \ moved => p.buf = buf /\ p.slot \in Slots /\ vec[p.slot].tid = call[c].tid
Pointers == \A c \in BreakerUsers : Points(c)

(* A step that neither adds nor erases an entry, nor touches an address.   *)
LEMMA PointersStay ==
  ASSUME Pointers, CallsKept, EntriesKept, UNCHANGED <<buf, moved>>,
         \A c \in BreakerUsers : breaker'[c].dnsstatus = breaker[c].dnsstatus
  PROVE  Pointers'
<1>0. BreakerUsers \subseteq Callers
  BY DnsAssumption
<1> SUFFICES ASSUME NEW c \in BreakerUsers PROVE Points(c)'
  BY DEF Pointers
<1>1. c \in Looking' <=> c \in Looking
  BY <1>0 DEF CallsKept, Looking
<1>2. Points(c) /\ call'[c].tid = call[c].tid /\ breaker'[c].dnsstatus = breaker[c].dnsstatus
  BY <1>0 DEF Pointers, CallsKept
<1> QED
  BY <1>1, <1>2 DEF Points, EntriesKept

(* A lookup that begins has the address of its new entry; the others' are  *)
(* as good as they were, unless the buffer is a new one.                   *)
LEMMA PointersBegin ==
  ASSUME Inv, Pointers, NEW c \in Callers, NEW o \in Objects, NEW h \in Hosts, NEW t \in Tids,
         Enter(c, o, h, t)
  PROVE  Pointers'
<1> DEFINE e == [tid |-> t, dns |-> o, host |-> h, status |-> "Doing"]
           n == Len(vec) + 1
<1>0. VecType /\ CallType /\ BreakerType /\ BreakerUsers \subseteq Callers /\ moved \subseteq Looking
  BY Types, DnsAssumption DEF Inv, MovedType
<1>1. e \in Entry
  BY DEF Entry, Statuses
<1>2. /\ Len(vec') = n /\ Len(vec) \in Nat /\ vec'[n] = e
      /\ \A i \in Slots : vec'[i] = vec[i]
  BY <1>0, <1>1, AppendProperties, LenProperties DEF Enter, VecType, Slots
<1>3. Slots' = Slots \cup {n}
  BY <1>2 DEF Slots
<1>4. /\ c \notin Looking /\ Looking' = Looking \cup {c} /\ call'[c].tid = t
      /\ \A d \in Callers : d # c => call'[d] = call[d]
  BY <1>0 DEF Enter, CallType, Looking, Wait
<1>5. ASSUME NEW d \in BreakerUsers, d # c PROVE Points(d)'
  <2>1. Points(d) /\ d \in Callers /\ breaker'[d] = breaker[d] /\ call'[d] = call[d]
    BY <1>0, <1>4, <1>5 DEF Pointers, Enter, BreakerType
  <2>2. d \in Looking' <=> d \in Looking
    BY <1>4, <1>5
  <2>3. CASE d \in Looking' \ moved'
    <3>1. Len(vec) < cap /\ UNCHANGED buf /\ d \in Looking \ moved
      BY <2>2, <2>3 DEF Enter, Grow, GrowMoves
    <3> QED
      BY <1>2, <1>3, <2>1, <2>3, <3>1 DEF Points
  <2> QED
    BY <2>1, <2>2, <2>3 DEF Points
<1>6. ASSUME c \in BreakerUsers PROVE Points(c)'
  <2>1. breaker'[c].dnsstatus = [buf |-> buf', slot |-> n]
    BY <1>0, <1>6 DEF Enter, BreakerType
  <2> QED
    BY <1>2, <1>3, <1>4, <2>1 DEF Points
<1> QED
  BY <1>5, <1>6 DEF Pointers

(* A lookup that ends moves the entries behind its own.                    *)
LEMMA PointersEnd == ASSUME Inv, Pointers, NEW c \in Callers, Return(c) PROVE Pointers'
<1>0. VecType /\ CallType /\ BreakerType /\ BreakerUsers \subseteq Callers /\ TypeOK
  BY Types, DnsAssumption DEF Inv
<1>1. /\ call[c].pc # "idle" /\ UNCHANGED buf /\ EraseMoves(c)
      /\ breaker' = [breaker EXCEPT ![c].dnsstatus = Null]
  BY DEF Return
<1>2. PICK k \in Slots : vec[k].tid = call[c].tid /\ EntryOf(c) = k
  BY <1>1, FindsEntry DEF Inv, EntryOf
<1>3. /\ Len(vec') = Len(vec) - 1 /\ Len(vec) \in Nat
      /\ \A i \in 1..(Len(vec) - 1) : vec'[i] = IF i < k THEN vec[i] ELSE vec[i + 1]
  BY <1>0, <1>2, Erased, LenProperties DEF Return, VecType
<1>4. /\ c \notin Looking' /\ Looking' = Looking \ {c}
      /\ \A d \in Callers : d # c => call'[d] = call[d]
  BY <1>0 DEF Return, CallType, NotCalling, Looking
<1>5. ASSUME NEW d \in BreakerUsers, d # c PROVE Points(d)'
  <2>1. Points(d) /\ d \in Callers /\ breaker'[d] = breaker[d] /\ call'[d] = call[d]
    BY <1>0, <1>1, <1>4, <1>5 DEF Pointers, BreakerType
  <2>2. CASE d \in Looking' \ moved'
    <3> DEFINE p == breaker[d].dnsstatus
    <3>1. d \in Looking \ moved /\ ~(EntryOf(d) > EntryOf(c))
      BY <1>1, <1>4, <1>5, <2>2 DEF EraseMoves
    <3>2. p.buf = buf /\ p.slot \in Slots /\ vec[p.slot].tid = call[d].tid
      BY <2>1, <3>1 DEF Points
    <3>3. EntryOf(d) = p.slot
      BY <3>2, FoundIsOwn DEF Inv, EntryOf
    <3>4. p.slot # k
      BY <1>1, <1>2, <1>5, <2>1, <3>1, <3>2 DEF Inv, OwnThread, Looking
    <3>5. p.slot < k /\ p.slot \in 1..(Len(vec) - 1)
      BY <1>2, <1>3, <3>1, <3>2, <3>3, <3>4 DEF Slots
    <3>6. p.slot \in Slots' /\ vec'[p.slot] = vec[p.slot]
      BY <1>3, <3>5 DEF Slots
    <3> QED
      BY <1>1, <2>1, <2>2, <3>2, <3>6 DEF Points
  <2>3. CASE d \notin Looking'
    BY <1>4, <1>5, <2>1, <2>3 DEF Points
  <2> QED
    BY <2>2, <2>3 DEF Points
<1>6. ASSUME c \in BreakerUsers PROVE Points(c)'
  <2>1. breaker'[c].dnsstatus = Null
    BY <1>0, <1>1 DEF BreakerType
  <2> QED
    BY <1>4, <2>1 DEF Points, Null
<1> QED
  BY <1>5, <1>6 DEF Pointers

(* The other steps; a caller that was refused makes a new breaker.         *)
LEMMA PointersElse ==
  ASSUME Inv, Pointers,
         \/ UNCHANGED vars \/ Tick
         \/ \E c \in Callers : \/ Refused(c) \/ WaitTimesOut(c) \/ SpuriousWakeup(c)
                              \/ WaitAgain(c) \/ CancelBreaker(c)
         \/ \E t \in Tids : GetIP(t)
         \/ \E o \in Objects, hs \in SUBSET Hosts : CancelHosts(o, hs)
  PROVE  Pointers'
<1>0. VecType /\ CallType /\ BreakerType /\ TypeOK /\ BreakerUsers \subseteq Callers
  BY Types, DnsAssumption DEF Inv
<1>1. UNCHANGED <<buf, moved>>
  BY DEF vars, Tick, Refused, WaitTimesOut, SpuriousWakeup, WaitAgain, CancelBreaker, GetIP,
         GetIPBegin, GetIPEnd, CancelHosts
<1>2. EntriesKept
  <2>1. CASE UNCHANGED vec
    BY <2>1 DEF EntriesKept, Slots
  <2>2. ASSUME NEW S \in SUBSET Slots, NEW st \in Statuses, SetStatus(S, st) PROVE EntriesKept
    BY <1>0, <2>2, StatusSet DEF EntriesKept, Slots
  <2>3. ASSUME NEW t \in Tids, NEW ok \in BOOLEAN, GetIPEnd(t, ok) PROVE EntriesKept
    <3>1. CASE Found(t) = {}
      BY <2>1, <2>3, <3>1 DEF GetIPEnd
    <3>2. CASE Found(t) # {}
      <4>1. \A i \in Mine(t) : First(Mine(t)) = i
        BY FoundIsOwn DEF Inv, Mine
      <4>2. {First(Found(t))} \in SUBSET Slots
        BY <3>2, <4>1 DEF Found, Mine
      <4> QED
        BY <2>2, <2>3, <3>2, <4>2 DEF GetIPEnd, Statuses
    <3> QED
      BY <3>1, <3>2
  <2>4. ASSUME NEW c \in Callers, CancelBreaker(c) PROVE EntriesKept
    <3>1. {i \in Slots : breaker[c].dnsstatus.buf = buf /\ breaker[c].dnsstatus.slot = i} \in SUBSET Slots
      OBVIOUS
    <3> QED
      BY <2>2, <2>4, <3>1 DEF CancelBreaker, Statuses
  <2>5. ASSUME NEW o \in Objects, NEW hs \in SUBSET Hosts, CancelHosts(o, hs) PROVE EntriesKept
    <3>1. {i \in Slots : vec[i].dns = o /\ vec[i].host \in hs} \in SUBSET Slots
      OBVIOUS
    <3> QED
      BY <2>2, <2>5, <3>1 DEF CancelHosts, Statuses
  <2> QED
    BY <2>1, <2>3, <2>4, <2>5 DEF vars, Tick, Refused, WaitTimesOut, SpuriousWakeup, WaitAgain, GetIP, GetIPBegin
<1>3. CallsKept
  <2>1. CASE UNCHANGED call
    BY <2>1 DEF CallsKept
  <2>2. CASE NotifyAll
    BY <1>0, <2>2, Notified
  <2>3. ASSUME NEW c \in Callers, WaitTimesOut(c) \/ SpuriousWakeup(c) \/ WaitAgain(c) PROVE CallsKept
    <3>1. call[c].pc # "idle" /\ \E p \in {"wait", "woken", "timedout"} : call' = [call EXCEPT ![c].pc = p]
      BY <2>3 DEF WaitTimesOut, SpuriousWakeup, WaitAgain, Wait
    <3> QED
      BY <1>0, <3>1, OneMoves
  <2>4. ASSUME Tick, NEW c \in Callers
        PROVE  /\ call'[c].pc = "idle" <=> call[c].pc = "idle"
               /\ call'[c].tid = call[c].tid /\ call'[c].host = call[c].host
    <3>1. call'[c] = IF call[c].left > 0 THEN [call[c] EXCEPT !.left = @ - 1] ELSE call[c]
      BY <2>4 DEF Tick
    <3>2. CASE call[c] = NotCalling
      BY <3>1, <3>2 DEF NotCalling
    <3>3. CASE call[c] \in Calls
      BY <3>1, <3>3 DEF Calls
    <3> QED
      BY <1>0, <3>2, <3>3 DEF CallType
  <2>5. Tick => CallsKept
    BY <2>4 DEF CallsKept
  <2> QED
    BY <2>1, <2>2, <2>3, <2>5 DEF vars, Refused, CancelBreaker, GetIP, GetIPBegin, GetIPEnd, CancelHosts
<1>4. CASE \A c \in BreakerUsers : breaker'[c].dnsstatus = breaker[c].dnsstatus
  BY <1>1, <1>2, <1>3, <1>4, PointersStay
<1>5. ASSUME NEW c \in Callers, Refused(c) PROVE Pointers'
  <2>1. /\ call[c].pc = "idle" /\ breaker'[c].dnsstatus = Null
        /\ \A d \in Callers : d # c => breaker'[d] = breaker[d]
    BY <1>0, <1>5 DEF Refused, BreakerType, NewBreaker
  <2>2. UNCHANGED <<vec, buf, call, moved>>
    BY <1>5 DEF Refused
  <2> QED
    BY <1>0, <2>1, <2>2 DEF Pointers, Points, Looking, Null, Slots
<1>6. ASSUME NEW c \in Callers, CancelBreaker(c) PROVE Pointers'
  <2>1. \A d \in BreakerUsers : breaker'[d].dnsstatus = breaker[d].dnsstatus
    BY <1>0, <1>6 DEF CancelBreaker, BreakerType
  <2> QED
    BY <1>4, <2>1
<1> QED
  BY <1>4, <1>5, <1>6 DEF vars, Tick, WaitTimesOut, SpuriousWakeup, WaitAgain, GetIP, GetIPBegin,
                          GetIPEnd, CancelHosts

LEMMA PointersInvariant == Spec => []Pointers
<1>1. Init => Pointers
  <2>1. BreakerUsers \subseteq Callers
    BY DnsAssumption
  <2>2. ASSUME Init, NEW c \in BreakerUsers PROVE c \notin Looking /\ breaker[c].dnsstatus.slot = 0
    <3>1. call[c] = NotCalling /\ breaker[c] = NewBreaker
      BY <2>1, <2>2 DEF Init
    <3> QED
      BY <3>1 DEF Looking, NotCalling, NewBreaker, Null
  <2> QED
    BY <2>2 DEF Pointers, Points
<1>2. Inv /\ Pointers /\ [Next]_vars => Pointers'
  <2> SUFFICES ASSUME Inv, Pointers, [Next]_vars PROVE Pointers'
    OBVIOUS
  <2>1. ASSUME NEW o \in Objects, NEW h \in Hosts, CancelHosts(o, Hosts) \/ CancelHosts(o, {h})
        PROVE  Pointers'
    <3>1. Hosts \in SUBSET Hosts /\ {h} \in SUBSET Hosts
      OBVIOUS
    <3> QED
      BY <2>1, <3>1, PointersElse
  <2>2. ASSUME NEW o \in Objects, CancelHosts(o, Hosts) PROVE Pointers'
    <3>1. Hosts \in SUBSET Hosts
      OBVIOUS
    <3> QED
      BY <2>2, <3>1, PointersElse
  <2>3. ASSUME NEW c \in Callers, GetHostByName(c) \/ WaitTimesOut(c) \/ Resume(c) \/ CancelBreaker(c)
        PROVE  Pointers'
    BY <2>3, PointersBegin, PointersEnd, PointersElse DEF GetHostByName, Resume
  <2> QED
    BY <2>1, <2>2, <2>3, PointersElse DEF Next
<1> QED
  BY <1>1, <1>2, Invariant, PTL DEF Spec

(* Cancel(breaker) (dns.cc:298) cancels the lookup of its own caller and   *)
(* no other, and wakes that caller, as long as the entry has not been      *)
(* moved since its address was taken (dns.cc:209), for any number of       *)
(* concurrent lookups.                                                     *)
THEOREM CancelsReach == Spec => CancelReaches
<1>1. ASSUME Inv, Pointers, [Next]_vars, NEW c \in BreakerUsers \ moved,
             ~breaker[c].isbreak, breaker'[c].isbreak
      PROVE  /\ c \in Looking => vec'[EntryOf(c)].status = "Cancel" /\ call'[c].pc # "wait"
             /\ \A i \in Slots : (c \in Looking /\ i = EntryOf(c)) \/ vec'[i] = vec[i]
  <2>0. /\ VecType /\ CallType /\ BreakerType /\ TypeOK /\ c \in Callers
        /\ BreakerUsers \subseteq Callers
    BY <1>1, Types, DnsAssumption DEF Inv
  <2>1. CancelBreaker(c)
    <3>1. ASSUME NEW d \in Callers, CancelBreaker(d) PROVE d = c
      BY <1>1, <2>0, <3>1 DEF CancelBreaker, BreakerType
    <3>2. ASSUME NEW d \in Callers, GetHostByName(d) \/ WaitTimesOut(d) \/ Resume(d) PROVE FALSE
      BY <1>1, <2>0, <3>2 DEF GetHostByName, Resume, Enter, Refused, SpuriousWakeup, WaitTimesOut,
                              WaitAgain, Return, BreakerType, NewBreaker
    <3>3. ASSUME \/ UNCHANGED vars \/ Tick \/ \E t \in Tids : GetIP(t)
                 \/ \E o \in Objects : CancelHosts(o, Hosts) \/ \E h \in Hosts : CancelHosts(o, {h})
          PROVE  FALSE
      BY <1>1, <3>3 DEF vars, Tick, GetIP, GetIPBegin, GetIPEnd, CancelHosts
    <3> QED
      BY <1>1, <3>1, <3>2, <3>3 DEF Next
  <2> DEFINE p == breaker[c].dnsstatus
             S == {i \in Slots : p.buf = buf /\ p.slot = i}
  <2>2. SetStatus(S, "Cancel") /\ NotifyAll
    BY <2>1 DEF CancelBreaker
  <2>3. Points(c)
    BY <1>1 DEF Pointers
  <2>4. \A i \in Slots : i \notin S => vec'[i] = vec[i]
    BY <2>2 DEF SetStatus
  <2>5. CASE c \notin Looking
    <3>1. S = {}
      BY <2>3, <2>5 DEF Points, Slots
    <3> QED
      BY <2>4, <2>5, <3>1
  <2>6. CASE c \in Looking
    <3>1. p.buf = buf /\ p.slot \in Slots /\ vec[p.slot].tid = call[c].tid
      BY <1>1, <2>3, <2>6 DEF Points
    <3>2. EntryOf(c) = p.slot
      BY <1>1, <3>1, FoundIsOwn DEF Inv, EntryOf
    <3>3. S = {p.slot} /\ S \in SUBSET Slots
      BY <3>1
    <3>4. vec'[p.slot].status = "Cancel"
      BY <2>0, <2>2, <3>1, <3>3, StatusSet DEF Statuses
    <3>5. call'[c].pc # "wait"
      BY <2>0, <2>2, Notified
    <3> QED
      BY <2>4, <2>6, <3>2, <3>3, <3>4, <3>5
  <2> QED
    BY <2>5, <2>6
<1>2. Inv /\ Pointers /\ [Next]_vars =>
        [\A c \in BreakerUsers \ moved :
           ~breaker[c].isbreak /\ breaker'[c].isbreak =>
             /\ c \in Looking => vec'[EntryOf(c)].status = "Cancel" /\ call'[c].pc # "wait"
             /\ \A i \in Slots : (c \in Looking /\ i = EntryOf(c)) \/ vec'[i] = vec[i]]_vars
  BY <1>1
<1> QED
  BY <1>2, Invariant, PointersInvariant, PTL DEF Spec, CancelReaches
=============================================================================
