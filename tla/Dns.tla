--------------------------------- MODULE Dns ---------------------------------
(***************************************************************************)
(* mars/comm/dns/dns.cc: GetHostByName starts a pthread that resolves the  *)
(* name, enters it in the process-wide sg_dnsinfo_vec and waits on         *)
(* sg_condition with a time-out; the pthread finds its entry by its tid    *)
(* and writes the outcome there.  Everything but getaddrinfo happens under *)
(* sg_mutex, which the waits release.  A tid is used again by the system   *)
(* once its pthread has exited and was detached.  A DNSBreaker holds the   *)
(* address of an entry's status: buffer and slot of the vector, which the  *)
(* vector does not keep up to date when it moves its elements.  The        *)
(* history variable moved records whose entry that has happened to; no     *)
(* guard looks at it.                                                      *)
(***************************************************************************)
EXTENDS Integers, Sequences

CONSTANTS
  Callers,      \* threads that look names up
  Objects,      \* DNS objects
  FuncObjects,  \* those constructed with a DNSFunc
  Hosts,
  BreakerUsers, \* callers that pass a DNSBreaker
  Tids,         \* pthread ids of the system
  Millsec       \* time-out of a lookup

ASSUME DnsAssumption ==
  /\ FuncObjects \subseteq Objects /\ BreakerUsers \subseteq Callers
  /\ Millsec \in Nat
(* The empty string that __GetIP resolves when its entry is gone.          *)
NoHost == "empty"

ASSUME NoHostAssumption == NoHost \notin Hosts

VARIABLES
  vec,     \* sg_dnsinfo_vec
  buf,     \* which allocation holds the vector
  cap,     \* its capacity
  call,    \* each caller's GetHostByName
  breaker, \* each caller's DNSBreaker
  thr,     \* the pthreads
  moved    \* callers whose entry was moved since it was added

vars == <<vec, buf, cap, call, breaker, thr, moved>>

Null == [buf |-> 0, slot |-> 0]
Unused == [pc |-> "unused", host |-> NoHost, func |-> FALSE, detached |-> FALSE]
NotCalling == [pc |-> "idle", tid |-> 0, dns |-> 0, host |-> NoHost, left |-> 0]
NewBreaker == [isbreak |-> FALSE, dnsstatus |-> Null]

Slots == 1..Len(vec)

(* The entries a search for tid t stops at: the first of them counts.      *)
Mine(t) == {i \in Slots : vec[i].tid = t}

First(S) == CHOOSE i \in S : \A j \in S : i <= j

SetStatus(S, st) == vec' = [i \in Slots |-> IF i \in S THEN [vec[i] EXCEPT !.status = st] ELSE vec[i]]

(* Mutant of Erase: the last entry goes.                                   *)
EraseLast(k) == vec' = [i \in 1..(Len(vec) - 1) |-> vec[i]]

Erase(k) == vec' = [i \in 1..(Len(vec) - 1) |-> IF i < k THEN vec[i] ELSE vec[i + 1]]

(* sg_condition.wait(lock, left): a wait whose time is up ends at once.    *)
Wait(left) == IF left = 0 THEN "timedout" ELSE "wait"

(* Mutant of NotifyAll: nobody is woken.                                   *)
NotifyNone == UNCHANGED call

(* sg_condition.notifyAll(): every waiter will contend for the mutex.      *)
NotifyAll ==
  call' = [c \in Callers |-> IF call[c].pc = "wait" THEN [call[c] EXCEPT !.pc = "woken"] ELSE call[c]]

-----------------------------------------------------------------------------
(* GetHostByName.                                                          *)

(* push_back moves the elements to a larger buffer when it is full.        *)
Grow ==
  IF Len(vec) < cap THEN UNCHANGED <<buf, cap>>
  ELSE buf' = buf + 1 /\ cap' = IF cap = 0 THEN 1 ELSE 2 * cap

(* The lookups under way, and what moves their entries: push_back moves    *)
(* all of them to its new buffer, erase those behind the erased one.       *)
Looking == {d \in Callers : call[d].pc # "idle"}
EntryOf(d) == First(Mine(call[d].tid))
GrowMoves == moved' = IF Len(vec) < cap THEN moved ELSE Looking
EraseMoves(c) == moved' = (moved \cup {d \in Looking : EntryOf(d) > EntryOf(c)}) \ {c}

Enter(c, o, h, t) ==
  /\ call[c].pc = "idle" /\ ~breaker[c].isbreak
  /\ thr[t] = Unused
  /\ thr' = [thr EXCEPT ![t] = [pc |-> "begin", host |-> NoHost, func |-> FALSE, detached |-> FALSE]]
  /\ vec' = Append(vec, [tid |-> t, dns |-> o, host |-> h, status |-> "Doing"])
  /\ Grow /\ GrowMoves
  /\ breaker' = IF c \in BreakerUsers
                THEN [breaker EXCEPT ![c].dnsstatus = [buf |-> buf', slot |-> Len(vec) + 1]]
                ELSE breaker
  /\ call' = [call EXCEPT ![c] = [pc |-> Wait(Millsec), tid |-> t, dns |-> o, host |-> h, left |-> Millsec]]

(* A broken DNSBreaker refuses the lookup; the caller makes a new one.     *)
Refused(c) ==
  /\ call[c].pc = "idle" /\ breaker[c].isbreak
  /\ breaker' = [breaker EXCEPT ![c] = NewBreaker]
  /\ UNCHANGED <<vec, buf, cap, call, thr, moved>>

(* The timed wait ends, but sg_mutex has still to be taken again.          *)
WaitTimesOut(c) ==
  /\ call[c].pc = "wait" /\ call[c].left = 0
  /\ call' = [call EXCEPT ![c].pc = "timedout"]
  /\ UNCHANGED <<vec, buf, cap, breaker, thr, moved>>

SpuriousWakeup(c) ==
  /\ call[c].pc = "wait"
  /\ call' = [call EXCEPT ![c].pc = "woken"]
  /\ UNCHANGED <<vec, buf, cap, breaker, thr, moved>>

StatusOf(c) == vec[EntryOf(c)].status

(* Mutant of Outcome: the result of the wait is ignored.                   *)
OutcomeUntimed(c) == StatusOf(c)

(* ETIMEDOUT overrides whatever the entry says.                            *)
Outcome(c) == IF call[c].pc = "timedout" THEN "Timeout" ELSE StatusOf(c)

WaitAgain(c) ==
  /\ call[c].pc \in {"woken", "timedout"} /\ Mine(call[c].tid) # {}
  /\ Outcome(c) = "Doing"
  /\ call' = [call EXCEPT ![c].pc = Wait(call[c].left)]
  /\ UNCHANGED <<vec, buf, cap, breaker, thr, moved>>

(* ~Thread detaches the pthread, which may still be resolving.             *)
Detach(t) ==
  thr' = [thr EXCEPT ![t] = IF @.pc = "exited" THEN Unused ELSE [@ EXCEPT !.detached = TRUE]]

(* Mutant of Return: the breaker keeps the address of the erased entry.    *)
ReturnKeepsAddress(c) ==
  /\ call[c].pc \in {"woken", "timedout"} /\ Mine(call[c].tid) # {}
  /\ Outcome(c) # "Doing"
  /\ Erase(EntryOf(c)) /\ EraseMoves(c)
  /\ Detach(call[c].tid)
  /\ call' = [call EXCEPT ![c] = NotCalling]
  /\ UNCHANGED <<buf, cap, breaker>>

(* The entry is erased; true is returned for kGetIPSuc, false otherwise.   *)
Return(c) ==
  /\ call[c].pc \in {"woken", "timedout"} /\ Mine(call[c].tid) # {}
  /\ Outcome(c) # "Doing"
  /\ breaker' = [breaker EXCEPT ![c].dnsstatus = Null]
  /\ Erase(EntryOf(c)) /\ EraseMoves(c)
  /\ Detach(call[c].tid)
  /\ call' = [call EXCEPT ![c] = NotCalling]
  /\ UNCHANGED <<buf, cap>>

-----------------------------------------------------------------------------
(* __GetIP on pthread t.                                                   *)

GetIPBegin(t) ==
  /\ thr[t].pc = "begin"
  /\ thr' = [thr EXCEPT ![t].pc = "resolve",
                        ![t].host = IF Mine(t) = {} THEN NoHost ELSE vec[First(Mine(t))].host,
                        ![t].func = Mine(t) # {} /\ vec[First(Mine(t))].dns \in FuncObjects]
  /\ UNCHANGED <<vec, buf, cap, call, breaker, moved>>

Exit(t) == thr' = [thr EXCEPT ![t] = IF @.detached THEN Unused ELSE [@ EXCEPT !.pc = "exited"]]

(* Mutant of Found: the entry is looked up by its host.                    *)
FoundByHost(t) == {i \in Slots : vec[i].host = thr[t].host}

(* The second search, after getaddrinfo.                                   *)
Found(t) == Mine(t)

(* The name is resolved or not; the outcome goes to the entry, if it is    *)
(* still there.  getaddrinfo's success without an entry notifies nobody.   *)
GetIPEnd(t, ok) ==
  /\ thr[t].pc = "resolve"
  /\ Exit(t)
  /\ IF Found(t) = {} THEN UNCHANGED vec
     ELSE SetStatus({First(Found(t))}, IF ok THEN "Suc" ELSE "Fail")
  /\ IF ok /\ Found(t) = {} /\ ~thr[t].func THEN UNCHANGED call ELSE NotifyAll
  /\ UNCHANGED <<buf, cap, breaker, moved>>

-----------------------------------------------------------------------------
(* Cancel, by any thread.                                                  *)

(* Cancel(host) and, without a host, Cancel() and the destructor.          *)
CancelHosts(o, hs) ==
  /\ SetStatus({i \in Slots : vec[i].dns = o /\ vec[i].host \in hs}, "Cancel")
  /\ NotifyAll
  /\ UNCHANGED <<buf, cap, breaker, thr, moved>>

(* The write through dnsstatus goes to whatever is in that slot now.  In   *)
(* an old buffer, which push_back has freed, or past the end, it is        *)
(* undefined behaviour; what it does to memory that is no longer the       *)
(* list's is not modelled, but it reaches no entry: the cancel is lost.    *)
CancelBreaker(c) ==
  /\ c \in BreakerUsers
  /\ breaker' = [breaker EXCEPT ![c].isbreak = TRUE]
  /\ LET p == breaker[c].dnsstatus
     IN SetStatus({i \in Slots : p.buf = buf /\ p.slot = i}, "Cancel")
  /\ NotifyAll
  /\ UNCHANGED <<buf, cap, thr, moved>>

(* Time passes for every caller: left is time_end - gettickcount().        *)
Tick ==
  /\ \E c \in Callers : call[c].left > 0
  /\ call' = [c \in Callers |-> IF call[c].left > 0 THEN [call[c] EXCEPT !.left = @ - 1] ELSE call[c]]
  /\ UNCHANGED <<vec, buf, cap, breaker, thr, moved>>

-----------------------------------------------------------------------------
Init ==
  /\ vec = << >> /\ buf = 0 /\ cap = 0
  /\ call = [c \in Callers |-> NotCalling]
  /\ breaker = [c \in Callers |-> NewBreaker]
  /\ thr = [t \in Tids |-> Unused]
  /\ moved = {}

GetHostByName(c) ==
  \/ \E o \in Objects, h \in Hosts, t \in Tids : Enter(c, o, h, t)
  \/ Refused(c) \/ SpuriousWakeup(c)
Resume(c) == WaitAgain(c) \/ Return(c)
GetIP(t) == GetIPBegin(t) \/ \E ok \in BOOLEAN : GetIPEnd(t, ok)

Next ==
  \/ \E c \in Callers : GetHostByName(c) \/ WaitTimesOut(c) \/ Resume(c) \/ CancelBreaker(c)
  \/ \E t \in Tids : GetIP(t)
  \/ \E o \in Objects : CancelHosts(o, Hosts) \/ \E h \in Hosts : CancelHosts(o, {h})
  \/ Tick

Spec == Init /\ [][Next]_vars

(* Callers are scheduled when their wait has ended and time passes; the    *)
(* resolver may take for ever.                                             *)
FairSpec ==
  /\ Spec
  /\ \A c \in Callers : WF_vars(Resume(c)) /\ WF_vars(WaitTimesOut(c))
  /\ WF_vars(Tick)

-----------------------------------------------------------------------------
Statuses == {"Doing", "Timeout", "Cancel", "Suc", "Fail"}

(* Types of the variables.                                                 *)
TypeOK ==
  /\ vec \in Seq([tid : Tids, dns : Objects, host : Hosts, status : Statuses])
  /\ buf \in Nat /\ cap \in Nat /\ Len(vec) <= cap
  /\ call \in [Callers -> [pc : {"wait", "woken", "timedout"}, tid : Tids, dns : Objects,
                           host : Hosts, left : 0..Millsec] \cup {NotCalling}]
  /\ breaker \in [Callers -> [isbreak : BOOLEAN, dnsstatus : [buf : Nat, slot : Nat]]]
  /\ thr \in [Tids -> [pc : {"unused", "begin", "resolve", "exited"}, host : Hosts \cup {NoHost},
                       func : BOOLEAN, detached : BOOLEAN]]
  /\ moved \subseteq Looking

(* GetHostByName's assertions (dns.cc:226 and 254): the list holds exactly *)
(* one entry for each lookup in progress, with its host, and its pthread   *)
(* was started for it: one that outlived an earlier lookup, or a reused    *)
(* tid, never has an entry.                                                *)
OwnEntry ==
  /\ \A i, j \in Slots : vec[i].tid = vec[j].tid => i = j
  /\ \A c \in Callers : call[c].pc # "idle" =>
       \E i \in Slots : vec[i].tid = call[c].tid /\ vec[i].host = call[c].host
  /\ \A i \in Slots :
       /\ \E c \in Callers : call[c].tid = vec[i].tid /\ call[c].pc # "idle"
       /\ thr[vec[i].tid] # Unused /\ ~thr[vec[i].tid].detached

(* A lookup succeeds only with the answer of its own pthread to its own    *)
(* name, however many late pthreads are still resolving (dns.cc:58).       *)
AnswerIsOwn ==
  [][\A c \in Callers :
       (call[c].pc # "idle" /\ call'[c].pc = "idle" /\ Outcome(c) = "Suc") =>
         thr[call[c].tid].pc = "exited" /\ thr[call[c].tid].host = call[c].host]_vars

(* No wake-up is lost: a caller that sleeps in the wait (dns.cc:217) has   *)
(* an entry that is still being resolved.  An answer or a Cancel that      *)
(* reaches an entry also wakes its caller, whoever's breaker it came       *)
(* through.  CancelReaches says when a Cancel(breaker) reaches its entry.  *)
NoLostWakeup ==
  \A c \in Callers : call[c].pc = "wait" => StatusOf(c) = "Doing"

(* Cancel(breaker) (dns.cc:298) of a lookup whose entry has not been moved *)
(* since GetHostByName took its address cancels that lookup and wakes its  *)
(* caller, and it never touches another's entry; between lookups it        *)
(* touches none.  After a move the address is stale: the cancel is lost in *)
(* freed memory or hits another lookup, and nothing is claimed.            *)
CancelReaches ==
  [][\A c \in BreakerUsers \ moved :
       ~breaker[c].isbreak /\ breaker'[c].isbreak =>
         /\ c \in Looking => vec'[EntryOf(c)].status = "Cancel" /\ call'[c].pc # "wait"
         /\ \A i \in Slots : (c \in Looking /\ i = EntryOf(c)) \/ vec'[i] = vec[i]]_vars

(* GetHostByName returns, if only by its time-out, even when getaddrinfo   *)
(* does not.                                                               *)
LookupReturns ==
  \A c \in Callers : call[c].pc # "idle" ~> call[c].pc = "idle"
=============================================================================
