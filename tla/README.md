# Verification of LearnDiary: the Mars `comm` library

LearnDiary is a collection of learning projects. Most of it is iOS sample applications and
vendored libraries; the part with a concurrent system of its own is `src/mars/comm`, the
communication library of Mars, which the demo application `src/mars/MessageQueue` is built on.
Everything else in that library (alarms, sockets, DNS, coroutines) runs on its message queues and
its thread class, so those were modelled first; alarms, the TCP client, the staggered connect and DNS
follow.

## Inventory

| Component | State it keeps | Operations | Interacts with |
|---|---|---|---|
| message queue, RunLoop (`messagequeue/message_queue.cc`) | `sg_messagequeue_map`: per queue the handlers, the message list, the stack of running loops, `breakflag` | install/uninstall, post, broadcast, singleton, faster, three cancels, four waits, break, `RunLoop::Run` | one global mutex; one condition per queue, per message and per running loop |
| Thread (`unix/thread/thread.h`) | `RunnableReference` shared by the object and its pthread: count, tid, `isjoined`, `isended`, cancel flag, pending signal | four starts, two cancels, join, kill, destruction; the routines of the pthread | pthreads, Condition |
| Condition (`unix/thread/condition.h`) | a pthread condition and `anyway_notify_` | waits, timed waits, notifies | Thread, queues, AsyncResult |
| MessageQueueCreater (`messagequeue/message_queue.cc`) | `messagequeue_id_`, `thread_`, `messagequeue_mutex_` | create, cancel-and-wait, create-new, release-new, destroy | Thread and queue map |
| AsyncResult, WaitInvoke (`messagequeue/message_queue.h`) | shared result cell, callback | get, set, cancel, invoke across queues | message bodies own results |
| Alarm (`alarm.cc`) | status, sequence, `runthread_` | start, cancel, time-out, destruction | default queue, broadcast, Thread |
| ANR checker (`anr.cc`) | list of scopes with deadlines | add, remove, check thread | RunLoop around each handler call |
| Socket breaker, poll, select (`unix/socket/`) | a pipe and `broken_` | break, clear, poll | TcpClient and others |
| TcpClient (`socket/tcpclient.cc`) | status, write list, two flags read without a lock | connect, read, write, disconnect, join; `__Run` | Thread, breaker, the `MTcpEvent` object |
| TcpClientFSM, ComplexConnect (`socket/`) | one state machine per address with its socket and deadline | staggered connects, proxy dialogue, verification | select, breaker, an observer |
| TcpServer, UdpClient, UdpServer (`socket/`) | as TcpClient | as TcpClient | Thread, breaker |
| DNS (`dns/dns.cc`) | shared list of lookups by thread id | query with time-out, cancel | Thread, Condition |
| core service (`corepattern/`) | table of services | create, release, switch | message queue |
| frequency limit, AutoBuffer, PtrBuffer | window of time stamps; position/length/capacity | check; read, write, seek, resize | none: sequential |
| GCDAsyncSocket packets (`src/Socket`) | read packet, pre-buffer | length computation, terminator search | sequential algorithms |
| dispatch queue pools (`src/GCD`) | queue array, 32-bit counter | get next queue | atomic counter |

The hard behaviours: clients call the queue in every state of its loop; handlers run, and
messages are deleted, outside the mutex; loops nest inside handlers; waits are not repeated after
a wake-up; `join` and `kill` read `tid()` after they released the lock; cancels race with timed
waits; `pthread_create` may fail; queues are stopped and created again by different threads. An
alarm's message is seen by every alarm and passed between queues while the alarm is cancelled,
restarted or destroyed. TcpClient's thread builds the set it selects for step by step while clients
change what belongs into it. ComplexConnect has several sockets, deadlines and intervals in one
select. DNS resolvers outlive their lookup, thread ids are used again, and a breaker points into a
vector that moves.
`PROJECT.json` lists each at its line under `hazards`.

What makes the modelled components correct:

* *Queue*: the loop does not sleep past a message or a break; every waiter is woken; a post id
  names one message; a cancelled message does not run; after `CancelAndWait` the handler is
  silent, so that its owner may be freed; a handler's message stays alive; break ends the queue.
* *Thread*: the shared reference is deleted exactly when both users are done; one pthread at a
  time; each pthread is joined or detached once; cancel ends the thread and does not leak into the
  next start; `join` returns.
* *Creater*: the id handed out names a live queue; no queue is lost so that nobody can stop it; a
  stop that returns has really stopped its queue, and stops do return.
* *Alarm*: no time-out before its delay, none for a start that was cancelled; every start comes to
  one end; nothing reaches the callback object once the destructor has returned.
* *TcpClient*: the `MTcpEvent` object sees one connect, the written ids in order, and one last event;
  nothing a client asks for is slept over; a broken select is not taken for a connection; a hang-up
  ends the loop.
* *ComplexConnect*: no socket leaks and only the winner stays open; no deadline is slept over; the
  call returns.
* *DNS*: each lookup has its own entry and gets its own answer; no wake-up is lost; a breaker cancels
  its own lookup; a lookup returns even if the resolver does not.

## Modules

| Module | Models |
|---|---|
| `MessageQueue` | one queue with its loop thread and its client threads |
| `MessageQueueProofs` | type correctness and quiescence of `CancelAndWait` |
| `MessageListProofs` | EXTENDS `MessageQueueProofs`; the message list, its waiters and the loop's sleep |
| `Thread` | the Thread object, its reference and the pthreads it starts one after the other |
| `ThreadProofs` | type correctness, reference counting, single thread; late and lost runs; pthreads given back once |
| `MessageQueueCreater` | EXTENDS `Thread`; creation, stopping and re-creation of queues |
| `MessageQueueCreaterProofs` | the current queue, no lost queue, stops, destruction order |
| `Alarm` | alarms on the default queue and on another, with their queues' loops and `runthread_` |
| `AlarmProofs` | silence after destruction, no early time-out, one outcome per start |
| `Dns` | `GetHostByName` of several callers, the shared list, the resolver pthreads, the cancels |
| `DnsProofs` | own entries, no lost wake-up, own answers, cancels that reach their lookup |
| `TcpEvents` | abstract: what TcpClient promises the `MTcpEvent` object |
| `TcpClient` | the TCP client with its thread, client threads, breaker and peer; implements `TcpEvents` |
| `TcpClientProofs` | its invariants, and that its steps are steps of `TcpEvents` |
| `TcpClientFSM` | operators: one connection attempt, plain or through a proxy |
| `ComplexConnect` | EXTENDS `TcpClientFSM`; staggered connects to several addresses in one select |
| `ComplexConnectProofs` | sockets accounted for, deadlines kept |
| `MCMessageQueue`, `MCAlarm` | message timings, symmetry and constructor choices for TLC |

`map` in `PROJECT.json` gives the source lines of every definition. Definitions commented
`Mutant of X` are broken variants of `X`; they are not part of any specification and serve to
show that each property can fail.

**MessageQueue.** Every API function holds `sg_messagequeue_map_mutex` for its whole body and is
one action; calls that return early without an effect are stuttering steps. An iteration of
`RunLoop::Run` is one action from the top of the loop to the point where it releases the mutex
(`LoopBreak`, `LoopSleep`, `LoopRun`), followed by `HandlerCall`, `HandlerReturn` and `LoopEnd`
without it. Loops nest: `frame[k]` is the `RunLoopInfo` and the locals of the k-th activation.
`ScopeRegister::CancelAndWait` is three actions, as it takes the mutex three times. Message bodies
are abstracted to titles. A wrapper is named by its allocation number: since the code only ever
pushes to the back, list order is numeric order and the list is a set; the same holds of handlers.
Time is what is left until a message is due (`__ComputerWaitTime`), and `Tick` lets it pass.

**Thread.** Each method is one action under `splock`, except that `join` and `kill` continue after
the unlock in `JoinBegin`/`JoinEnd` and `KillSend`. The pthread goes through the routine it was
started with; the timed wait on `condtime` is split where `anyway_notify_` is tested without the
condition's mutex, so a cancel can fall into every gap. A failed `ASSERT` only logs in a release
build (`assert/__assert.c:34-38`), so a join of a thread that is joined already goes on and its
`pthread_join` fails at once (`Unjoinable`). Only that nobody joins a thread with `outside_join_` is a
guard: no caller does. `pthread_create`, `pthread_join` and `pthread_detach` are external, known by
what they do to a pthread (`reclaim`).

**MessageQueueCreater** reuses the actions of `Thread` with its own variables beside them.
`messagequeue_mutex_` is held from `start()` until the queue is in the map and taken by the pthread
before it runs the loop, so creation is one action; stopping is not, as the mutex is released
before the join, and by then another thread may have restarted or joined `thread_`. `outside_join` distinguishes a creater object from the static
`CreateNewMessageQueue`/`ReleaseNewMessageQueue`. Of a queue only its map entry and its break flag
are kept: that a broken loop ends is `BreakEndsQueue` of `MessageQueue`, and an assumption here.

**Alarm.** `Start` and `Cancel` are one action each (both hold `sg_lock`, as `OnAlarm` does); a successful
`Start` takes a new `sg_seq` and broadcasts a delayed message on the default queue. `Take` is what a
queue's loop does under the map mutex: it picks a due message and the handlers installed now. Then
`OnAlarm` is called for each of them without it: it hands the message on to the alarm's own queue
(`OnAlarmForward`), ignores it, or accepts it and starts `runthread_` or invokes the callback
(`OnAlarmAccept`). The destructor is six actions, since it waits for both handlers and for the
thread in between. The loop is that of `MessageQueue` reduced to taking, calling and waiting;
which of several due messages comes first is left open. `outcome` is a history variable: what became
of each start.

**Dns.** `sg_mutex` is held except while waiting and resolving, so a lookup is `Enter`, then
`WaitAgain` or `Return` after each wake-up; a resolver is `GetIPBegin` and `GetIPEnd`. The vector is
a sequence with a buffer number and a capacity, because the `DNSBreaker` keeps an address in it:
`CancelBreaker` writes to that slot of that buffer, whoever owns it by now. A write into a buffer that
was freed is undefined behaviour; what it does to other memory is not modelled, but it reaches no
entry. The history variable `moved` records whose entry has been moved by a `push_back` or an `erase`
since its address was taken. A `tid` is free again when its pthread has exited and was detached.

**TcpClient and TcpEvents.** The methods of the client are split at every unlocked read of `status_`
and at every lock, `__Run` also between adding the socket for reading and for writing, between the
select, the clearing of the breaker and the tests, and around each callback. The peer is free to
send, close, reset and hang up, the last also while the connect is under way, when poll reports
nothing else. `TcpEvents` has eight kinds of steps over what the `MTcpEvent`
object and the callers can see; the mapping takes `will_disconnect_`, `writedbufid_` and
`have_read_data_` for its variables, and the history variables `phase` and `wrote` record the
callbacks made.

**TcpClientFSM and ComplexConnect.** A machine is a record and an operation maps it to the set of
machines that the network can make of it, with the check status of each proxy dialogue as its
control state. One turn of `ConnectImpatient`'s loop is `PreSelect` or `StartNext`, one of
`SelectReturns` and `SelectEnds`, then one step per machine (`Goes`, `Fails`, `Wins`, `Skip`) and
`EndOfLoop`; `CloseAll` is the clean-up after it. Whether a connection is verified is chosen for each
address, as `OnShouldVerify` is asked for each. Time passes in the select only. `open` is the
system's view of the sockets, beside the machines' own.

## Runs

| Run | Instance | What it checks |
|---|---|---|
| `mq_safety` | 2 clients, 3 sequence numbers, 2 messages, 2 nested loops (about 640,000 states) | types; every waiter has somebody to wake it; quiescence after `CancelAndWait` |
| `mq_messages` | 1 client, 3 messages, spurious wake-ups (about 680,000 states) | no oversleeping, unique post ids, cancelled messages do not run, a message not found is never found again |
| `mq_live` | 1 client, 2 one-shot messages, fair (about 42,000 states) | break ends the queue, waits return, messages are handled |
| `thread` | 1 client, 3 starts, failing `pthread_create`, fair (about 520,000 states) | reference counting, one pthread at a time, each given back exactly once; cancels take effect and do not leak; cancel ends; join returns |
| `creater` | 2 clients, 3 queues, failing start, fair (about 17,000 states) | the current id is live, no orphan queue, a stop that returned stopped its queue, destruction order, stops return and broken queues end |
| `alarm` | 2 alarms on one queue or on two, 2 starts, fair (about 326,000 states) | silence after destruction, no early time-out, one outcome per start, every start ends |
| `dns` | 2 callers, 2 objects, 2 names, 2 thread ids, fair (about 146,000 states) | own entry, no lost wake-up, own answer, breakers cancel their own lookup, lookups return |
| `tcpclient` | 2 clients, 2 buffers, fair (about 977,000 states) | refinement of `TcpEvents` with its liveness, no outdated select, no broken select taken for a connection, a hang-up ends the loop |
| `complexconnect` | 3 addresses, 2 at a time, 3 kinds of proxy, fair (about 2,000,000 states) | sockets accounted for, deadlines kept, the call returns |
| `mq_alive`, `mq_spurious`, `creater_join_race` | smallest that show it | violations, see Findings |

*Bounds.* `MaxSeq` counts handlers and posts together; three are the AsyncInvoke handler that
every queue has and two more, enough for a message of one handler to be replaced while another
is pending or running. `MaxAlloc` 2 or 3 lets a message be replaced and posted again; `MaxDepth` 2
is the shortest nesting with an inner and an outer loop. `Mixed` has the three kinds of timing with
delays on both sides of one tick, and `DefaultWait` is longer than all of them. One title is
enough: titles are only compared, and two handlers already give two classes of messages. `MaxStarts`
3 is a start, a restart, and one more that finds what the restart left behind. Two clients are the
least that interfere; the theorems show that the number does not matter for what they state.
`Thread` runs with one client: two callers of the same object run into the join race of the
findings, which the creater's runs show. Two alarms on the same and on different queues are the least
that see each other's messages, and two starts let the message of the first arrive in the second.
Two callers and two pthread ids let an id be used again while the other lookup is under way, and the
second entry make the vector move. `MaxWrites` 2 lets a buffer arrive while another is being sent,
`MaxLen` 1 one partial send. In `complexconnect` two of three addresses may be open at once, the
time-outs and intervals lie on both sides of each other, and `MaxPieces` bounds how often, over all
connections, data comes or goes in part. A SOCKS5 dialogue takes two answers, and one more
for authentication or verification, so three pieces reach its end.

*Deadlock* is checked, with the finished system (`Terminated`) allowed to stutter, except where the
system may stop. In `creater` two callers may run into what the findings describe, a join that waits
for a detached pthread. In `alarm` and `tcpclient` the bounded
clients have done all they may do, and in `complexconnect` the call has returned; there liveness
properties say that the system does not stop before.

*Fairness.* `MessageQueue!FairSpec`: the queue's thread and clients inside `CancelAndWait` are
scheduled (weak fairness), time passes and timed waits end, and a handler returns (strong
fairness, because a nested loop disables its return for a while). `mq_live` posts one-shot
messages only, since a periodic message never leaves the list by itself. `Thread!FairSpec`: the
pthread is scheduled, its waits time out and `run()` returns; a client in `join` or `kill` goes on.
`CFairSpec`: pthreads are scheduled, broken loops end and a client goes on with a stop it began.
`Alarm!FairSpec`: the queues' threads and `runthread_` are scheduled, callbacks return, time passes,
and a destructor that has begun goes on. `Dns!FairSpec`: callers whose wait has ended are scheduled
and time passes; nothing is assumed of the resolver, which may hang in `getaddrinfo` for ever.
`TcpClient!FairSpec`: a client in the middle of a call goes on, and the object's thread is scheduled,
with strong fairness because it competes with the clients for two mutexes that are free again and
again. `ComplexConnect!FairSpec`: the calling thread is scheduled and its select ends. No fairness is
assumed of a client's decision to call anything, nor of the peer.

## Findings

* **A periodic message can be deleted under its handler** (`mq_alive`,
  `message_queue.cc:806`). It stays in the list while its handler runs, and a cancel or a
  replacement from another thread, or from the handler itself, deletes the object that the handler
  was passed by reference.
* **Waits are not repeated after a wake-up** (`mq_spurious`, `message_queue.cc:242`). A spurious
  wake-up makes `CancelAndWait` return while the handler still runs. Without spurious wake-ups the
  property holds and is proved.
* **`join` reads `tid()`, and the creater calls it, after the unlock** (`creater_join_race`,
  `message_queue.cc:880`, `thread.h:293`). If another thread creates the next queue between
  `CancelAndWait`'s unlock and its join, two stops join the same new thread and the second fails
  `join`'s assertion: the situation the comment at the top of `thread.h` warns of. In a release build
  the assertion only logs, the second `pthread_join` fails at once, and `CancelAndWait` returns while
  its queue's thread still runs. What is left of the promise is `StoppedMeansEnding`: that thread's
  queue is broken, and the stop of an earlier queue still waits for it, which keeps the destructor
  away. `StopReturns` excepts a join whose pthread was detached under it.

Observations on which the repository promises nothing, so that they are no runs of their own:

* When poll reports only a hang-up while `TcpClient` connects, neither `Exception_FD_ISSET` nor
  `Write_FD_ISSET` is set (`socketselect.cc:203-217`) and the code falls through to `kTcpConnected`
  and `OnConnect` (`tcpclient.cc:215-235`) on a socket that is not connected. `ConnectIsReal` names
  this as the only exception; `HangUpEnds` says that the loop then ends.
* A `DNSBreaker` keeps the address of a vector element (`dns.cc:209`). Once the element was moved,
  `Cancel(DNSBreaker&)` (`dns.cc:302`) writes into freed memory or into another lookup's entry: its
  own lookup sleeps on until the time-out, and another may be cancelled instead. `CancelReaches`
  holds for entries that have not been moved.

`ReclaimedOnce` of Thread is stated for objects whose `pthread_create` has not failed: after a
failure `tid` still names the previous pthread, which `start` has detached already, and a later
start or destruction detaches it again.

## What is proved

Every safety invariant and every action property of the passing runs is also a theorem, for every set
of clients, callers, alarms or addresses and every value of the bounds. `PROJECT.json` lists them
under `theorems`. The constants are assumed to be of their kind (`BoundsAssumption`,
`StartsAssumption`, `AlarmAssumption`, `ConnectAssumption`, ...); beyond that only what the code
tests: `NoHostAssumption` says that no lookup is for the empty name, which `GetHostByName` refuses
(`dns.cc:185`). Two theorems have a hypothesis of their own, named below. Type invariants are proved
first (`TypeCorrect`, `ThreadTypeCorrect`, `TcpTypeCorrect`); that least elements of sets of numbers
exist (`MinIn`) comes from well-founded induction.

**Queue: quiescence** (`MessageQueueProofs`). `CancelAndWaitCorrect` assumes `~SpuriousWakeups`, which
`mq_spurious` shows is needed. `CancelAndWaitQuiesces` is not inductive: it says nothing of clients
still on their way. `QuiesceInv` adds that what a loop calls or will call is published in its
`runing_handler` (`Published`); that a client inside `CancelAndWait` has already uninstalled its
handler and waits on the *outermost* loop that publishes it (`CancelsInOrder`); and that no loop
publishes a quiesced handler (`Silent`). Since inner loops end before outer ones reach their top, the
wake-up from the outermost loop finds the handler in none.

**Queue: list, waiters and sleep** (`MessageListProofs`). `PostIdsAreUnique`, `CancelledDoesNotRun`,
`WaitersAreNotified`, `LoopDoesNotOversleep` and `GoneMessagesStayGone` hold with spurious wake-ups
too. The invariant `ListInv` is about who is responsible for a message: it is in the list, or exactly
one loop `Owns` it, having taken it out and having still to delete it; only the innermost loop can be
at another place than inside a handler; and the id of a one-shot run is not in the list any more
(`Loops`). From this follow that a cancel that found its post in the list cannot meet a run of it
(`Cancels`), and that who waits for a wrapper waits for one that is still `Awaited`, who waits for a
loop for one that still has a running post (`GoodWaiter`). `NoOversleep` is inductive beside it,
because every way to put a message into the list or to bring one forward also ends the sleep. Most
actions only let the list shrink and the loops go on (`Calm`); the lemmas treat those steps at once
and each action that posts, replaces, takes or deletes by itself.

**Thread** (`ThreadProofs`). `ReferenceSafe` and `SingleThread` follow from `LifetimeInv`, by which the
count is one for the object plus one for a pthread that has not cleaned up, only number `tid` can be
such a pthread, and `isended` says exactly that there is none. `OneLateRun` needs to know where the
pthread is after its late run: past every test of the flag, or where the next test finds it set
(`LateInv`). `UncancelledRuns` needs that a flag seen set was set for the present start, as `start`
clears it before the pthread exists (`CancelInv`). `GivenBackOnce` and `NoneLeaked` assume `OneOwner`,
that at most one client uses the object: their invariant `OwnerInv` says that whoever joins, joins the
*current* pthread, and that `isjoined` tells whether that one is given back or being joined; with a
second caller a join may meet a restart and this is what the join race breaks. The
destructor and the other methods are still interleaved with the pthread in every way.

**Creater** (`MessageQueueCreaterProofs`). Each step of `CSpec` is a step or a stutter of `Thread`
(`CreaterStepIsThreadStep`), so `LifetimeInv` holds of the creater too. `CurrentQueueIsLive`,
`NoQueueIsLost` and `StopWaitsForExit` come from `CreaterInv` together with it: each queue's map entry
goes with the position of its pthread (`QueueOfThread`), `messagequeue_id_` is the only unbroken queue
and that of the current thread (`Named`), and a client that stops a queue joins that queue's thread
*or a later one* (`Stops`). A later thread can only have been started after the earlier one exited, so
a join that ends has waited long enough. For one that fails, `FailedJoin` shows that the pthread had
exited or that another stop is in `pthread_join` for it; `OneStop` (no two clients stop the same
queue) makes that the stop of an *earlier* queue, `ExitedGivenBack` says that what has been joined or
detached while the creater lives has exited, and `Ends(t)` holds of every stopped queue's thread. `MutexIsAlive` adds `Awaited`: the queue of a pthread that has
not got the mutex yet is still named by the creater or being stopped by a client, either of which
keeps the destructor away.

**Alarm** (`AlarmProofs`). A start's number is new (`Fresh`), so whatever is on its way under that
number is the start's own: the broadcast, the message handed on to the alarm's queue, or one callback
in a list, in a loop or in `runthread_`. `Placed` says in which queue which message can be,
`Late` that the messages of the start in force are as late as its delay says (`NeverEarly`), `Outcomes`
and `Single` that a callback on its way belongs to an accepted start and is the only one
(`OneOutcomePerStart`). `Stages` says what each step of the destructor has put an end to; the order
`Cancel`, `reg_`, `reg_async_`, messages, join works because no carrier can feed one that was stopped
before it (`DestroyedAlarmIsSilent`).

**DNS** (`DnsProofs`). `EntriesAreOwn`, `SleepersAreAnswered`, `AnswersAreOwn`, from an invariant with
three more parts: no two callers wait for the same pthread (`OwnThread`), which with `OwnEntry` makes
the search by thread id find the caller's own entry although ids are used again and the vector is
shifted by `erase`; the entry of a sleeper is undecided (`SleepersUndecided`), also after a
`DNSBreaker` has written into a slot that belongs to another lookup; and a pthread that resolves,
resolves the name of its entry and has exited when the entry says so (`Answers`). `CancelsReach` needs
`Pointers`: a breaker holds no address between lookups and, until its entry is moved, the buffer and
slot of its own entry during one.

**TcpClient** (`TcpClientProofs`). `ConnectIsReal` needs that before the connection stands only a
`Disconnect` can set the breaker, and announces itself by `will_disconnect_` first
(`OnlyDisconnect`), so that an empty result of the connecting select is never taken for a connection
and anything but a writable socket or a hang-up ends the attempt (`ConnectFound`); the status and the events follow the thread's position (`StatusAt`, `PhaseAt`).
`SelectFresh` speaks of the thread in the select only; `Announced` extends it to the steps that build
the set, where a change not yet seen is covered by the breaker or by a client on its way to it, and
`Writable` to the steps that use the result, since only the thread takes buffers out of the list.
`ReportsEvents`: each step of `TcpClient` is a step or a stutter of `TcpEvents`. `Counted` (accepted
buffers are in the list, being reported, or reported) is what keeps the ids of `OnWrote` in order and
below those `Write` returned. It is the safety half of `EventOrder`.

**ComplexConnect** (`ComplexConnectProofs`). `SocketsAreAccounted` rests on `Unstarted` (what is not
started has no socket, a live machine that has not ended has one) and `Sockets` (the open sockets are
those of the machines and the one to be returned). `SelectIsOnTime` rests on `OnTime` and on `Looked`
(machines that `AfterSelect` has been through have not ended). The two meet in the type of `left`, a
natural number: as no select sleeps past a time-out, what is left of one is never negative. So
`TypeCorrect` is proved together with `OnTime`, not before it.

*Only model-checked* is liveness, which the prover does not handle: `BreakEndsQueue`, `WaitersReturn`,
`MessagesHandled`, `CancelEnds`, `JoinReturns`, `StopReturns`, `BrokenQueueEnds`, `EveryStartEnds`,
`LookupReturns`, `HangUpEnds`, `ConnectReturns`, and the liveness half of `EventOrder`. Each inductive invariant was
model-checked on the instance of its component's run before it was proved.

## What is not modelled

* In the queue: `RunLoop`'s `duty_func_` and custom `RunloopCond` breakers (used by the coroutine
  code), the ANR scope around a handler call, and the wrap of the 32-bit sequence counter. Functions
  that only read (`RunningMessage`, `RunningMessageID`, `Handler2Queue`) have no action.
* In Thread: `unsafe_exit` and stack-size accessors; nothing in the repository calls them.
* In the creater: `CreateNewMessageQueue` for a thread that exists already, and the failing start of
  the static `CreateNewMessageQueue`, whose only effect is a use of a freed spin lock. The system may
  give a new pthread the id of an exited one; the models number pthreads, so that a caller
  who keeps a queue id after the queue ended is outside them.
* In Alarm: the Android branches (system alarm, wake lock), which this build does not have, and a
  broadcast that the default queue refuses because it is gone (`Start` then changes nothing but
  `sg_seq`).
* In DNS: a thread that does not start (`GetHostByName` returns before it touches the list), what the
  answers contain, and the client's copying of them.
* In the sockets: creation of the breaker's pipe, failing writes to it, and the kqueue variant. In
  `ComplexConnect` peers do not send without end (a machine that is sent incomplete answers for ever
  does not look at its time-out), a proxy speaks only when spoken to, and `max_connect_` is not zero,
  with which nothing would ever be started. What is sent and received is reduced to the check status.
* `AsyncResult` and `WaitInvoke`: next in the plan. TcpServer, UdpClient and UdpServer repeat the
  thread, list and breaker pattern of TcpClient. The ANR checker only reports. Core service, frequency
  limit, buffers, GCDAsyncSocket's packets and the queue pools are sequential.
* The remaining components, with the reason, are in `components` of `PROJECT.json`. View
  controllers, project files and vendored pods have no logic to verify.

## Plan

1. *Results across queues*: `AsyncResult` (result, cancel by deletion of the message, callback) and
   `WaitInvoke` between two queues, composed with an abstract queue specification that `MessageQueue`
   is shown to implement.
2. *ANR checker, core service, UdpClient, TcpServer*, in the pattern of what is there.
3. *Sequential algorithms* against reference definitions: frequency limit, AutoBuffer, the read
   packet and pre-buffer of GCDAsyncSocket, the dispatch queue pools' counter with its 32-bit wrap.
4. *Proofs*: the refinement of the abstract queue, and the invariants of the modules of 1 to 3.
