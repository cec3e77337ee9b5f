------------------------------ MODULE TcpClient ------------------------------
(***************************************************************************)
(* mars/comm/socket/tcpclient.cc and the SocketBreaker and SocketSelect it *)
(* uses.  Client threads connect, read, write and disconnect; the object's *)
(* thread connects, then waits in select for the socket or the breaker and *)
(* reports to the MTcpEvent object.  status_, will_disconnect_ and         *)
(* have_read_data_ are read without a lock.  The network may do anything.  *)
(* broken_ is true exactly while its byte is in the pipe, as both change   *)
(* under the breaker's mutex_; the byte makes select return.               *)
(***************************************************************************)
EXTENDS Integers, Sequences

CONSTANTS
  Clients,   \* threads that call the object's methods
  Waiter,    \* the one that calls DisconnectAndWait
  MaxWrites, \* bound: buffers written
  MaxLen     \* bound: sends a buffer takes

(* The holder of a mutex that nobody holds.                                *)
Nobody == "nobody"

ASSUME TcpAssumption ==
  /\ Waiter \in Clients /\ Nobody \notin Clients
  /\ MaxWrites \in Nat /\ MaxLen \in Nat

VARIABLES
  status, will_disconnect, have_read_data, writedbufid,
  lst_buffer,  \* for each buffer the sends it still needs
  broken,      \* broken_ of pipe_
  sock,        \* socket_: "invalid", "new", "up" when the connection stands
  inbox,       \* what the peer has sent
  hup,         \* has the peer hung up?
  pc,          \* where the object's thread is
  fds,         \* what it selects for, "r", "w" and "x" for exceptions,
               \* then what select found, "h" for a hang-up
  write_id,
  cl,          \* where each client is
  rdlock, wrlock, \* read_disconnect_mutex_ and write_mutex_: who holds them
  phase, wrote \* history: the events reported so far

locks == <<rdlock, wrlock>>
object == <<status, will_disconnect, have_read_data, writedbufid, lst_buffer>>
events == <<phase, wrote>>
thread == <<pc, fds, write_id>>
net == <<sock, inbox, hup>>
vars == <<object, broken, net, thread, cl, locks, events>>

-----------------------------------------------------------------------------
(* SocketBreaker.                                                          *)

Break == broken' = TRUE

Clear == broken' = FALSE

-----------------------------------------------------------------------------
(* Clients.                                                                *)

At(c, at) == cl[c] = at
GoTo(c, at) == cl' = [cl EXCEPT ![c] = at]

Connect(c) ==
  /\ At(c, "idle") /\ status = "Init"
  /\ status' = "ThreadStart" /\ pc' = "run" /\ phase' = "connecting"
  /\ UNCHANGED <<will_disconnect, have_read_data, writedbufid, lst_buffer, broken, net,
                 fds, write_id, cl, locks, wrote>>

(* thread_.start() fails.                                                  *)
ConnectFails(c) ==
  /\ At(c, "idle") /\ status = "Init"
  /\ status' = "ThreadStartErr"
  /\ UNCHANGED <<will_disconnect, have_read_data, writedbufid, lst_buffer, broken, net,
                 thread, cl, locks, events>>

(* Disconnect: nothing if it was called before, ...                        *)
DisconnectCheck(c) ==
  /\ At(c, "idle") /\ ~will_disconnect
  /\ GoTo(c, "disconnect")
  /\ UNCHANGED <<object, broken, net, thread, locks, events>>

(* Mutant of DisconnectFlag: the break is sent first.                      *)
DisconnectBreaksFirst(c) ==
  /\ At(c, "disconnect") /\ rdlock = Nobody
  /\ rdlock' = c /\ Break
  /\ GoTo(c, "flag")
  /\ UNCHANGED <<object, net, thread, wrlock, events>>

(* ... else the flag and then, with the mutex still held, the break.       *)
DisconnectFlag(c) ==
  /\ At(c, "disconnect") /\ rdlock = Nobody
  /\ rdlock' = c /\ will_disconnect' = TRUE
  /\ GoTo(c, "break")
  /\ UNCHANGED <<status, have_read_data, writedbufid, lst_buffer, broken, net, thread,
                 wrlock, events>>

(* __SendBreak at the end of Disconnect and of Read.                       *)
BreakAfterRead(c) ==
  /\ At(c, "break")
  /\ Break /\ rdlock' = Nobody /\ GoTo(c, "idle")
  /\ UNCHANGED <<object, net, thread, wrlock, events>>

(* DisconnectAndWait, and the destructor: the thread is joined.            *)
Join(c) ==
  /\ c = Waiter /\ At(c, "idle") /\ will_disconnect
  /\ GoTo(c, IF pc \in {"none", "ended"} THEN "done" ELSE "join")
  /\ UNCHANGED <<object, broken, net, thread, locks, events>>

JoinEnd(c) ==
  /\ At(c, "join") /\ pc = "ended"
  /\ GoTo(c, "done")
  /\ UNCHANGED <<object, broken, net, thread, locks, events>>

ReadCheck(c) ==
  /\ At(c, "idle") /\ status = "Connected"
  /\ GoTo(c, "read")
  /\ UNCHANGED <<object, broken, net, thread, locks, events>>

(* recv; the socket may meanwhile have been closed.                        *)
Read(c) ==
  /\ At(c, "read") /\ rdlock = Nobody
  /\ rdlock' = c
  /\ inbox' = IF inbox # "data" \/ sock = "invalid" THEN inbox ELSE IF hup THEN "eof" ELSE "none"
  /\ have_read_data' = FALSE
  /\ GoTo(c, "break")
  /\ UNCHANGED <<status, will_disconnect, writedbufid, lst_buffer, broken, sock, hup, thread, wrlock, events>>

WriteCheck(c) ==
  /\ At(c, "idle") /\ status = "Connected" /\ writedbufid < MaxWrites
  /\ GoTo(c, "write")
  /\ UNCHANGED <<object, broken, net, thread, locks, events>>

(* Write and WritePostData.                                                *)
Write(c) ==
  /\ At(c, "write") /\ wrlock = Nobody /\ writedbufid < MaxWrites
  /\ wrlock' = c
  /\ \E n \in 0..MaxLen : lst_buffer' = Append(lst_buffer, n)
  /\ writedbufid' = writedbufid + 1
  /\ GoTo(c, "wrbreak")
  /\ UNCHANGED <<status, will_disconnect, have_read_data, broken, net, thread, rdlock, events>>

WriteBreak(c) ==
  /\ At(c, "wrbreak")
  /\ Break /\ wrlock' = Nobody /\ GoTo(c, "idle")
  /\ UNCHANGED <<object, net, thread, rdlock, events>>

-----------------------------------------------------------------------------
(* The object's thread: __Run up to the connection.                        *)

(* An end of __Run: the status is set, the last event comes next.          *)
End(st) == status' = st /\ pc' = "last"

(* The address is bad, or socket() or connect() fails.                     *)
RunFails(st) ==
  /\ pc = "run" /\ End(st)
  /\ sock' \in (IF st = "ConnectIpErr" THEN {"invalid"} ELSE {"invalid", "new"})
  /\ UNCHANGED <<will_disconnect, have_read_data, writedbufid, lst_buffer, broken, inbox, hup, fds, write_id,
                 cl, locks, events>>

Run ==
  /\ pc = "run" /\ status' = "Connecting" /\ sock' = "new" /\ pc' = "connect"
  /\ UNCHANGED <<will_disconnect, have_read_data, writedbufid, lst_buffer, broken, inbox, hup, fds, write_id,
                 cl, locks, events>>

(* A connect that failed is reported as an exception or as writable, or    *)
(* only as a hang-up, which the code does not look for here.               *)
ConnectResults == {"timeout", "error", "exception", "refused", "writable", "hangup"}

(* select_connect.Select: what it found, nothing when the breaker ended it. *)
ConnectSelect ==
  /\ pc = "connect"
  /\ \/ broken /\ fds' = {}
     \/ \E k \in ConnectResults : fds' = {k}
  /\ sock' = IF fds' = {"writable"} THEN "up" ELSE sock
  /\ IF fds' = {"hangup"} THEN hup' = TRUE /\ inbox' \in {"eof", "err"} ELSE UNCHANGED <<hup, inbox>>
  /\ pc' = "connclear"
  /\ UNCHANGED <<object, broken, write_id, cl, locks, events>>

(* autoclear_: Select clears the breaker after it has polled.              *)
ConnectClear ==
  /\ pc = "connclear" /\ Clear /\ pc' = "conncheck"
  /\ UNCHANGED <<object, net, fds, write_id, cl, locks, events>>

ConnectCheck ==
  /\ pc = "conncheck"
  /\ CASE fds = {"timeout"} -> End("ConnectTimeoutErr")
       [] fds \cap {"error", "exception", "refused"} # {} -> End("ConnectingErr")
       [] fds \subseteq {"writable", "hangup"} /\ will_disconnect -> End("DisConnected")
       [] OTHER -> status' = "Connected" /\ pc' = "onconnect"
  /\ UNCHANGED <<will_disconnect, have_read_data, writedbufid, lst_buffer, broken, net,
                 fds, write_id, cl, locks, events>>

OnConnect ==
  /\ pc = "onconnect" /\ phase' = "up" /\ pc' = "top"
  /\ UNCHANGED <<object, broken, net, fds, write_id, cl, locks, wrote>>

-----------------------------------------------------------------------------
(* The loop of __Run.                                                      *)

SelectRead ==
  /\ pc = "top"
  /\ fds' = {"x"} \cup (IF have_read_data THEN {} ELSE {"r"})
  /\ pc' = "topwrite"
  /\ UNCHANGED <<object, broken, net, write_id, cl, locks, events>>

(* Mutant of SelectWrite: the breaker is cleared before the poll.          *)
SelectWriteClears ==
  /\ pc = "topwrite" /\ wrlock = Nobody
  /\ fds' = fds \cup (IF lst_buffer = << >> THEN {} ELSE {"w"})
  /\ pc' = "select" /\ Clear
  /\ UNCHANGED <<object, net, write_id, cl, locks, events>>

SelectWrite ==
  /\ pc = "topwrite" /\ wrlock = Nobody
  /\ fds' = fds \cup (IF lst_buffer = << >> THEN {} ELSE {"w"})
  /\ pc' = "select"
  /\ UNCHANGED <<object, broken, net, write_id, cl, locks, events>>

(* Select(): returns for the breaker, for what the peer has sent, when the *)
(* network can take more or reports an exception, or fails.  A hang-up is  *)
(* reported whether it was asked for or not.                               *)
Found ==
  {S \cup (IF hup THEN {"h"} ELSE {}) :
     S \in {R \in SUBSET fds : "r" \in R <=> ("r" \in fds /\ inbox # "none")}}
Select ==
  /\ pc = "select"
  /\ fds' \in Found \cup {{"fail"}} /\ (fds' # {} \/ broken)
  /\ pc' = "clear"
  /\ UNCHANGED <<object, broken, net, write_id, cl, locks, events>>

SelectClear ==
  /\ pc = "clear" /\ Clear /\ pc' = "check"
  /\ UNCHANGED <<object, net, fds, write_id, cl, locks, events>>

SelectCheck ==
  /\ pc = "check"
  /\ CASE "fail" \in fds -> End("IOErr")
       [] "fail" \notin fds /\ will_disconnect -> End("DisConnected")
       [] "x" \in fds /\ ~will_disconnect -> End("IOErr")
       [] OTHER -> pc' = "read" /\ UNCHANGED status
  /\ UNCHANGED <<will_disconnect, have_read_data, writedbufid, lst_buffer, broken, net,
                 fds, write_id, cl, locks, events>>

(* Mutant of Readable: a hang-up that was not asked for is overlooked.     *)
ReadableAsked == "r" \in fds

(* The socket is readable or hung up: look, under the mutex, at what is    *)
(* there.  After a hang-up OnRead comes again until the data is read.      *)
Readable == fds \cap {"r", "h"} # {}

ReadNothing ==
  /\ pc = "read"
  /\ ~Readable \/ (rdlock = Nobody /\ inbox = "none")
  /\ pc' = "write"
  /\ UNCHANGED <<object, broken, net, fds, write_id, cl, locks, events>>

ReadData ==
  /\ pc = "read" /\ Readable /\ rdlock = Nobody /\ inbox = "data"
  /\ have_read_data' = TRUE /\ pc' = "onread"
  /\ UNCHANGED <<status, will_disconnect, writedbufid, lst_buffer, broken, net, fds, write_id,
                 cl, locks, events>>

OnRead ==
  /\ pc = "onread" /\ pc' = "write"
  /\ UNCHANGED <<object, broken, net, fds, write_id, cl, locks, events>>

(* Mutant of ReadEnd: the loop goes on after the last event.               *)
ReadEndGoesOn ==
  /\ pc = "read" /\ Readable /\ rdlock = Nobody /\ inbox \in {"eof", "err"}
  /\ status' = "DisConnected" /\ phase' = "over" /\ pc' = "write"
  /\ have_read_data' = FALSE
  /\ UNCHANGED <<will_disconnect, writedbufid, lst_buffer, broken, net, fds, write_id,
                 cl, locks, wrote>>

ReadEnd ==
  /\ pc = "read" /\ Readable /\ rdlock = Nobody /\ inbox \in {"eof", "err"}
  /\ End(IF inbox = "eof" THEN "DisConnected" ELSE "IOErr")
  /\ have_read_data' = IF inbox = "eof" THEN FALSE ELSE have_read_data
  /\ UNCHANGED <<will_disconnect, writedbufid, lst_buffer, broken, net, fds, write_id,
                 cl, locks, events>>

WriteNothing ==
  /\ pc = "write" /\ "w" \notin fds /\ pc' = "top"
  /\ UNCHANGED <<object, broken, net, fds, write_id, cl, locks, events>>

(* send takes something, or nothing, of the front buffer, or fails.        *)
Send ==
  /\ pc = "write" /\ "w" \in fds /\ wrlock = Nobody
  /\ lst_buffer # << >> /\ Head(lst_buffer) > 0
  /\ \/ \E n \in 0..1 : lst_buffer' = <<Head(lst_buffer) - n>> \o Tail(lst_buffer)
        /\ pc' = "top" /\ UNCHANGED status
     \/ End("IOErr") /\ UNCHANGED lst_buffer
  /\ UNCHANGED <<will_disconnect, have_read_data, writedbufid, broken, net, fds, write_id,
                 cl, locks, events>>

Sent ==
  /\ pc = "write" /\ "w" \in fds /\ wrlock = Nobody
  /\ lst_buffer # << >> /\ Head(lst_buffer) = 0
  /\ lst_buffer' = Tail(lst_buffer) /\ pc' = "onwrote"
  /\ UNCHANGED <<status, will_disconnect, have_read_data, writedbufid, broken, net, fds,
                 write_id, cl, locks, events>>

OnWrote ==
  /\ pc = "onwrote"
  /\ write_id' = write_id + 1 /\ wrote' = write_id + 1
  /\ pc' = "allwrote"
  /\ UNCHANGED <<object, broken, net, fds, cl, locks, phase>>

(* The list is looked at again under the mutex, for OnAllWrote.            *)
OnAllWrote ==
  /\ pc = "allwrote" /\ wrlock = Nobody /\ pc' = "top"
  /\ UNCHANGED <<object, broken, net, fds, write_id, cl, locks, events>>

(* OnDisConnect or OnError, and __Run returns; then __RunThread closes.    *)
Last ==
  /\ pc = "last" /\ phase' = "over" /\ pc' = "close"
  /\ UNCHANGED <<object, broken, net, fds, write_id, cl, locks, wrote>>

Close ==
  /\ pc = "close" /\ sock' = "invalid" /\ pc' = "ended"
  /\ UNCHANGED <<object, broken, inbox, hup, fds, write_id, cl, locks, events>>

-----------------------------------------------------------------------------
(* The peer sends, closes when all it sent was read, resets or hangs up.   *)
Peer ==
  /\ sock = "up"
  /\ \/ inbox = "none" /\ inbox' \in {"data", "eof", "err"} /\ UNCHANGED hup
     \/ inbox = "data" /\ inbox' = "err" /\ UNCHANGED hup
     \/ ~hup /\ hup' = TRUE /\ inbox' = IF inbox = "none" THEN "eof" ELSE inbox
  /\ UNCHANGED <<object, broken, sock, thread, cl, locks, events>>

Init ==
  /\ status = "Init" /\ will_disconnect = FALSE /\ have_read_data = FALSE
  /\ writedbufid = 0 /\ lst_buffer = << >>
  /\ broken = FALSE /\ sock = "invalid" /\ inbox = "none" /\ hup = FALSE
  /\ pc = "none" /\ fds = {} /\ write_id = 0
  /\ cl = [c \in Clients |-> "idle"]
  /\ rdlock = Nobody /\ wrlock = Nobody
  /\ phase = "init" /\ wrote = 0

(* Calls that have begun go on to their end.                               *)
Going(c) == BreakAfterRead(c) \/ WriteBreak(c) \/ JoinEnd(c)
Client(c) ==
  \/ Connect(c) \/ ConnectFails(c) \/ DisconnectCheck(c) \/ DisconnectFlag(c) \/ Join(c)
  \/ ReadCheck(c) \/ Read(c) \/ WriteCheck(c) \/ Write(c)

RunThread ==
  \/ Run \/ \E st \in {"ConnectIpErr", "ConnectingErr"} : RunFails(st)
  \/ ConnectSelect \/ ConnectClear \/ ConnectCheck \/ OnConnect
  \/ SelectRead \/ SelectWrite \/ Select \/ SelectClear \/ SelectCheck
  \/ ReadNothing \/ ReadData \/ OnRead \/ ReadEnd
  \/ WriteNothing \/ Send \/ Sent \/ OnWrote \/ OnAllWrote
  \/ Last \/ Close

Next == (\E c \in Clients : Client(c) \/ Going(c)) \/ RunThread \/ Peer

Spec == Init /\ [][Next]_vars

(* The thread is scheduled, its callbacks return and it gets a mutex that  *)
(* is free again and again; a client that holds a mutex gives it back.     *)
FairSpec == Spec /\ SF_vars(RunThread) /\ \A c \in Clients : WF_vars(Going(c))

-----------------------------------------------------------------------------
(* Types of the variables.                                                 *)
TypeOK ==
  /\ status \in {"Init", "ThreadStart", "ThreadStartErr", "Connecting", "ConnectIpErr", "ConnectingErr",
                 "ConnectTimeoutErr", "Connected", "IOErr", "DisConnected"}
  /\ will_disconnect \in BOOLEAN /\ have_read_data \in BOOLEAN
  /\ writedbufid \in 0..MaxWrites /\ lst_buffer \in Seq(0..MaxLen)
  /\ broken \in BOOLEAN
  /\ sock \in {"invalid", "new", "up"} /\ inbox \in {"none", "data", "eof", "err"} /\ hup \in BOOLEAN
  /\ pc \in {"none", "run", "connect", "connclear", "conncheck", "onconnect", "top", "topwrite", "select",
            "clear", "check", "read", "onread", "write", "onwrote", "allwrote", "last", "close", "ended"}
  /\ fds \in SUBSET ({"r", "w", "x", "h", "fail"} \cup ConnectResults)
  /\ write_id \in Nat
  /\ cl \in [Clients -> {"idle", "disconnect", "read", "break", "write", "wrbreak", "join", "done"}]
  /\ rdlock \in Clients \cup {Nobody} /\ wrlock \in Clients \cup {Nobody}
  /\ phase \in {"init", "connecting", "up", "over"} /\ wrote \in Nat

(* The MTcpEvent object sees what TcpEvents promises, whatever the peer    *)
(* and other threads do: one OnConnect, OnWrote with the ids of the Writes *)
(* in order, one last event, which a Disconnect is sure to bring.          *)
Events == INSTANCE TcpEvents WITH
  leaving <- will_disconnect, accepted <- writedbufid, unread <- have_read_data
EventOrder == Events!FairSpec

(* While status_ is kTcpConnected the socket is open, and connected unless *)
(* the connecting select saw nothing but a hang-up: a breaker that ended   *)
(* that select is never taken for a connection (tcpclient.cc:227).         *)
ConnectIsReal == status = "Connected" => sock = "up" \/ (sock = "new" /\ hup)

(* A socket that has hung up is not polled for ever: once what the peer    *)
(* sent was read, or nothing was, the last event comes, also when the      *)
(* thread does not select for reading and on a socket that was never       *)
(* connected (tcpclient.cc:285).                                           *)
HangUpEnds == (hup /\ inbox # "data") ~> phase = "over"

(* The thread never sleeps on an outdated set of descriptors               *)
(* (tcpclient.cc:252): when it waits in select and the breaker is not set, *)
(* a disconnect, a buffer or a Read it does not know of is still on its    *)
(* way to the break; and it looks at the front of the list only when there *)
(* is one.                                                                 *)
Breaking == \E c \in Clients : cl[c] \in {"break", "wrbreak"}
SelectFresh ==
  /\ (pc = "select" /\ ~broken /\ ~Breaking) =>
       /\ ~will_disconnect
       /\ lst_buffer # << >> => "w" \in fds
       /\ ~have_read_data => "r" \in fds
  /\ (pc = "write" /\ "w" \in fds) => lst_buffer # << >>
=============================================================================
