--------------------------- MODULE TcpClientProofs ---------------------------
(***************************************************************************)
(* Proofs about TcpClient for any number of client threads, buffers and    *)
(* sends: it is connected when it says so, it never sleeps on an outdated  *)
(* set of descriptors, and the events it reports are those of TcpEvents.   *)
(***************************************************************************)
EXTENDS TcpClient, SequenceTheorems, TLAPS

(* Where the thread is before, and while, the connection stands.           *)
Before == {"none", "run", "connect", "connclear", "conncheck"}
Looking ==
  {"onconnect", "top", "topwrite", "select", "read", "onread", "write", "onwrote", "allwrote"}
Standing == Looking \cup {"clear", "check"}

(* status_ and the events reported follow the thread.                      *)
StatusAt ==
  /\ pc = "none" => status \in {"Init", "ThreadStartErr"}
  /\ status = "Init" => pc = "none"
  /\ status = "Connected" <=> pc \in Standing
  /\ pc = "connect" => sock = "new"
  /\ pc \in Standing => sock = "up" \/ (sock = "new" /\ hup)

PhaseAt ==
  /\ phase = "init" <=> pc = "none"
  /\ phase = "over" <=> pc \in {"close", "ended"}
  /\ pc \in {"run", "connect", "connclear", "conncheck", "onconnect"} => phase = "connecting"
  /\ pc \in Standing \ {"onconnect"} => phase = "up"

(* Until the connection stands only a Disconnect sets the breaker.         *)
OnlyDisconnect ==
  pc \in Before =>
    /\ \A c \in Clients : cl[c] \notin {"read", "write", "wrbreak"}
    /\ broken \/ Breaking => will_disconnect

ConnectFound ==
  /\ pc \in {"connclear", "conncheck"} =>
       fds = {} \/ \E k \in ConnectResults : fds = {k}
  /\ (pc \in {"connclear", "conncheck"} /\ fds = {}) => will_disconnect
  /\ (pc \in {"connclear", "conncheck"} /\ fds = {"writable"}) => sock = "up"
  /\ (pc \in {"connclear", "conncheck"} /\ fds = {"hangup"}) => sock = "new" /\ hup

(* What the thread may have missed is announced by the breaker.            *)
Announced ==
  /\ (pc \in Looking /\ will_disconnect) => broken \/ Breaking
  /\ (pc = "select" /\ lst_buffer # << >>) => "w" \in fds \/ broken \/ Breaking
  /\ (pc \in {"topwrite", "select"} /\ ~have_read_data) => "r" \in fds \/ broken \/ Breaking

(* A thread that was told it may write has something to write.             *)
Writable ==
  /\ pc = "topwrite" => "w" \notin fds
  /\ (pc \in {"select", "clear", "check", "read", "onread", "write"} /\ "w" \in fds) =>
       lst_buffer # << >>

(* Every accepted buffer is in the list, about to be reported, or reported. *)
Counted ==
  /\ wrote = write_id
  /\ writedbufid = write_id + Len(lst_buffer) + (IF pc = "onwrote" THEN 1 ELSE 0)

Control == StatusAt /\ PhaseAt /\ OnlyDisconnect /\ ConnectFound /\ Announced /\ Writable

Inv == TypeOK /\ Control /\ Counted

-----------------------------------------------------------------------------
(* A send changes the front buffer and not the number of buffers.          *)
LEMMA FrontReplaced ==
  ASSUME NEW S, NEW s \in Seq(S), s # << >>, NEW x \in S
  PROVE  /\ <<x>> \o Tail(s) \in Seq(S)
         /\ Len(<<x>> \o Tail(s)) = Len(s)
         /\ <<x>> \o Tail(s) # << >>
<1>1. Tail(s) \in Seq(S) /\ Len(Tail(s)) = Len(s) - 1
  BY HeadTailProperties
<1>2. <<x>> \in Seq(S) /\ Len(<<x>>) = 1
  OBVIOUS
<1>3. <<x>> \o Tail(s) \in Seq(S) /\ Len(<<x>> \o Tail(s)) = 1 + Len(Tail(s))
  BY <1>1, <1>2, ConcatProperties
<1>4. Len(s) \in Nat /\ Len(s) # 0
  BY EmptySeq, LenProperties
<1> QED
  BY <1>1, <1>3, <1>4

(* The invariant holds when the object has been constructed ...            *)
LEMMA InitInv == Init => Inv
<1> SUFFICES ASSUME Init PROVE Inv
  OBVIOUS
<1> USE TcpAssumption DEF Init
<1>a. /\ lst_buffer \in Seq(0..MaxLen)
      /\ fds \in SUBSET ({"r", "w", "x", "h", "fail"} \cup ConnectResults)
  OBVIOUS
<1>b. rdlock \in Clients \cup {Nobody} /\ wrlock \in Clients \cup {Nobody}
  OBVIOUS
<1>c. cl \in [Clients ->
              {"idle", "disconnect", "read", "break", "write", "wrbreak", "join", "done"}]
  OBVIOUS
<1>d. /\ will_disconnect \in BOOLEAN /\ have_read_data \in BOOLEAN
      /\ broken \in BOOLEAN /\ hup \in BOOLEAN
  OBVIOUS
<1>1. TypeOK
  BY <1>a, <1>b, <1>c, <1>d DEF TypeOK
<1>2. StatusAt /\ PhaseAt
  BY DEF StatusAt, PhaseAt, Standing, Looking
<1>3. OnlyDisconnect /\ ConnectFound /\ Announced /\ Writable
  BY DEF OnlyDisconnect, ConnectFound, Announced, Writable, Breaking, Looking
<1>4. Counted
  BY DEF Counted
<1> QED
  BY <1>1, <1>2, <1>3, <1>4 DEF Inv, Control
-----------------------------------------------------------------------------
(* Types are preserved.                                                    *)
LEMMA TypeStep ==
  ASSUME TypeOK, [Next]_vars
  PROVE  TypeOK'
<1> USE TcpAssumption DEF TypeOK, object, thread, net, locks, events, vars, At, GoTo
<1>1. ASSUME NEW c \in Clients, Connect(c) PROVE TypeOK'
  BY <1>1 DEF Connect
<1>2. ASSUME NEW c \in Clients, ConnectFails(c) PROVE TypeOK'
  BY <1>2 DEF ConnectFails
<1>3. ASSUME NEW c \in Clients, DisconnectCheck(c) PROVE TypeOK'
  BY <1>3 DEF DisconnectCheck
<1>4. ASSUME NEW c \in Clients, DisconnectFlag(c) PROVE TypeOK'
  BY <1>4 DEF DisconnectFlag
<1>5. ASSUME NEW c \in Clients, Join(c) PROVE TypeOK'
  BY <1>5 DEF Join
<1>6. ASSUME NEW c \in Clients, ReadCheck(c) PROVE TypeOK'
  BY <1>6 DEF ReadCheck
<1>7. ASSUME NEW c \in Clients, Read(c) PROVE TypeOK'
  <2>1. have_read_data' \in BOOLEAN /\ rdlock' \in Clients \cup {Nobody}
    BY <1>7 DEF Read
  <2>2. inbox' \in {"none", "data", "eof", "err"}
    <3>1. CASE inbox # "data" \/ sock = "invalid"
      BY <1>7, <3>1 DEF Read
    <3>2. CASE ~(inbox # "data" \/ sock = "invalid") /\ hup
      BY <1>7, <3>2 DEF Read
    <3>3. CASE ~(inbox # "data" \/ sock = "invalid") /\ ~hup
      BY <1>7, <3>3 DEF Read
    <3> QED
      BY <3>1, <3>2, <3>3
  <2>3. cl' \in [Clients ->
                 {"idle", "disconnect", "read", "break", "write", "wrbreak", "join", "done"}]
    BY <1>7 DEF Read
  <2> QED
    BY <1>7, <2>1, <2>2, <2>3 DEF Read
<1>8. ASSUME NEW c \in Clients, WriteCheck(c) PROVE TypeOK'
  BY <1>8 DEF WriteCheck
<1>9. ASSUME NEW c \in Clients, Write(c) PROVE TypeOK'
  BY <1>9 DEF Write
<1>10. ASSUME NEW c \in Clients, BreakAfterRead(c) PROVE TypeOK'
  BY <1>10 DEF BreakAfterRead, Break
<1>11. ASSUME NEW c \in Clients, WriteBreak(c) PROVE TypeOK'
  BY <1>11 DEF WriteBreak, Break
<1>12. ASSUME NEW c \in Clients, JoinEnd(c) PROVE TypeOK'
  BY <1>12 DEF JoinEnd
<1>13. CASE Run
  BY <1>13 DEF Run
<1>14. ASSUME NEW st \in {"ConnectIpErr", "ConnectingErr"}, RunFails(st) PROVE TypeOK'
  BY <1>14 DEF RunFails, End
<1>15. CASE ConnectSelect
  <2>1. hup' \in BOOLEAN /\ inbox' \in {"none", "data", "eof", "err"}
    <3>1. CASE fds' = {"hangup"}
      BY <1>15, <3>1 DEF ConnectSelect
    <3>2. CASE fds' # {"hangup"}
      BY <1>15, <3>2 DEF ConnectSelect
    <3> QED
      BY <3>1, <3>2
  <2> QED
    BY <1>15, <2>1 DEF ConnectSelect
<1>16. CASE ConnectClear
  <2>1. broken' \in BOOLEAN
    BY <1>16 DEF ConnectClear, Clear
  <2> QED
    BY <1>16, <2>1 DEF ConnectClear
<1>17. CASE ConnectCheck
  BY <1>17 DEF ConnectCheck, End
<1>18. CASE OnConnect
  BY <1>18 DEF OnConnect
<1>19. CASE SelectRead
  BY <1>19 DEF SelectRead
<1>20. CASE SelectWrite
  BY <1>20 DEF SelectWrite
<1>21. CASE Select
  <2>1. fds' \in SUBSET ({"r", "w", "x", "h", "fail"} \cup ConnectResults)
    <3>1. CASE fds' = {"fail"}
      BY <3>1
    <3>2. CASE fds' \in Found
      <4>1. PICK S \in SUBSET fds : fds' = S \cup (IF hup THEN {"h"} ELSE {})
        BY <3>2 DEF Found
      <4> QED
        BY <4>1
    <3> QED
      BY <1>21, <3>1, <3>2 DEF Select
  <2> QED
    BY <1>21, <2>1 DEF Select
<1>22. CASE SelectClear
  <2>1. broken' \in BOOLEAN
    BY <1>22 DEF SelectClear, Clear
  <2> QED
    BY <1>22, <2>1 DEF SelectClear
<1>23. CASE SelectCheck
  BY <1>23 DEF SelectCheck, End
<1>24. CASE ReadNothing
  BY <1>24 DEF ReadNothing
<1>25. CASE ReadData
  BY <1>25 DEF ReadData
<1>26. CASE OnRead
  BY <1>26 DEF OnRead
<1>27. CASE ReadEnd
  BY <1>27 DEF ReadEnd, End
<1>28. CASE WriteNothing
  BY <1>28 DEF WriteNothing
<1>29. CASE Send
  <2>1. Head(lst_buffer) \in 0..MaxLen
    BY <1>29 DEF Send
  <2>2. CASE UNCHANGED lst_buffer
    BY <1>29, <2>2 DEF Send, End
  <2>3. ASSUME NEW n \in 0..1, lst_buffer' = <<Head(lst_buffer) - n>> \o Tail(lst_buffer)
        PROVE  lst_buffer' \in Seq(0..MaxLen)
    BY <1>29, <2>1, <2>3, FrontReplaced DEF Send
  <2> QED
    BY <1>29, <2>2, <2>3 DEF Send, End
<1>30. CASE Sent
  BY <1>30 DEF Sent
<1>31. CASE OnWrote
  BY <1>31 DEF OnWrote
<1>32. CASE OnAllWrote
  BY <1>32 DEF OnAllWrote
<1>33. CASE Last
  BY <1>33 DEF Last
<1>34. CASE Close
  BY <1>34 DEF Close
<1>35. CASE Peer
  <2>1. hup' \in BOOLEAN /\ inbox' \in {"none", "data", "eof", "err"}
    BY <1>35 DEF Peer
  <2> QED
    BY <1>35, <2>1 DEF Peer
<1>36. CASE UNCHANGED vars
  BY <1>36
<1> QED
  BY <1>1, <1>2, <1>3, <1>4, <1>5, <1>6, <1>7, <1>8, <1>9, <1>10, <1>11,
     <1>12, <1>13, <1>14, <1>15, <1>16, <1>17, <1>18, <1>19, <1>20, <1>21,
     <1>22, <1>23, <1>24, <1>25, <1>26, <1>27, <1>28, <1>29, <1>30, <1>31,
     <1>32, <1>33, <1>34, <1>35, <1>36
  DEF Next, Client, Going, RunThread

(* The thread is where its status, events and descriptors say it is.       *)
LEMMA ControlStep ==
  ASSUME Inv, [Next]_vars
  PROVE  Control'
<1> USE TcpAssumption DEF Inv, Control, TypeOK, StatusAt, PhaseAt, OnlyDisconnect,
        ConnectFound, Announced, Writable, Before, Standing, Looking, Breaking, ConnectResults,
        object, thread, net, locks, events, vars, At, GoTo
<1>1. ASSUME NEW c \in Clients, Connect(c) PROVE Control'
  BY <1>1 DEF Connect
<1>2. ASSUME NEW c \in Clients, ConnectFails(c) PROVE Control'
  BY <1>2 DEF ConnectFails
<1>3. ASSUME NEW c \in Clients, DisconnectCheck(c) PROVE Control'
  BY <1>3 DEF DisconnectCheck
<1>4. ASSUME NEW c \in Clients, DisconnectFlag(c) PROVE Control'
  BY <1>4 DEF DisconnectFlag
<1>5. ASSUME NEW c \in Clients, Join(c) PROVE Control'
  BY <1>5 DEF Join
<1>6. ASSUME NEW c \in Clients, ReadCheck(c) PROVE Control'
  BY <1>6 DEF ReadCheck
<1>7. ASSUME NEW c \in Clients, Read(c) PROVE Control'
  BY <1>7 DEF Read
<1>8. ASSUME NEW c \in Clients, WriteCheck(c) PROVE Control'
  BY <1>8 DEF WriteCheck
<1>9. ASSUME NEW c \in Clients, Write(c) PROVE Control'
  BY <1>9 DEF Write
<1>10. ASSUME NEW c \in Clients, BreakAfterRead(c) PROVE Control'
  BY <1>10 DEF BreakAfterRead, Break
<1>11. ASSUME NEW c \in Clients, WriteBreak(c) PROVE Control'
  BY <1>11 DEF WriteBreak, Break
<1>12. ASSUME NEW c \in Clients, JoinEnd(c) PROVE Control'
  BY <1>12 DEF JoinEnd
<1>13. CASE Run
  BY <1>13 DEF Run
<1>14. ASSUME NEW st \in {"ConnectIpErr", "ConnectingErr"}, RunFails(st) PROVE Control'
  BY <1>14 DEF RunFails, End
<1>15. CASE ConnectSelect
  BY <1>15 DEF ConnectSelect
<1>16. CASE ConnectClear
  BY <1>16 DEF ConnectClear, Clear
<1>17. CASE ConnectCheck
  BY <1>17 DEF ConnectCheck, End
<1>18. CASE OnConnect
  BY <1>18 DEF OnConnect
<1>19. CASE SelectRead
  BY <1>19 DEF SelectRead
<1>20. CASE SelectWrite
  BY <1>20 DEF SelectWrite
<1>21. CASE Select
  BY <1>21 DEF Select, Found
<1>22. CASE SelectClear
  BY <1>22 DEF SelectClear, Clear
<1>23. CASE SelectCheck
  BY <1>23 DEF SelectCheck, End
<1>24. CASE ReadNothing
  BY <1>24 DEF ReadNothing
<1>25. CASE ReadData
  BY <1>25 DEF ReadData
<1>26. CASE OnRead
  BY <1>26 DEF OnRead
<1>27. CASE ReadEnd
  BY <1>27 DEF ReadEnd, End
<1>28. CASE WriteNothing
  BY <1>28 DEF WriteNothing
<1>29. CASE Send
  BY <1>29 DEF Send, End
<1>30. CASE Sent
  BY <1>30 DEF Sent
<1>31. CASE OnWrote
  BY <1>31 DEF OnWrote
<1>32. CASE OnAllWrote
  BY <1>32 DEF OnAllWrote
<1>33. CASE Last
  BY <1>33 DEF Last
<1>34. CASE Close
  BY <1>34 DEF Close
<1>35. CASE Peer
  BY <1>35 DEF Peer
<1>36. CASE UNCHANGED vars
  BY <1>36
<1> QED
  BY <1>1, <1>2, <1>3, <1>4, <1>5, <1>6, <1>7, <1>8, <1>9, <1>10, <1>11,
     <1>12, <1>13, <1>14, <1>15, <1>16, <1>17, <1>18, <1>19, <1>20, <1>21,
     <1>22, <1>23, <1>24, <1>25, <1>26, <1>27, <1>28, <1>29, <1>30, <1>31,
     <1>32, <1>33, <1>34, <1>35, <1>36
  DEF Next, Client, Going, RunThread

(* Buffers are accounted for.                                              *)
LEMMA CountStep ==
  ASSUME Inv, [Next]_vars
  PROVE  Counted'
<1> USE TcpAssumption DEF Inv, TypeOK, Counted, object, thread, net, locks, events, vars, At, GoTo
<1>1. ASSUME NEW c \in Clients, Connect(c) PROVE Counted'
  BY <1>1 DEF Connect, Control, StatusAt
<1>2. ASSUME NEW c \in Clients, ConnectFails(c) PROVE Counted'
  BY <1>2 DEF ConnectFails
<1>3. ASSUME NEW c \in Clients, DisconnectCheck(c) PROVE Counted'
  BY <1>3 DEF DisconnectCheck
<1>4. ASSUME NEW c \in Clients, DisconnectFlag(c) PROVE Counted'
  BY <1>4 DEF DisconnectFlag
<1>5. ASSUME NEW c \in Clients, Join(c) PROVE Counted'
  BY <1>5 DEF Join
<1>6. ASSUME NEW c \in Clients, ReadCheck(c) PROVE Counted'
  BY <1>6 DEF ReadCheck
<1>7. ASSUME NEW c \in Clients, Read(c) PROVE Counted'
  BY <1>7 DEF Read
<1>8. ASSUME NEW c \in Clients, WriteCheck(c) PROVE Counted'
  BY <1>8 DEF WriteCheck
<1>9. ASSUME NEW c \in Clients, Write(c) PROVE Counted'
  BY <1>9 DEF Write
<1>10. ASSUME NEW c \in Clients, BreakAfterRead(c) PROVE Counted'
  BY <1>10 DEF BreakAfterRead, Break
<1>11. ASSUME NEW c \in Clients, WriteBreak(c) PROVE Counted'
  BY <1>11 DEF WriteBreak, Break
<1>12. ASSUME NEW c \in Clients, JoinEnd(c) PROVE Counted'
  BY <1>12 DEF JoinEnd
<1>13. CASE Run
  BY <1>13 DEF Run
<1>14. ASSUME NEW st \in {"ConnectIpErr", "ConnectingErr"}, RunFails(st) PROVE Counted'
  BY <1>14 DEF RunFails, End
<1>15. CASE ConnectSelect
  BY <1>15 DEF ConnectSelect
<1>16. CASE ConnectClear
  BY <1>16 DEF ConnectClear, Clear
<1>17. CASE ConnectCheck
  BY <1>17 DEF ConnectCheck, End
<1>18. CASE OnConnect
  BY <1>18 DEF OnConnect
<1>19. CASE SelectRead
  BY <1>19 DEF SelectRead
<1>20. CASE SelectWrite
  BY <1>20 DEF SelectWrite
<1>21. CASE Select
  BY <1>21 DEF Select, Found
<1>22. CASE SelectClear
  BY <1>22 DEF SelectClear, Clear
<1>23. CASE SelectCheck
  BY <1>23 DEF SelectCheck, End
<1>24. CASE ReadNothing
  BY <1>24 DEF ReadNothing
<1>25. CASE ReadData
  BY <1>25 DEF ReadData
<1>26. CASE OnRead
  BY <1>26 DEF OnRead
<1>27. CASE ReadEnd
  BY <1>27 DEF ReadEnd, End
<1>28. CASE WriteNothing
  BY <1>28 DEF WriteNothing
<1>29. CASE Send
  <2>1. Head(lst_buffer) \in 0..MaxLen
    BY <1>29 DEF Send
  <2>2. CASE UNCHANGED lst_buffer
    BY <1>29, <2>2 DEF Send, End
  <2>3. ASSUME NEW n \in 0..1, lst_buffer' = <<Head(lst_buffer) - n>> \o Tail(lst_buffer)
        PROVE  Len(lst_buffer') = Len(lst_buffer)
    BY <1>29, <2>1, <2>3, FrontReplaced DEF Send
  <2> QED
    BY <1>29, <2>2, <2>3 DEF Send, End
<1>30. CASE Sent
  BY <1>30 DEF Sent
<1>31. CASE OnWrote
  BY <1>31 DEF OnWrote
<1>32. CASE OnAllWrote
  BY <1>32 DEF OnAllWrote
<1>33. CASE Last
  BY <1>33 DEF Last
<1>34. CASE Close
  BY <1>34 DEF Close
<1>35. CASE Peer
  BY <1>35 DEF Peer
<1>36. CASE UNCHANGED vars
  BY <1>36
<1> QED
  BY <1>1, <1>2, <1>3, <1>4, <1>5, <1>6, <1>7, <1>8, <1>9, <1>10, <1>11,
     <1>12, <1>13, <1>14, <1>15, <1>16, <1>17, <1>18, <1>19, <1>20, <1>21,
     <1>22, <1>23, <1>24, <1>25, <1>26, <1>27, <1>28, <1>29, <1>30, <1>31,
     <1>32, <1>33, <1>34, <1>35, <1>36
  DEF Next, Client, Going, RunThread

(* ... and every step of a client, the thread and the peer keeps it.       *)
LEMMA Invariant == Spec => []Inv
<1>1. Inv /\ [Next]_vars => Inv'
  <2> SUFFICES ASSUME Inv, [Next]_vars PROVE Inv'
    OBVIOUS
  <2>1. TypeOK'
    BY TypeStep DEF Inv
  <2> QED
    BY <2>1, ControlStep, CountStep DEF Inv
<1> QED
  BY InitInv, <1>1, PTL DEF Spec

-----------------------------------------------------------------------------
(* Every variable of TcpClient keeps its type (tcpclient.cc, tcpclient.h). *)
THEOREM TcpTypeCorrect == Spec => []TypeOK
<1>1. Inv => TypeOK
  BY DEF Inv
<1> QED
  BY Invariant, <1>1, PTL

(* While status_ is kTcpConnected the socket is connected, or hung up and  *)
(* nothing else, however many threads break the connecting select          *)
(* (tcpclient.cc:227).                                                     *)
THEOREM ConnectedIsReal == Spec => []ConnectIsReal
<1>1. Inv => ConnectIsReal
  BY DEF Inv, Control, StatusAt, ConnectIsReal
<1> QED
  BY Invariant, <1>1, PTL

(* The thread never sleeps on an outdated set of descriptors, for any      *)
(* number of threads that read, write and disconnect (tcpclient.cc:252).   *)
THEOREM SelectIsFresh == Spec => []SelectFresh
<1>1. Inv => SelectFresh
  BY DEF Inv, Control, Announced, Writable, Looking, SelectFresh
<1> QED
  BY Invariant, <1>1, PTL

-----------------------------------------------------------------------------
(* The steps of TcpClient are steps of TcpEvents, or invisible to the      *)
(* MTcpEvent object.                                                       *)
LEMMA EventStep ==
  ASSUME Inv, [Next]_vars
  PROVE  [Events!Next]_Events!vars
<1> USE DEF Inv, Control, TypeOK, StatusAt, PhaseAt, OnlyDisconnect, Before, Standing, Looking,
        object, thread, net, locks, events, vars, At, GoTo, Events!vars
<1>1. ASSUME NEW c \in Clients, Connect(c) PROVE Events!Connect
  BY <1>1 DEF Connect, Events!Connect
<1>2. ASSUME NEW c \in Clients, DisconnectFlag(c) PROVE Events!Disconnect
  BY <1>2 DEF DisconnectFlag, Events!Disconnect
<1>3. ASSUME NEW c \in Clients, Read(c) PROVE Events!Read
  BY <1>3 DEF Read, Events!Read
<1>4. ASSUME NEW c \in Clients, Write(c) PROVE Events!Write
  BY <1>4 DEF Write, Events!Write
<1>5. ASSUME NEW c \in Clients,
             ConnectFails(c) \/ DisconnectCheck(c) \/ Join(c) \/ ReadCheck(c) \/
             WriteCheck(c) \/ BreakAfterRead(c) \/ WriteBreak(c) \/ JoinEnd(c)
      PROVE  UNCHANGED Events!vars
  BY <1>5 DEF ConnectFails, DisconnectCheck, Join, ReadCheck, WriteCheck, BreakAfterRead,
     WriteBreak, JoinEnd, Break
<1>6. CASE OnConnect
  BY <1>6 DEF OnConnect, Events!Next, Events!OnConnect
<1>7. CASE ReadData
  BY <1>7 DEF ReadData, Events!Next, Events!OnRead
<1>8. CASE ReadEnd
  BY <1>8 DEF ReadEnd, End, Events!Next, Events!Read
<1>9. CASE OnWrote
  <2>1. wrote < writedbufid /\ wrote' = wrote + 1
    BY <1>9 DEF OnWrote, Counted
  <2> QED
    BY <1>9, <2>1 DEF OnWrote, Events!Next, Events!OnWrote
<1>10. CASE Last
  BY <1>10 DEF Last, Events!Next, Events!Last
<1>11. ASSUME NEW st \in {"ConnectIpErr", "ConnectingErr"}, RunFails(st)
       PROVE  UNCHANGED Events!vars
  BY <1>11 DEF RunFails
<1>12. CASE
         Run \/ ConnectSelect \/ ConnectClear \/ ConnectCheck \/ SelectRead \/
         SelectWrite \/ Select \/ SelectClear \/ SelectCheck \/ ReadNothing \/ OnRead \/
         WriteNothing \/ Send \/ Sent \/ OnAllWrote \/ Close \/ Peer
  BY <1>12 DEF Run, ConnectSelect, ConnectClear, ConnectCheck, SelectRead, SelectWrite, Select,
     SelectClear, SelectCheck, ReadNothing, OnRead, WriteNothing, Send, Sent, OnAllWrote,
     Close, Peer, Clear, End
<1>13. CASE UNCHANGED vars
  BY <1>13
<1> QED
  BY <1>1, <1>2, <1>3, <1>4, <1>5, <1>6, <1>7, <1>8, <1>9, <1>10, <1>11, <1>12, <1>13
     DEF Next, Client, Going, RunThread, Events!Next

(* The safety half of EventOrder, for any number of threads and buffers:   *)
(* the MTcpEvent object sees one OnConnect, OnWrote with the ids of the    *)
(* Writes in order, OnRead, one last event and nothing after it            *)
(* (tcpclient.cc:145).                                                     *)
THEOREM ReportsEvents == Spec => Events!Spec
<1>1. Init => Events!Init
  BY DEF Init, Events!Init
<1>2. Inv /\ [Next]_vars => [Events!Next]_Events!vars
  BY EventStep
<1> QED
  BY Invariant, <1>1, <1>2, PTL DEF Spec, Events!Spec
=============================================================================
