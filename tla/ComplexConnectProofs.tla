------------------------ MODULE ComplexConnectProofs ------------------------
(***************************************************************************)
(* Proofs about ComplexConnect for any number of addresses, any limit of   *)
(* open sockets and any time-outs and intervals: no socket leaks, and no   *)
(* select sleeps past a time-out or past the next start.                   *)
(*                                                                         *)
(* Select is never asked to sleep longer than a live machine allows, so no *)
(* time-out is overrun and what is left of it stays a natural number; and  *)
(* the open sockets are those of the machines, and the one to return.      *)
(***************************************************************************)
EXTENDS ComplexConnect, FiniteSetTheorems, WellFoundedInduction, TLAPS

Busy == {"EConnecting", "EReadWrite"}

(* The parts of the type invariant.                                        *)
FsmType == fsm \in [Addresses -> Machine]
CountType ==
  /\ index \in 0..N /\ k \in 1..(N + 1) /\ retsocket \in 0..N
  /\ since \in 0..MaxInterval /\ timeout \in 0..Timeout
SetType == null \subseteq Addresses /\ ready \subseteq Addresses /\ open \subseteq Addresses
FinishedType == finished \in [Addresses -> Nat]
PcType == pc \in {"top", "select", "after", "final", "returned"} /\ lasterror \in BOOLEAN
Types == FsmType /\ CountType /\ SetType /\ FinishedType /\ PcType

Won == IF retsocket = 0 THEN {} ELSE {retsocket}

(* Until the end: what is not started has no socket, what is started and   *)
(* has not ended has one; the sockets that are open are those of machines, *)
(* and the one to be returned.                                             *)
Unstarted ==
  pc # "returned" =>
    /\ null \subseteq 1..index
    /\ \A i \in Addresses : i > index => ~fsm[i].sock /\ fsm[i].status = "EStart"
    /\ \A i \in Live : fsm[i].status # "EStart" /\ (fsm[i].status \in Busy => fsm[i].sock)
Sockets ==
  /\ retsocket # 0 => pc \in {"final", "returned"} /\ retsocket \in null
  /\ open = IF pc = "returned" THEN Won ELSE Connecting \cup Won
  /\ Cardinality(open) <= MaxConnect
  /\ \A i \in Addresses : finished[i] <= 1 /\ (pc # "returned" /\ i \notin null => finished[i] = 0)

(* Machines that AfterSelect has been through have not ended.              *)
Looked ==
  /\ pc = "top" => \A i \in Live : fsm[i].status \in Busy
  /\ pc = "after" => \A i \in Live : i < k => fsm[i].status \in Busy

(* The sleep.                                                              *)
OnTime ==
  pc = "select" =>
    /\ \A i \in Live : timeout <= TimeoutOf(fsm[i])
    /\ (index < N /\ Cardinality(Connecting) < MaxConnect) => timeout <= Max({0, NextConnectTimeout})

Inv == Types /\ Unstarted /\ Sockets /\ Looked /\ OnTime

-----------------------------------------------------------------------------
(* Minima and maxima.                                                      *)
LEMMA MinIs ==
  ASSUME NEW S, S \subseteq Nat, S # {}
  PROVE  Min(S) \in S /\ \A y \in S : Min(S) <= y
<1> DEFINE Below == {p \in Nat \X Nat : p[1] < p[2]}
<1>1. IsWellFoundedOn(Below, Nat)
  BY NatLessThanWellFounded DEF OpToRel
<1>2. PICK x \in S : \A y \in S : <<y, x>> \notin Below
  <2> HIDE DEF Below
  <2> QED
    BY <1>1, WFMin
<1>3. ASSUME NEW y \in S PROVE x <= y
  <2>1. x \in Nat /\ y \in Nat
    OBVIOUS
  <2>2. y < x => <<y, x>> \in Below
    BY <2>1
  <2> QED
    BY <1>2, <2>1, <2>2
<1> QED
  BY <1>3 DEF Min

LEMMA MinOfTwo ==
  ASSUME NEW x \in Int, NEW y \in Int
  PROVE  Min({x, y}) \in {x, y} /\ Min({x, y}) <= x /\ Min({x, y}) <= y
<1>1. CASE x <= y
  <2>1. x \in {x, y} /\ \A z \in {x, y} : x <= z
    BY <1>1
  <2> QED
    BY <2>1 DEF Min
<1>2. CASE y <= x
  <2>1. y \in {x, y} /\ \A z \in {x, y} : y <= z
    BY <1>2
  <2> QED
    BY <2>1 DEF Min
<1> QED
  BY <1>1, <1>2

LEMMA MaxOfTwo ==
  ASSUME NEW x \in Int, NEW y \in Int
  PROVE  Max({x, y}) \in {x, y} /\ Max({x, y}) >= x /\ Max({x, y}) >= y
<1>1. CASE x >= y
  <2>1. x \in {x, y} /\ \A z \in {x, y} : x >= z
    BY <1>1
  <2> QED
    BY <2>1 DEF Max
<1>2. CASE y >= x
  <2>1. y \in {x, y} /\ \A z \in {x, y} : y >= z
    BY <1>2
  <2> QED
    BY <2>1 DEF Max
<1> QED
  BY <1>1, <1>2

-----------------------------------------------------------------------------
(* What the operations of a machine keep: its socket and its type.         *)
Same(f, g) == g \in Machine /\ g.sock = f.sock /\ g.status = f.status
Keeps(f, g) == g \in Machine /\ g.sock = f.sock /\ (g.status = f.status \/ g.status = "EEnd")

(* The edits that the operations are made of.                              *)
LEMMA Edits ==
  ASSUME NEW f \in Machine
  PROVE  /\ Keeps(f, End(f)) /\ End(f).status = "EEnd"
         /\ \A c \in Checks : Same(f, Check(f, c)) /\ Same(f, Request(f, c))
         /\ f.pieces > 0 => Same(f, Piece(f))
         /\ \A b \in BOOLEAN : /\ Same(f, [f EXCEPT !.buf = b])
                               /\ Same(f, [f EXCEPT !.request_send = b])
<1>1. Keeps(f, End(f)) /\ End(f).status = "EEnd"
  BY DEF Keeps, End, Machine, Statuses
<1>2. \A c \in Checks : Same(f, Check(f, c)) /\ Same(f, Request(f, c))
  BY DEF Same, Check, Request, Machine
<1>3. f.pieces > 0 => Same(f, Piece(f))
  BY FsmAssumption DEF Same, Piece, Machine
<1>4. \A b \in BOOLEAN : /\ Same(f, [f EXCEPT !.buf = b])
                         /\ Same(f, [f EXCEPT !.request_send = b])
  BY DEF Same, Machine
<1> QED
  BY <1>1, <1>2, <1>3, <1>4

LEMMA SameTrans ==
  ASSUME NEW f, NEW g, NEW h, Same(f, g)
  PROVE  (Same(g, h) => Same(f, h)) /\ (Keeps(g, h) => Keeps(f, h))
BY DEF Same, Keeps

(* The dialogue with the proxy, whatever its state, changes neither the    *)
(* socket nor the status.                                                  *)
LEMMA OnConnectedSame == ASSUME NEW f \in Machine, NEW g \in OnConnected(f) PROVE Same(f, g)
<1>1. Same(f, f)
  BY DEF Same
<1> QED
  BY <1>1, Edits DEF OnConnected, Checks

LEMMA OnRequestSendSame ==
  ASSUME NEW f \in Machine, NEW g \in OnRequestSend(f) PROVE Same(f, g)
<1> DEFINE h == [f EXCEPT !.buf = TRUE]
<1>1. Same(f, f) /\ Same(f, h) /\ h \in Machine
  BY Edits DEF Same
<1> HIDE DEF h
<1>2. \A c \in Checks : Same(f, Check(f, c)) /\ Same(h, Check(h, c))
  BY <1>1, Edits
<1>3. \A c \in Checks : Same(f, Check(h, c))
  BY <1>1, <1>2, SameTrans
<1>4. g \in {f, h} \/ \E c \in Checks : g = Check(f, c) \/ g = Check(h, c)
  BY DEF OnRequestSend, h, Checks
<1> QED
  BY <1>1, <1>2, <1>3, <1>4

LEMMA OnRecvSame == ASSUME NEW f \in Machine, NEW g \in OnRecv(f) PROVE Same(f, g)
<1>1. g = f \/ \E c \in Checks : g = Check(f, c) \/ g = Request(f, c)
  BY DEF OnRecv, ProxyConnected, Checks
<1>2. Same(f, f)
  BY DEF Same
<1> QED
  BY <1>1, <1>2, Edits

(* Sending and receiving may end the machine, no more.                     *)
LEMMA WrittenKeeps == ASSUME NEW f \in Machine, NEW g \in Written(f) PROVE Keeps(f, g)
<1> DEFINE r == [f EXCEPT !.request_send = FALSE]
           gs == IF f.request_send /\ ~f.buf THEN OnRequestSend(r) ELSE {f}
<1>1. Same(f, f) /\ Same(f, r) /\ r \in Machine
  BY Edits DEF Same
<1>2. \A h \in gs : Same(f, h)
  <2> HIDE DEF r
  <2> QED
    BY <1>1, OnRequestSendSame, SameTrans
<1>3. \E h \in gs : g = End(h) \/ g = [h EXCEPT !.buf = FALSE] \/ (h.pieces > 0 /\ g = Piece(h))
  BY DEF Written
<1>4. PICK h : Same(f, h) /\
               (g = End(h) \/ g = [h EXCEPT !.buf = FALSE] \/ (h.pieces > 0 /\ g = Piece(h)))
  <2> HIDE DEF gs
  <2> QED
    BY <1>2, <1>3
<1>5. h \in Machine
  BY <1>4 DEF Same
<1>6. Keeps(h, g)
  <2>1. Keeps(h, End(h)) /\ Same(h, [h EXCEPT !.buf = FALSE]) /\ (h.pieces > 0 => Same(h, Piece(h)))
    BY <1>5, Edits
  <2> QED
    BY <1>4, <2>1 DEF Same, Keeps
<1> QED
  BY <1>4, <1>6, SameTrans

LEMMA ReadInKeeps == ASSUME NEW f \in Machine, NEW g \in ReadIn(f) PROVE Keeps(f, g)
<1>1. CASE g = End(f)
  BY <1>1, Edits
<1>2. CASE f.pieces > 0 /\ (g = Piece(f) \/ g \in OnRecv(Piece(f)))
  <2>1. Same(f, Piece(f)) /\ Piece(f) \in Machine
    BY <1>2, Edits DEF Same
  <2>2. Same(f, g)
    BY <1>2, <2>1, OnRecvSame, SameTrans
  <2> QED
    BY <2>2 DEF Same, Keeps
<1> QED
  BY <1>1, <1>2 DEF ReadIn

(* AfterReadWriteSelect keeps the socket.                                  *)
LEMMA AfterReadWriteKeeps ==
  ASSUME NEW f \in Machine, NEW S, NEW g \in AfterReadWriteSelect(f, S) PROVE Keeps(f, g)
<1>1. Keeps(f, f) /\ Keeps(f, End(f))
  BY Edits DEF Keeps
<1>2. CASE "x" \in S \/ S = {}
  BY <1>1, <1>2 DEF AfterReadWriteSelect
<1>3. CASE ~("x" \in S \/ S = {})
  <2> DEFINE ws == IF "w" \in S THEN Written(f) ELSE {f}
  <2>1. \A h \in ws : Keeps(f, h)
    BY <1>1, WrittenKeeps
  <2>2. \E h \in ws : g = h \/ (h.status = "EReadWrite" /\ g \in ReadIn(h))
    BY <1>3 DEF AfterReadWriteSelect
  <2> HIDE DEF ws
  <2>3. PICK h \in ws : g = h \/ (h.status = "EReadWrite" /\ g \in ReadIn(h))
    BY <2>2
  <2>4. Keeps(f, h) /\ h \in Machine
    BY <2>1 DEF Keeps
  <2>5. CASE g = h
    BY <2>4, <2>5
  <2>6. CASE h.status = "EReadWrite" /\ g \in ReadIn(h)
    <3>1. Keeps(h, g)
      BY <2>4, <2>6, ReadInKeeps
    <3> QED
      BY <2>4, <2>6, <3>1 DEF Keeps
  <2> QED
    BY <2>3, <2>5, <2>6
<1> QED
  BY <1>2, <1>3

(* The time-out for the dialogue is not negative, whatever was measured.   *)
LEMMA AbsTimeout == ASSUME NEW rtt \in Int PROVE ReadWriteAbsTimeout(rtt) \in Nat
<1>1. 6 * rtt \in Int /\ Timeout - rtt \in Int /\ MinVerify \in Nat
  BY FsmAssumption
<1>2. Min({6 * rtt, Timeout - rtt}) \in Int
  BY <1>1, MinOfTwo
<1>3. PICK x \in Int : x = Min({6 * rtt, Timeout - rtt})
  BY <1>2
<1>4. PICK y \in Int : y = MinVerify
  BY <1>1
<1>5. Max({y, x}) \in {y, x} /\ Max({y, x}) >= y
  BY MaxOfTwo
<1> QED
  BY <1>1, <1>3, <1>4, <1>5 DEF ReadWriteAbsTimeout

(* AfterConnectSelect goes on to the dialogue, or ends the machine.        *)
LEMMA AfterConnectKeeps ==
  ASSUME NEW f \in Machine, NEW S, NEW g \in AfterConnectSelect(f, S)
  PROVE  g \in Machine /\ g.sock = f.sock /\ g.status \in {f.status, "EReadWrite", "EEnd"}
<1> DEFINE h == [f EXCEPT !.status = "EReadWrite", !.left = ReadWriteAbsTimeout(Timeout - f.left)]
<1>1. Timeout - f.left \in Int
  BY FsmAssumption DEF Machine
<1>2. h \in Machine /\ h.sock = f.sock /\ h.status = "EReadWrite"
  BY <1>1, AbsTimeout DEF Machine, Statuses
<1>3. g = f \/ g = End(f) \/ g \in OnConnected(h)
  BY DEF AfterConnectSelect
<1> HIDE DEF h
<1>4. g \in OnConnected(h) => Same(h, g)
  BY <1>2, OnConnectedSame
<1> QED
  BY <1>2, <1>3, <1>4, Edits DEF Same, Keeps

(* AfterSelect: a machine that has a socket keeps it, and only one that    *)
(* has not ended goes on.                                                  *)
LEMMA AfterSelectKeeps ==
  ASSUME NEW f \in Machine, f.status # "EStart", NEW S, NEW g \in AfterSelect(f, S)
  PROVE  /\ g \in Machine /\ g.sock = f.sock /\ g.status \in Busy \cup {"EEnd"}
         /\ g.status \in Busy => f.status \in Busy
<1>1. f.status \in Busy \cup {"EEnd"}
  BY DEF Machine, Statuses, Busy
<1>2. CASE f.status = "EConnecting"
  BY <1>2, AfterConnectKeeps DEF AfterSelect, Busy
<1>3. CASE f.status = "EReadWrite"
  BY <1>3, AfterReadWriteKeeps DEF AfterSelect, Busy, Keeps
<1>4. CASE f.status = "EEnd"
  BY <1>4 DEF AfterSelect, Busy
<1> QED
  BY <1>1, <1>2, <1>3, <1>4 DEF Busy

(* A machine that is started is connecting with a socket, or has ended.    *)
LEMMA PreConnectKeeps ==
  ASSUME NEW f \in Machine, NEW g \in PreConnectSelect(f)
  PROVE  /\ g \in Machine /\ g.status \in {"EConnecting", "EEnd"}
         /\ g.status = "EConnecting" => g.sock
BY FsmAssumption DEF PreConnectSelect, Machine, Statuses, End

-----------------------------------------------------------------------------
(* Sets of sockets are finite.                                             *)
LEMMA FiniteAddresses == \A S \in SUBSET Addresses : IsFiniteSet(S) /\ Cardinality(S) \in Nat
<1>1. IsFiniteSet(Addresses)
  BY FS_Interval, ConnectAssumption DEF Addresses
<1> QED
  BY <1>1, FS_Subset, FS_CardinalityType

(* Closing sockets leaves no more of them.                                 *)
LEMMA Fewer ==
  ASSUME NEW T \in SUBSET Addresses, NEW S \in SUBSET T PROVE Cardinality(S) <= Cardinality(T)
BY FiniteAddresses, FS_Subset

(* The sleep: no longer than any machine allows.                           *)
LEMMA SleepIs ==
  ASSUME StartTimeout \in 0..Timeout, NEW live, NEW m, \A i \in live : TimeoutOf(m[i]) \in Nat
  PROVE  /\ SelectTimeout(live, m) \in 0..Timeout /\ SelectTimeout(live, m) <= StartTimeout
         /\ \A i \in live : SelectTimeout(live, m) <= TimeoutOf(m[i])
<1> DEFINE S == {StartTimeout} \cup {TimeoutOf(m[i]) : i \in live}
<1>1. S \subseteq Nat /\ S # {} /\ StartTimeout \in S /\ \A i \in live : TimeoutOf(m[i]) \in S
  OBVIOUS
<1>2. SelectTimeout(live, m) = Max({0, Min(S)})
  BY DEF SelectTimeout
<1> HIDE DEF S
<1>3. PICK x \in Nat : x = Min(S) /\ \A y \in S : x <= y
  BY <1>1, MinIs
<1>4. Max({0, x}) = x
  <2>1. Max({0, x}) \in {0, x} /\ Max({0, x}) >= x
    BY MaxOfTwo
  <2> QED
    BY <2>1
<1>5. x \in 0..Timeout /\ x <= StartTimeout /\ \A i \in live : x <= TimeoutOf(m[i])
  BY <1>1, <1>3, FsmAssumption
<1> QED
  BY <1>2, <1>3, <1>4, <1>5

(* The longest interval.                                                   *)
LEMMA Intervals == MaxInterval \in Nat /\ Interval <= MaxInterval /\ ErrorInterval <= MaxInterval
BY MaxOfTwo, ConnectAssumption DEF MaxInterval

(* The sleep as far as the next start asks for it: up to that start, if    *)
(* there is room for it.                                                   *)
LEMMA StartTimeoutIs ==
  ASSUME CountType, SetType
  PROVE  /\ StartTimeout \in 0..Timeout
         /\ (index < N /\ NextConnectTimeout > 0 /\ Cardinality(Connecting) < MaxConnect) =>
              StartTimeout <= NextConnectTimeout
         /\ (MayStart /\ Cardinality(Connecting) + 1 < MaxConnect) => StartTimeout <= Interval
<1>1. PICK n \in Int : n = NextConnectTimeout
  BY ConnectAssumption, Intervals DEF CountType, NextConnectTimeout
<1>2. PICK c \in Nat : c = Cardinality(Connecting)
  BY FiniteAddresses DEF Connecting
<1>3. PICK t \in Nat : t = Timeout
  BY FsmAssumption
<1>4. PICK v \in Nat : v = Interval
  BY ConnectAssumption
<1>5. PICK x \in Int : x = Min({t, n}) /\ x \in {t, n} /\ x <= t /\ x <= n
  BY MinOfTwo
<1>6. PICK y \in Int : y = Min({t, v}) /\ y \in {t, v} /\ y <= t /\ y <= v
  <2>1. t \in Int /\ v \in Int
    OBVIOUS
  <2>2. Min({t, v}) \in {t, v} /\ Min({t, v}) <= t /\ Min({t, v}) <= v
    BY <2>1, MinOfTwo
  <2> QED
    BY <2>1, <2>2
<1>7. StartTimeout = IF index = N THEN t
                     ELSE IF n > 0 /\ c < MaxConnect THEN x
                     ELSE IF MayStart /\ c + 1 < MaxConnect THEN y ELSE t
  BY <1>1, <1>2, <1>3, <1>4, <1>5, <1>6 DEF StartTimeout
<1>8. MayStart <=> index < N /\ n <= 0 /\ c < MaxConnect
  BY <1>1, <1>2 DEF MayStart
<1> QED
  BY <1>1, <1>2, <1>3, <1>4, <1>5, <1>6, <1>7, <1>8, ConnectAssumption DEF CountType

-----------------------------------------------------------------------------
(* Before the first turn of the loop.                                      *)
LEMMA InitInv == Init => Inv
<1> SUFFICES ASSUME Init PROVE Inv
  OBVIOUS
<1>1. PICK kind \in Kinds, v \in [Addresses -> BOOLEAN], p \in [Addresses -> 0..MaxPieces] :
        fsm = [i \in Addresses |-> NewMachine(kind, v[i], p[i])]
  BY DEF Init
<1>2. \A i \in Addresses : fsm[i] \in Machine /\ ~fsm[i].sock /\ fsm[i].status = "EStart"
  BY <1>1, FsmAssumption DEF NewMachine, Machine, Statuses, Checks
<1>3. FsmType
  BY <1>1, <1>2 DEF FsmType
<1>4. CountType /\ SetType /\ FinishedType /\ PcType
  <2>1. CountType
    BY Intervals, ConnectAssumption, FsmAssumption DEF Init, CountType
  <2>2. SetType /\ FinishedType
    BY DEF Init, SetType, FinishedType
  <2>3. PcType
    BY DEF Init, PcType
  <2> QED
    BY <2>1, <2>2, <2>3
<1>5. Live = {} /\ Connecting = {} /\ Won = {} /\ open = {}
  BY <1>2 DEF Init, Live, Connecting, Won
<1>6. Unstarted
  BY <1>2, <1>5 DEF Init, Unstarted
<1>7. Sockets
  BY <1>5, FS_EmptySet, ConnectAssumption DEF Init, Sockets
<1>8. Looked /\ OnTime
  BY <1>5 DEF Init, Looked, OnTime
<1> QED
  BY <1>3, <1>4, <1>6, <1>7, <1>8 DEF Inv, Types

(* What the types say of the live machines.                                *)
LEMMA LiveIs ==
  ASSUME Types
  PROVE  /\ Live \subseteq Addresses /\ Connecting \subseteq Addresses
         /\ \A i \in Addresses : /\ fsm[i] \in Machine /\ fsm[i].left \in Nat
                                 /\ TimeoutOf(fsm[i]) \in Nat
<1>1. Live \subseteq Addresses /\ Connecting \subseteq Addresses
  BY ConnectAssumption DEF Types, CountType, Live, Connecting, Addresses
<1>2. \A i \in Addresses : fsm[i] \in Machine
  BY DEF Types, FsmType
<1>3. \A i \in Addresses : fsm[i].left \in Nat
  BY <1>2 DEF Machine
<1> QED
  BY <1>1, <1>2, <1>3 DEF TimeoutOf

(* The machines and sockets are as before.                                 *)
LEMMA NothingMoves ==
  ASSUME Inv, UNCHANGED <<fsm, null, index, retsocket, open, finished>>, pc # "returned",
         pc' # "returned", retsocket # 0 => pc' = "final"
  PROVE  /\ FsmType' /\ FinishedType' /\ null' \subseteq Addresses /\ open' \subseteq Addresses
         /\ Unstarted' /\ Sockets' /\ Live' = Live /\ Connecting' = Connecting
<1>1. Live' = Live /\ Connecting' = Connecting /\ Won' = Won
  BY DEF Live, Connecting, Won
<1>2. FsmType' /\ FinishedType' /\ null' \subseteq Addresses /\ open' \subseteq Addresses
  BY DEF Inv, Types, FsmType, FinishedType, SetType
<1>3. Unstarted'
  BY <1>1 DEF Inv, Unstarted
<1>4. Sockets'
  BY <1>1 DEF Inv, Sockets
<1> QED
  BY <1>1, <1>2, <1>3, <1>4

(* The sleep is no longer than any machine and the next start allow.       *)
LEMMA PreSelectStep == ASSUME Inv, PreSelect PROVE Inv'
<1>1. /\ pc = "top" /\ ~MayStart /\ timeout' = SelectTimeout(Live, fsm) /\ pc' = "select"
      /\ UNCHANGED <<fsm, null, index, lasterror, since, ready, k, retsocket, open, finished>>
  BY DEF PreSelect
<1>2. Types /\ retsocket = 0
  BY <1>1 DEF Inv, Sockets
<1>3. /\ FsmType' /\ FinishedType' /\ null' \subseteq Addresses /\ open' \subseteq Addresses
      /\ Unstarted' /\ Sockets' /\ Live' = Live /\ Connecting' = Connecting
  BY <1>1, <1>2, NothingMoves
<1>4. StartTimeout \in 0..Timeout
  BY <1>2, StartTimeoutIs DEF Types
<1>5. timeout' \in 0..Timeout /\ timeout' <= StartTimeout /\ \A i \in Live : timeout' <= TimeoutOf(fsm[i])
  <2>1. \A i \in Live : TimeoutOf(fsm[i]) \in Nat
    BY <1>2, LiveIs
  <2> QED
    BY <1>1, <1>4, <2>1, SleepIs
<1>6. Types'
  BY <1>1, <1>2, <1>3, <1>5 DEF Types, CountType, SetType, PcType
<1>7. (index < N /\ Cardinality(Connecting) < MaxConnect) => timeout' <= Max({0, NextConnectTimeout})
  <2> SUFFICES ASSUME index < N, Cardinality(Connecting) < MaxConnect
               PROVE  timeout' <= Max({0, NextConnectTimeout})
    OBVIOUS
  <2>1. PICK n \in Int : n = NextConnectTimeout
    BY <1>2, ConnectAssumption, Intervals DEF Types, CountType, NextConnectTimeout
  <2>2. n > 0
    BY <1>1, <2>1 DEF MayStart
  <2>3. StartTimeout <= n
    BY <1>2, <2>1, <2>2, StartTimeoutIs DEF Types
  <2>4. Max({0, n}) \in {0, n} /\ Max({0, n}) >= n
    BY MaxOfTwo
  <2> QED
    BY <1>4, <1>5, <2>1, <2>3, <2>4
<1>8. OnTime'
  <2>1. NextConnectTimeout' = NextConnectTimeout
    BY <1>1 DEF NextConnectTimeout
  <2> QED
    BY <1>1, <1>3, <1>5, <1>7, <2>1 DEF OnTime
<1>9. Looked'
  BY <1>1 DEF Looked
<1> QED
  BY <1>3, <1>6, <1>8, <1>9 DEF Inv

(* The next machine is started, if need be with the last socket there is   *)
(* room for; when socket() fails at once, select does not sleep.           *)
LEMMA StartStep == ASSUME Inv, StartNext PROVE Inv'
<1>1. PICK j, f :
        /\ j = index + 1 /\ f \in PreConnectSelect(fsm[j])
        /\ pc = "top" /\ MayStart /\ index' = j /\ lasterror' = FALSE /\ since' = 0
        /\ fsm' = [fsm EXCEPT ![j] = f]
        /\ open' = IF f.sock THEN open \cup {j} ELSE open
        /\ timeout' = SelectTimeout(Live \cup {j}, fsm') /\ pc' = "select"
        /\ UNCHANGED <<null, ready, k, retsocket, finished>>
  BY DEF StartNext
<1>2. Types /\ retsocket = 0 /\ j \in Addresses /\ j \in 0..N /\ index \in 0..N /\ index = j - 1
  BY <1>1, ConnectAssumption DEF Inv, Types, CountType, Sockets, MayStart, Addresses
<1>3. fsm[j] \in Machine /\ ~fsm[j].sock
  BY <1>1, <1>2, LiveIs DEF Inv, Unstarted
<1>4. f \in Machine /\ f.status \in {"EConnecting", "EEnd"} /\ (f.status = "EConnecting" => f.sock)
  BY <1>1, <1>3, PreConnectKeeps
<1>5. FsmType' /\ fsm'[j] = f /\ \A i \in Addresses : i # j => fsm'[i] = fsm[i]
  BY <1>1, <1>2, <1>4 DEF Types, FsmType
<1>6. j \notin null /\ null \subseteq 1..index
  BY <1>1, <1>2 DEF Inv, Unstarted
<1>7. Live' = Live \cup {j} /\ j \notin Live
  BY <1>1, <1>2, <1>6 DEF Live
<1>8. Connecting' = IF f.sock THEN Connecting \cup {j} ELSE Connecting
  BY <1>1, <1>2, <1>3, <1>5, <1>6 DEF Connecting
<1>9. Won = {} /\ Won' = {} /\ open = Connecting /\ open' = Connecting'
  BY <1>1, <1>2, <1>8 DEF Won, Inv, Sockets
<1>10. PICK c \in Nat : /\ c = Cardinality(Connecting) /\ c < MaxConnect
                        /\ Cardinality(Connecting') = IF f.sock THEN c + 1 ELSE c
  <2>1. IsFiniteSet(Connecting) /\ Cardinality(Connecting) \in Nat
    BY <1>2, LiveIs, FiniteAddresses
  <2>2. j \notin Connecting
    BY <1>3 DEF Connecting
  <2>3. Cardinality(Connecting \cup {j}) = Cardinality(Connecting) + 1
    BY <2>1, <2>2, FS_AddElement
  <2>4. Cardinality(Connecting) < MaxConnect
    BY <1>1 DEF MayStart
  <2> QED
    BY <1>8, <2>1, <2>3, <2>4
<1>11. StartTimeout \in 0..Timeout /\ (c + 1 < MaxConnect => StartTimeout <= Interval)
  BY <1>1, <1>2, <1>10, StartTimeoutIs DEF Types
<1>12. /\ timeout' \in 0..Timeout /\ timeout' <= StartTimeout
       /\ \A i \in Live' : timeout' <= TimeoutOf(fsm'[i])
  <2>1. \A i \in Addresses : fsm'[i] \in Machine
    BY <1>5 DEF FsmType
  <2>2. \A i \in Addresses : TimeoutOf(fsm'[i]) \in Nat
    BY <2>1 DEF Machine, TimeoutOf
  <2>3. \A i \in Live \cup {j} : TimeoutOf(fsm'[i]) \in Nat
    BY <1>2, <2>2, LiveIs
  <2> QED
    BY <1>1, <1>7, <1>11, <2>3, SleepIs
<1>13. Types'
  <2>1. CountType'
    BY <1>1, <1>2, <1>12, Intervals DEF Types, CountType
  <2>2. SetType'
    BY <1>1, <1>2 DEF Types, SetType
  <2>3. FinishedType'
    BY <1>1, <1>2 DEF Types, FinishedType
  <2>4. PcType'
    BY <1>1 DEF PcType
  <2> QED
    BY <1>5, <2>1, <2>2, <2>3, <2>4 DEF Types
<1>14. Unstarted'
  <2>1. null' \subseteq 1..index'
    BY <1>1, <1>2, <1>6
  <2>2. \A i \in Addresses : i > index' => ~fsm'[i].sock /\ fsm'[i].status = "EStart"
    BY <1>1, <1>2, <1>5 DEF Inv, Unstarted, Addresses
  <2>3. \A i \in Live' : fsm'[i].status # "EStart" /\ (fsm'[i].status \in Busy => fsm'[i].sock)
    <3>1. \A i \in Live : i \in Addresses /\ i # j
      BY <1>2, <1>7, LiveIs
    <3> QED
      BY <1>1, <1>4, <1>5, <1>7, <3>1 DEF Inv, Unstarted, Busy
  <2> QED
    BY <2>1, <2>2, <2>3 DEF Unstarted
<1>15. Sockets'
  <2>1. Cardinality(open') <= MaxConnect
    BY <1>9, <1>10, ConnectAssumption
  <2> QED
    BY <1>1, <1>2, <1>9, <2>1 DEF Inv, Sockets
<1>16. OnTime'
  <2> SUFFICES ASSUME index' < N, Cardinality(Connecting') < MaxConnect
               PROVE  timeout' <= Max({0, NextConnectTimeout'})
    BY <1>12 DEF OnTime
  <2>1. PICK v \in Int : v = Interval /\ v >= 0
    BY ConnectAssumption
  <2>2. NextConnectTimeout' = v
    BY <1>1, <2>1 DEF NextConnectTimeout
  <2>3. Max({0, v}) \in {0, v} /\ Max({0, v}) >= v
    BY MaxOfTwo
  <2>4. CASE f.sock
    BY <1>10, <1>11, <1>12, <2>1, <2>2, <2>3, <2>4
  <2>5. CASE ~f.sock
    <3>1. TimeoutOf(fsm'[j]) = 0
      BY <1>4, <1>5, <2>5 DEF TimeoutOf
    <3>2. timeout' <= 0
      BY <1>7, <1>12, <3>1
    <3> QED
      BY <1>12, <2>1, <2>2, <2>3, <3>2
  <2> QED
    BY <1>4, <2>4, <2>5 DEF Machine
<1>17. Looked'
  BY <1>1 DEF Looked
<1> QED
  BY <1>13, <1>14, <1>15, <1>16, <1>17 DEF Inv

-----------------------------------------------------------------------------
(* Select returns no later than it was asked to: no time-out is overrun.   *)
LEMMA SelectStep == ASSUME Inv, SelectReturns PROVE Inv'
<1>1. PICK d \in 0..timeout :
        /\ pc = "select" /\ ready' \subseteq Live
        /\ fsm' = [i \in Addresses |-> IF i \in Live THEN [fsm[i] EXCEPT !.left = @ - d] ELSE fsm[i]]
        /\ since' = Min({MaxInterval, since + d})
        /\ timeout' = 0 /\ k' = 1 /\ pc' = "after"
        /\ UNCHANGED <<null, index, lasterror, retsocket, open, finished>>
  BY DEF SelectReturns
<1>2. Types /\ retsocket = 0 /\ d \in Nat
  BY <1>1, FsmAssumption DEF Inv, Sockets, Types, CountType
<1>3. \A i \in Live : d <= TimeoutOf(fsm[i])
  <2>1. \A i \in Live : timeout <= TimeoutOf(fsm[i]) /\ TimeoutOf(fsm[i]) \in Nat /\ timeout \in Nat
    BY <1>1, <1>2, LiveIs, FsmAssumption DEF Inv, OnTime, Types, CountType
  <2> QED
    BY <1>1, <1>2, <2>1
<1>4. \A i \in Live : fsm[i].left \in Nat /\ d <= fsm[i].left
  <2> TAKE i \in Live
  <2>1. fsm[i].left \in Nat
    BY <1>2, LiveIs
  <2> QED
    BY <1>2, <1>3, <2>1 DEF TimeoutOf
<1>5. \A i \in Addresses : /\ fsm'[i] \in Machine /\ fsm'[i].status = fsm[i].status
                           /\ fsm'[i].sock = fsm[i].sock
  <2> TAKE i \in Addresses
  <2>1. fsm[i] \in Machine
    BY <1>2, LiveIs
  <2>2. CASE i \in Live
    <3>1. fsm'[i] = [fsm[i] EXCEPT !.left = fsm[i].left - d] /\ fsm[i].left - d \in Nat
      BY <1>1, <1>2, <1>4, <2>2
    <3> QED
      BY <2>1, <3>1 DEF Machine
  <2>3. CASE i \notin Live
    BY <1>1, <2>1, <2>3
  <2> QED
    BY <2>2, <2>3
<1>6. FsmType'
  BY <1>1, <1>5 DEF FsmType
<1>7. Live' = Live /\ Connecting' = Connecting /\ Won' = Won
  BY <1>1, <1>5 DEF Live, Connecting, Won
<1>8. since' \in 0..MaxInterval
  <2>1. PICK x \in Int : x = MaxInterval /\ x >= 0
    BY Intervals
  <2>2. PICK y \in Int : y = since + d /\ y >= 0
    BY <1>2, <2>1 DEF Types, CountType
  <2>3. Min({x, y}) \in {x, y} /\ Min({x, y}) <= x
    BY MinOfTwo
  <2> QED
    BY <1>1, <2>1, <2>2, <2>3
<1>9. Types'
  <2>1. CountType'
    BY <1>1, <1>2, <1>8, FsmAssumption, ConnectAssumption DEF Types, CountType
  <2>2. SetType' /\ FinishedType'
    BY <1>1, <1>2, LiveIs DEF Types, SetType, FinishedType
  <2>3. PcType'
    BY <1>1, <1>2 DEF Types, PcType
  <2> QED
    BY <1>6, <2>1, <2>2, <2>3 DEF Types
<1>10. Unstarted'
  <2>1. \A i \in Live : i \in Addresses
    BY <1>2, LiveIs
  <2> QED
    BY <1>1, <1>5, <1>7, <2>1 DEF Inv, Unstarted
<1>11. Sockets'
  BY <1>1, <1>2, <1>7 DEF Inv, Sockets
<1>12. Looked'
  <2>1. \A i \in Live' : ~(i < 1)
    BY <1>2, <1>7, LiveIs DEF Addresses
  <2> QED
    BY <1>1, <2>1 DEF Looked
<1>13. OnTime'
  BY <1>1 DEF OnTime
<1> QED
  BY <1>9, <1>10, <1>11, <1>12, <1>13 DEF Inv

(* Steps that only go on: the break, a deleted machine, the loop's end.    *)
LEMMA GoOnStep == ASSUME Inv, SelectEnds \/ Skip \/ EndOfLoop PROVE Inv'
<1>0. Types
  BY DEF Inv
<1>1. /\ UNCHANGED <<fsm, null, index, lasterror, since, timeout, retsocket, open, finished>>
      /\ pc \in {"select", "after"} /\ pc' \in {"top", "after", "final"} /\ retsocket = 0
  BY DEF SelectEnds, Skip, EndOfLoop, Inv, Sockets
<1>2. /\ FsmType' /\ FinishedType' /\ null' \subseteq Addresses /\ open' \subseteq Addresses
      /\ Unstarted' /\ Sockets' /\ Live' = Live /\ Connecting' = Connecting
  BY <1>1, NothingMoves
<1>3. k' \in 1..(N + 1) /\ ready' \subseteq Addresses
  <2>1. CASE Skip
    BY <1>0, <2>1, ConnectAssumption DEF Skip, Types, CountType, SetType
  <2>2. CASE ~Skip
    BY <1>0, <2>2, ConnectAssumption DEF SelectEnds, EndOfLoop, Types, CountType, SetType
  <2> QED
    BY <2>1, <2>2
<1>4. Types'
  BY <1>0, <1>1, <1>2, <1>3 DEF Types, CountType, SetType, PcType
<1>5. Looked'
  <2>1. \A i \in Live : i \in Nat /\ i \in 1..index /\ i \notin null
    BY <1>0 DEF Live, Types, CountType
  <2>2. CASE SelectEnds
    BY <2>2 DEF SelectEnds, Looked
  <2>3. CASE Skip
    <3>1. pc = "after" /\ pc' = "after" /\ k' = k + 1 /\ k \in null /\ k \in Nat
      BY <1>0, <2>3 DEF Skip, Types, CountType
    <3>2. \A i \in Live : i < k' => i < k
      BY <2>1, <3>1
    <3> QED
      BY <1>1, <1>2, <3>1, <3>2 DEF Inv, Looked
  <2>4. CASE EndOfLoop
    <3>1. pc = "after" /\ pc' # "after" /\ k > index /\ k \in Nat
      BY <1>0, <2>4 DEF EndOfLoop, Types, CountType
    <3>2. \A i \in Live : i < k
      BY <1>0, <2>1, <3>1 DEF Types, CountType
    <3> QED
      BY <1>1, <1>2, <3>1, <3>2 DEF Inv, Looked
  <2> QED
    BY <2>2, <2>3, <2>4
<1>6. OnTime'
  BY <1>1 DEF OnTime
<1> QED
  BY <1>2, <1>4, <1>5, <1>6 DEF Inv

(* What AfterSelect can make of machine k.                                 *)
LEMMA ResultIs ==
  ASSUME Inv, pc = "after", k <= index, k \notin null, NEW f \in Results
  PROVE  /\ k \in Live /\ k \in Addresses /\ f \in Machine /\ f.sock = fsm[k].sock
         /\ f.status \in Busy \cup {"EEnd"}
         /\ f.status \in Busy => fsm[k].sock
<1>1. Types /\ k \in Live /\ k \in Addresses
  BY LiveIs DEF Inv, Types, CountType, Live
<1>2. fsm[k] \in Machine /\ fsm[k].status # "EStart" /\ (fsm[k].status \in Busy => fsm[k].sock)
  BY <1>1, LiveIs DEF Inv, Unstarted
<1>3. PICK S : f \in AfterSelect(fsm[k], S)
  BY DEF Results
<1> QED
  BY <1>1, <1>2, <1>3, AfterSelectKeeps

(* Machine k goes on: it keeps its socket and has not ended.               *)
LEMMA GoesStep == ASSUME Inv, Goes PROVE Inv'
<1>1. PICK f \in Results :
        /\ pc = "after" /\ k <= index /\ k \notin null /\ ~Failed(f)
        /\ fsm' = [fsm EXCEPT ![k] = f] /\ k' = k + 1
        /\ UNCHANGED <<null, index, lasterror, since, timeout, ready, retsocket, open, finished, pc>>
  BY DEF Goes
<1>2. /\ k \in Live /\ k \in Addresses /\ f \in Machine /\ f.sock = fsm[k].sock
      /\ f.status \in Busy /\ fsm[k].sock
  BY <1>1, ResultIs DEF Failed
<1>3. Types /\ Live \subseteq Addresses
  BY LiveIs DEF Inv
<1>4. FsmType' /\ fsm'[k] = f /\ \A i \in Addresses : i # k => fsm'[i] = fsm[i]
  BY <1>1, <1>2, <1>3 DEF Types, FsmType
<1>5. Live' = Live /\ Connecting' = Connecting /\ Won' = Won
  BY <1>1, <1>2, <1>4 DEF Live, Connecting, Won
<1>6. Types'
  <2>1. CountType'
    BY <1>1, <1>3, ConnectAssumption DEF Types, CountType
  <2>2. SetType' /\ FinishedType' /\ PcType'
    BY <1>1, <1>3 DEF Types, SetType, FinishedType, PcType
  <2> QED
    BY <1>4, <2>1, <2>2 DEF Types
<1>7. Unstarted'
  <2>1. \A i \in Addresses : i > index => i # k
    BY <1>1, <1>3 DEF Types, CountType, Addresses
  <2>2. \A i \in Live : fsm'[i].status # "EStart" /\ (fsm'[i].status \in Busy => fsm'[i].sock)
    BY <1>1, <1>2, <1>3, <1>4 DEF Inv, Unstarted, Busy
  <2> QED
    BY <1>1, <1>4, <1>5, <2>1, <2>2 DEF Inv, Unstarted
<1>8. Sockets'
  BY <1>1, <1>5 DEF Inv, Sockets
<1>9. Looked'
  <2>1. \A i \in Live : i < k + 1 => i < k \/ i = k
    BY <1>3 DEF Types, CountType, Addresses
  <2> QED
    BY <1>1, <1>2, <1>3, <1>4, <1>5, <2>1 DEF Inv, Looked
<1>10. OnTime'
  BY <1>1 DEF OnTime
<1> QED
  BY <1>6, <1>7, <1>8, <1>9, <1>10 DEF Inv

(* Machine k is deleted: its socket is closed, or it is the one to return. *)
LEMMA EndsStep ==
  ASSUME Inv, NEW f \in Results, pc = "after", k <= index, k \notin null,
         fsm' = [fsm EXCEPT ![k] = Deleted(f)], null' = null \cup {k},
         finished' = [finished EXCEPT ![k] = @ + 1], UNCHANGED <<index, since, timeout, ready>>,
         PcType', k' \in 1..(N + 1), pc' \in {"after", "final"},
         \/ open' = open \ {k} /\ retsocket' = retsocket
         \/ open' = open /\ retsocket' = k /\ pc' = "final" /\ f.status \in Busy,
         pc' = "after" => k' = k + 1
  PROVE  Inv'
<1>1. /\ k \in Live /\ k \in Addresses /\ f \in Machine /\ f.sock = fsm[k].sock
      /\ f.status \in Busy => fsm[k].sock
  BY ResultIs
<1>2. Types /\ Live \subseteq Addresses /\ Connecting \subseteq Addresses /\ retsocket = 0
  BY LiveIs DEF Inv, Sockets
<1>3. Deleted(f) \in Machine /\ ~Deleted(f).sock
  BY <1>1, FsmAssumption DEF Deleted, NewMachine, Machine, Statuses, Checks
<1>4. FsmType' /\ fsm'[k] = Deleted(f) /\ \A i \in Addresses : i # k => fsm'[i] = fsm[i]
  BY <1>1, <1>2, <1>3 DEF Types, FsmType
<1>5. Live' = Live \ {k}
  BY DEF Live
<1>6. Connecting' = Connecting \ {k}
  BY <1>1, <1>4 DEF Connecting
<1>7. /\ k \in Nat /\ k # 0 /\ Won = {} /\ open = Connecting
      /\ Won' = (IF retsocket' = 0 THEN {} ELSE {k}) /\ (retsocket' = 0 \/ retsocket' = k)
  <2>1. k \in Nat /\ k # 0
    BY <1>1, ConnectAssumption DEF Addresses
  <2>2. Won = {}
    BY <1>2 DEF Won
  <2>3. open = Connecting
    BY <2>2 DEF Inv, Sockets
  <2>4. retsocket' = 0 \/ retsocket' = k
    BY <1>2
  <2>5. Won' = IF retsocket' = 0 THEN {} ELSE {k}
    BY <2>4 DEF Won
  <2> QED
    BY <2>1, <2>2, <2>3, <2>4, <2>5
<1>8. open' = Connecting' \cup Won' /\ open' \subseteq open
  <2>1. CASE open' = open \ {k} /\ retsocket' = retsocket
    BY <1>2, <1>6, <1>7, <2>1
  <2>2. CASE open' = open /\ retsocket' = k /\ f.status \in Busy
    <3>1. k \in Connecting
      BY <1>1, <2>2 DEF Connecting
    <3> QED
      BY <1>6, <1>7, <2>2, <3>1
  <2> QED
    BY <2>1, <2>2
<1>9. Types'
  <2>1. CountType'
    BY <1>1, <1>2, <1>7 DEF Types, CountType, Addresses
  <2>2. SetType'
    BY <1>1, <1>2, <1>8 DEF Types, SetType
  <2>3. FinishedType'
    <3>1. finished \in [Addresses -> Nat] /\ finished[k] + 1 \in Nat
      BY <1>1, <1>2 DEF Types, FinishedType
    <3>2. finished' = [finished EXCEPT ![k] = finished[k] + 1]
      OBVIOUS
    <3> QED
      BY <3>1, <3>2 DEF FinishedType
  <2> QED
    BY <1>4, <2>1, <2>2, <2>3 DEF Types
<1>10. Unstarted'
  <2>1. null' \subseteq 1..index'
    BY <1>1, <1>2 DEF Inv, Unstarted, Types, CountType, Addresses
  <2>2. \A i \in Addresses : i > index => i # k
    BY <1>2 DEF Types, CountType, Addresses
  <2>3. \A i \in Live' : fsm'[i].status # "EStart" /\ (fsm'[i].status \in Busy => fsm'[i].sock)
    BY <1>2, <1>4, <1>5 DEF Inv, Unstarted
  <2> QED
    BY <1>4, <2>1, <2>2, <2>3 DEF Inv, Unstarted
<1>11. Sockets'
  <2>1. Cardinality(open') <= Cardinality(open) /\ Cardinality(open) <= MaxConnect
    BY <1>2, <1>8, Fewer DEF Inv, Sockets, Types, SetType
  <2>2. Cardinality(open') \in Nat /\ Cardinality(open) \in Nat
    BY <1>2, <1>9, FiniteAddresses DEF Types, SetType
  <2>3. Cardinality(open') <= MaxConnect
    BY <2>1, <2>2, ConnectAssumption
  <2>4. \A i \in Addresses : finished'[i] <= 1 /\ (i \notin null' => finished'[i] = 0)
    <3>1. finished[k] = 0
      BY <1>1 DEF Inv, Sockets
    <3> QED
      BY <1>2, <3>1 DEF Types, FinishedType, Inv, Sockets
  <2>5. retsocket' # 0 => pc' \in {"final", "returned"} /\ retsocket' \in null'
    BY <1>2, <1>7
  <2>6. pc' # "returned"
    OBVIOUS
  <2> QED
    BY <1>8, <2>3, <2>4, <2>5, <2>6 DEF Sockets
<1>12. Looked'
  <2> SUFFICES ASSUME pc' = "after", NEW i \in Live', i < k' PROVE fsm'[i].status \in Busy
    BY DEF Looked
  <2>1. i \in Live /\ i \in Addresses /\ i # k /\ k' = k + 1
    BY <1>2, <1>5
  <2>2. i < k
    BY <1>7, <2>1 DEF Addresses
  <2> QED
    BY <1>4, <2>1, <2>2 DEF Inv, Looked
<1>13. OnTime'
  BY DEF OnTime
<1> QED
  BY <1>9, <1>10, <1>11, <1>12, <1>13 DEF Inv

(* OnFinished, Close and delete of a machine that failed.                  *)
LEMMA FailsStep == ASSUME Inv, Fails PROVE Inv'
<1>1. PICK f \in Results :
        /\ pc = "after" /\ k <= index /\ k \notin null
        /\ fsm' = [fsm EXCEPT ![k] = Deleted(f)] /\ open' = open \ {k}
        /\ null' = null \cup {k} /\ lasterror' = TRUE
        /\ finished' = [finished EXCEPT ![k] = @ + 1] /\ k' = k + 1
        /\ UNCHANGED <<index, since, timeout, ready, retsocket, pc>>
  BY DEF Fails
<1>2. Types
  BY DEF Inv
<1>3. PcType'
  BY <1>1 DEF PcType
<1>4. k' \in 1..(N + 1)
  BY <1>1, <1>2, ConnectAssumption DEF Types, CountType
<1> QED
  BY <1>1, <1>3, <1>4, EndsStep

(* The machine that is verified leaves its socket to the caller.           *)
LEMMA WinsStep == ASSUME Inv, Wins PROVE Inv'
<1>1. PICK f \in Results :
        /\ pc = "after" /\ k <= index /\ k \notin null /\ Verified(f)
        /\ fsm' = [fsm EXCEPT ![k] = Deleted(f)]
        /\ null' = null \cup {k} /\ retsocket' = k
        /\ finished' = [finished EXCEPT ![k] = @ + 1] /\ pc' = "final"
        /\ UNCHANGED <<index, lasterror, since, timeout, ready, k, open>>
  BY DEF Wins
<1>2. Types /\ f.status \in Busy
  BY <1>1 DEF Inv, Verified, Busy
<1>3. PcType'
  BY <1>1, <1>2 DEF Types, PcType
<1>4. k' \in 1..(N + 1)
  BY <1>1, <1>2 DEF Types, CountType
<1> QED
  BY <1>1, <1>2, <1>3, <1>4, EndsStep

(* What is left is closed: only the socket to be returned stays open.      *)
LEMMA CloseStep == ASSUME Inv, CloseAll PROVE Inv'
<1>1. /\ pc = "final" /\ pc' = "returned" /\ open' = open \ Connecting
      /\ fsm' = [i \in Addresses |-> Deleted(fsm[i])] /\ null' = Addresses
      /\ UNCHANGED <<index, lasterror, since, timeout, ready, k, retsocket, finished>>
  BY DEF CloseAll
<1>2. Types
  BY DEF Inv
<1>3. FsmType'
  <2>1. \A i \in Addresses : fsm[i] \in Machine
    BY <1>2, LiveIs
  <2>2. \A i \in Addresses : Deleted(fsm[i]) \in Machine
    BY <2>1, FsmAssumption DEF Deleted, NewMachine, Machine, Statuses, Checks
  <2> QED
    BY <1>1, <2>2 DEF FsmType
<1>4. Types'
  <2>1. CountType'
    BY <1>1, <1>2 DEF Types, CountType
  <2>2. SetType' /\ FinishedType'
    BY <1>1, <1>2 DEF Types, SetType, FinishedType
  <2>3. PcType'
    BY <1>1, <1>2 DEF Types, PcType
  <2> QED
    BY <1>3, <2>1, <2>2, <2>3 DEF Types
<1>5. Won' = Won /\ Won \cap Connecting = {}
  BY <1>1 DEF Won, Connecting, Inv, Sockets
<1>6. open = Connecting \cup Won
  BY <1>1 DEF Inv, Sockets
<1>7. open' = Won' /\ open' \subseteq open
  BY <1>1, <1>5, <1>6
<1>8. Sockets'
  <2>1. Cardinality(open') <= Cardinality(open) /\ Cardinality(open) <= MaxConnect
    BY <1>2, <1>7, Fewer DEF Inv, Sockets, Types, SetType
  <2>2. Cardinality(open') \in Nat /\ Cardinality(open) \in Nat
    BY <1>2, <1>4, FiniteAddresses DEF Types, SetType
  <2>3. Cardinality(open') <= MaxConnect
    BY <2>1, <2>2, ConnectAssumption
  <2>4. retsocket' # 0 => retsocket' \in null'
    BY <1>1, <1>2 DEF Inv, Sockets, Types, SetType
  <2>5. \A i \in Addresses : finished'[i] <= 1
    BY <1>1 DEF Inv, Sockets
  <2> QED
    BY <1>1, <1>7, <2>3, <2>4, <2>5 DEF Sockets
<1>9. Unstarted' /\ Looked' /\ OnTime'
  BY <1>1 DEF Unstarted, Looked, OnTime
<1> QED
  BY <1>4, <1>8, <1>9 DEF Inv

-----------------------------------------------------------------------------
(* Every step keeps the invariant.                                         *)
LEMMA NextInv == ASSUME Inv, [Next]_vars PROVE Inv'
<1>1. CASE UNCHANGED vars
  <2>1. Live' = Live /\ Connecting' = Connecting /\ Won' = Won /\ NextConnectTimeout' = NextConnectTimeout
    BY <1>1 DEF vars, Live, Connecting, Won, NextConnectTimeout
  <2>2. Types'
    BY <1>1 DEF vars, Inv, Types, FsmType, CountType, SetType, FinishedType, PcType
  <2>3. Unstarted' /\ Sockets'
    BY <1>1, <2>1 DEF vars, Inv, Unstarted, Sockets
  <2>4. Looked' /\ OnTime'
    BY <1>1, <2>1 DEF vars, Inv, Looked, OnTime
  <2> QED
    BY <2>2, <2>3, <2>4 DEF Inv
<1>2. CASE Next
  BY <1>2, PreSelectStep, StartStep, SelectStep, GoOnStep, GoesStep, FailsStep, WinsStep, CloseStep
    DEF Next, AfterAll
<1> QED
  BY <1>1, <1>2

LEMMA Invariant == Spec => []Inv
BY InitInv, NextInv, PTL DEF Spec

(* The variables of ConnectImpatient have their types; in particular what  *)
(* is left of a machine's time-out is never negative: no select overruns   *)
(* it.                                                                     *)
THEOREM TypeCorrect == Spec => []TypeOK
<1>1. Inv => TypeOK
  <2> SUFFICES ASSUME Types PROVE TypeOK
    BY DEF Inv
  <2> QED
    BY DEF TypeOK, Types, FsmType, CountType, SetType, FinishedType, PcType
<1> QED
  BY Invariant, <1>1, PTL

(* ConnectImpatient (complexconnect.cc:556) never has more than            *)
(* max_connect_ sockets open, finishes an address at most once, and leaves *)
(* exactly the socket it returns, however many addresses, limits and       *)
(* intervals there are.                                                    *)
THEOREM SocketsAreAccounted == Spec => []SocketsAccounted
<1>1. Inv => SocketsAccounted
  BY DEF Inv, Sockets, SocketsAccounted, Won
<1> QED
  BY Invariant, <1>1, PTL

(* The select of ConnectImpatient (complexconnect.cc:488) ends no later    *)
(* than the first time-out, or than the next start there is room for; and  *)
(* no machine that has ended is asked for a select.                        *)
THEOREM SelectIsOnTime == Spec => []SelectOnTime
<1>1. Inv => SelectOnTime
  <2> SUFFICES ASSUME Inv PROVE SelectOnTime
    OBVIOUS
  <2>1. ASSUME pc = "select", NEW i \in Live PROVE timeout <= Max({0, TimeoutOf(fsm[i])})
    <3>1. PICK t \in Int : t = TimeoutOf(fsm[i]) /\ t >= 0
      BY LiveIs DEF Inv
    <3>2. Max({0, t}) \in {0, t} /\ Max({0, t}) >= t
      BY MaxOfTwo
    <3>3. timeout <= t /\ timeout \in Int
      BY <2>1, <3>1, FsmAssumption DEF Inv, OnTime, Types, CountType
    <3> QED
      BY <3>1, <3>2, <3>3
  <2>2. pc = "select" => ((index < N /\ Cardinality(Connecting) < MaxConnect)
                            => timeout <= Max({0, NextConnectTimeout}))
    BY DEF Inv, OnTime
  <2>3. pc = "top" => \A i \in Live : fsm[i].status \in {"EConnecting", "EReadWrite"}
    BY DEF Inv, Looked, Busy
  <2> QED
    BY <2>1, <2>2, <2>3 DEF SelectOnTime
<1> QED
  BY Invariant, <1>1, PTL

=============================================================================
