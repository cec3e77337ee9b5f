---------------------------- MODULE TcpClientFSM ----------------------------
(***************************************************************************)
(* The connection state machines that ComplexConnect drives: TcpClientFSM  *)
(* (mars/comm/socket/tcpclient_fsm.cc) with the three ConnectCheckFSM of   *)
(* complexconnect.cc, which verify a connection or talk to a proxy before  *)
(* they do.  A machine is a record; each operation maps it to the set of   *)
(* machines the network, the peer and the observer can make of it.  What   *)
(* is sent and received is abstracted to the check status it leads to.     *)
(***************************************************************************)
EXTENDS Integers, FiniteSetsExt

CONSTANTS
  Timeout,    \* timeout_ of ComplexConnect, a machine's connect time-out
  MinVerify,  \* the 1000 ms that a verification gets at least
  MaxPieces   \* bound: pieces in which data comes and goes, on all connections

ASSUME FsmAssumption == Timeout \in Nat /\ MinVerify \in Nat /\ MaxPieces \in Nat

Kinds == {"plain", "http", "socks5"}
Checks == {"ECheckInit", "EConnProxySucc", "EProxyHttpTunelConnSvrReq", "EProxySocks5GreetReq",
           "EProxySocks5GreetSucc", "EProxySocks5AuthReq", "EProxySocks5AuthSucc",
           "EProxySocks5ConnSvrReq", "EProxyConnSvrSucc", "ECheckOK", "ECheckFail"}
Statuses == {"EStart", "EConnecting", "EReadWrite", "EEnd"}

(* left: until the time-out of the status, which no select overruns; sock: *)
(* is the socket open?                                                     *)
Machine == [kind : Kinds, verify : BOOLEAN, status : Statuses, check : Checks, sock : BOOLEAN,
            buf : BOOLEAN, request_send : BOOLEAN, left : Nat, pieces : 0..MaxPieces]

(* OnShouldVerify decides; through a proxy there is always something to do. *)
NewMachine(kind, verify, pieces) ==
  [kind |-> kind, verify |-> verify, status |-> "EStart",
   check |-> IF verify \/ kind # "plain" THEN "ECheckInit" ELSE "ECheckOK",
   sock |-> FALSE, buf |-> FALSE, request_send |-> FALSE, left |-> 0, pieces |-> pieces]

End(f) == [f EXCEPT !.status = "EEnd"]
Check(f, c) == [f EXCEPT !.check = c]
Request(f, c) == [f EXCEPT !.check = c, !.request_send = TRUE]
Piece(f) == [f EXCEPT !.pieces = @ - 1]

(* ReadWriteAbsTimeout for a connection that took rtt.                     *)
ReadWriteAbsTimeout(rtt) == Max({MinVerify, Min({6 * rtt, Timeout - rtt})})

(* Timeout(), before a machine that has just ended is looked at: 0.        *)
TimeoutOf(f) == IF f.status = "EEnd" THEN 0 ELSE f.left

(* PreConnectSelect: socket() fails, connect() or the option fails with    *)
(* the socket open, or the connect is under way.                           *)
PreConnectSelect(f) ==
  {End(f), End([f EXCEPT !.sock = TRUE]),
   [f EXCEPT !.status = "EConnecting", !.sock = TRUE, !.left = Timeout]}

(* _OnConnected: verify at once, or ask the proxy first.                   *)
OnConnected(f) ==
  IF f.check = "ECheckOK" THEN {f}
  ELSE IF f.kind = "plain" THEN {[f EXCEPT !.buf = b] : b \in BOOLEAN} \cup {Check(f, "ECheckFail")}
  ELSE {Request(f, "EConnProxySucc")}

(* Mutant of AfterConnectSelect: the time-out is not looked at.            *)
AfterConnectSelectUntimed(f, ready) ==
  {End(f)} \cup
  (IF "x" \in ready THEN {}
   ELSE IF "w" \in ready
   THEN OnConnected([f EXCEPT !.status = "EReadWrite", !.left = ReadWriteAbsTimeout(Timeout - f.left)])
   ELSE {f})

(* SO_ERROR is asked for even when select found nothing: it may end here.  *)
AfterConnectSelect(f, ready) ==
  {End(f)} \cup
  (IF "x" \in ready THEN {}
   ELSE IF "w" \in ready
   THEN OnConnected([f EXCEPT !.status = "EReadWrite", !.left = ReadWriteAbsTimeout(Timeout - f.left)])
   ELSE IF f.left <= 0 THEN {} ELSE {f})

(* _OnRequestSend: the next request of the proxy's protocol.               *)
OnRequestSend(f) ==
  LET g == [f EXCEPT !.buf = TRUE]
  IN CASE f.check = "EConnProxySucc" /\ f.kind = "http" -> {Check(g, "EProxyHttpTunelConnSvrReq")}
       [] f.check = "EConnProxySucc" /\ f.kind = "socks5" -> {Check(g, "EProxySocks5GreetReq")}
       [] f.check = "EProxySocks5GreetSucc" -> {Check(g, "EProxySocks5AuthReq"), Check(f, "ECheckFail")}
       [] f.check = "EProxySocks5AuthSucc" -> {Check(g, "EProxySocks5ConnSvrReq")}
       [] f.check = "EProxyConnSvrSucc" -> {f, g, Check(f, "ECheckFail")}
       [] OTHER -> {f}

(* The proxy has connected: verify the server if the observer wants to.    *)
ProxyConnected(f) == Request(f, IF f.verify THEN "EProxyConnSvrSucc" ELSE "ECheckOK")

(* _OnRecv: the answer is incomplete, bad, or leads on.                    *)
OnRecv(f) ==
  CASE f.check = "ECheckOK" -> {f}
    [] f.check # "ECheckOK" /\ f.kind = "plain" -> {Check(f, "ECheckOK"), Check(f, "ECheckFail")}
    [] f.check \in {"EProxyHttpTunelConnSvrReq", "EProxySocks5ConnSvrReq"} ->
         {f, Check(f, "ECheckFail"), ProxyConnected(f)}
    [] f.check = "EProxySocks5GreetReq" ->
         {f, Check(f, "ECheckFail"), Request(f, "EProxySocks5AuthSucc"), Request(f, "EProxySocks5GreetSucc")}
    [] f.check = "EProxySocks5AuthReq" -> {f, Check(f, "ECheckFail"), Request(f, "EProxySocks5AuthSucc")}
    [] f.check = "EProxyConnSvrSucc" -> {Check(f, "ECheckOK"), Check(f, "ECheckFail")}
    [] OTHER -> {f}

(* The write half of AfterReadWriteSelect: a request is made when nothing  *)
(* is left to send; send takes all, part or nothing, or fails.             *)
Written(f) ==
  LET gs == IF f.request_send /\ ~f.buf THEN OnRequestSend([f EXCEPT !.request_send = FALSE]) ELSE {f}
  IN UNION {{End(g), [g EXCEPT !.buf = FALSE]} \cup {Piece(h) : h \in {x \in {g} : x.pieces > 0}} : g \in gs}

(* The read half: data, the peer's close, nothing after all, or an error.  *)
ReadIn(f) ==
  {End(f)} \cup (IF f.pieces > 0 THEN {Piece(f)} \cup OnRecv(Piece(f)) ELSE {})

AfterReadWriteSelect(f, ready) ==
  IF "x" \in ready THEN {End(f)}
  ELSE IF ready = {} THEN (IF f.left <= 0 THEN {End(f)} ELSE {f})
  ELSE LET ws == IF "w" \in ready THEN Written(f) ELSE {f}
       IN UNION {IF "r" \in ready /\ g.status = "EReadWrite" THEN ReadIn(g) ELSE {g} : g \in ws}

(* What PreSelect puts into the select.                                    *)
Selected(f) ==
  CASE f.status = "EConnecting" -> {"x", "w"}
    [] f.status = "EReadWrite" -> {"x", "r"} \cup (IF f.buf \/ f.request_send THEN {"w"} ELSE {})
    [] OTHER -> {}

AfterSelect(f, ready) ==
  CASE f.status = "EConnecting" -> AfterConnectSelect(f, ready)
    [] f.status = "EReadWrite" -> AfterReadWriteSelect(f, ready)
    [] OTHER -> {f}
=============================================================================
