--------------------------- MODULE ComplexConnect ---------------------------
(***************************************************************************)
(* ComplexConnect::ConnectImpatient of mars/comm/socket/complexconnect.cc: *)
(* it starts a connection to one address after the other, a new one each   *)
(* interval_ (error_interval_ after a failure) while fewer than            *)
(* max_connect_ sockets are open, waits for all of them in one select, and *)
(* returns the first socket that is verified; the others are closed.       *)
(* Time passes only in select.  since is the time since the last start,    *)
(* counted up to the longest interval.                                     *)
(***************************************************************************)
EXTENDS TcpClientFSM, Functions

CONSTANTS
  N,             \* number of addresses
  Interval, ErrorInterval, MaxConnect

ASSUME ConnectAssumption ==
  /\ N \in Nat \ {0}
  /\ Interval \in Nat /\ ErrorInterval \in Nat /\ MaxConnect \in Nat \ {0}

Addresses == 1..N
MaxInterval == Max({Interval, ErrorInterval})

VARIABLES
  fsm,       \* vecsocketfsm
  null,      \* addresses whose machine has been deleted
  index,     \* machines started
  lasterror, \* has a machine failed since the last start?
  since,
  timeout,   \* what select is called with
  ready,     \* the machines select found something for
  k,         \* the machine AfterSelect comes to
  retsocket, \* index of the machine whose socket is returned, 0 for none
  open,      \* sockets that are open in the system
  finished,  \* history: OnFinished calls for each address
  pc

vars == <<fsm, null, index, lasterror, since, timeout, ready, k, retsocket, open, finished, pc>>

(* What is kept of a machine that has been deleted.                        *)
Deleted(f) == NewMachine(f.kind, FALSE, 0)

Live == (1..index) \ null
Connecting == {i \in Addresses \ null : fsm[i].sock}

-----------------------------------------------------------------------------
NextConnectTimeout == (IF lasterror THEN ErrorInterval ELSE Interval) - since

(* Mutant of MayStart: one connection too many.                            *)
MayStartOneMore == index < N /\ NextConnectTimeout <= 0 /\ Cardinality(Connecting) <= MaxConnect

MayStart == index < N /\ NextConnectTimeout <= 0 /\ Cardinality(Connecting) < MaxConnect

(* Mutant of StartTimeout: the interval does not limit the sleep.          *)
StartTimeoutLong == Timeout

(* The sleep as far as the next start asks for it.                         *)
StartTimeout ==
  IF index = N THEN Timeout
  ELSE IF NextConnectTimeout > 0 /\ Cardinality(Connecting) < MaxConnect
  THEN Min({Timeout, NextConnectTimeout})
  ELSE IF MayStart /\ Cardinality(Connecting) + 1 < MaxConnect THEN Min({Timeout, Interval})
  ELSE Timeout

(* ... and as far as the machines ask for it.                              *)
SelectTimeout(live, machine) == Max({0, Min({StartTimeout} \cup {TimeoutOf(machine[i]) : i \in live})})

(* The loop up to select, when it is too early for another connection or   *)
(* there are enough ...                                                    *)
PreSelect ==
  /\ pc = "top" /\ ~MayStart
  /\ timeout' = SelectTimeout(Live, fsm)
  /\ pc' = "select"
  /\ UNCHANGED <<fsm, null, index, lasterror, since, ready, k, retsocket, open, finished>>

(* ... and when the next one is started.                                   *)
StartNext ==
  /\ pc = "top" /\ MayStart
  /\ index' = index + 1 /\ lasterror' = FALSE /\ since' = 0
  /\ \E f \in PreConnectSelect(fsm[index + 1]) :
       /\ fsm' = [fsm EXCEPT ![index + 1] = f]
       /\ open' = IF f.sock THEN open \cup {index + 1} ELSE open
  /\ timeout' = SelectTimeout(Live \cup {index + 1}, fsm')
  /\ pc' = "select"
  /\ UNCHANGED <<null, ready, k, retsocket, finished>>

(* Select returns early when something is ready, else after the time-out.  *)
SelectReturns ==
  /\ pc = "select"
  /\ \E d \in 0..timeout, R \in SUBSET {i \in Live : fsm[i].status # "EEnd"} :
       /\ R # {} \/ d = timeout
       /\ ready' = R
       /\ fsm' = [i \in Addresses |-> IF i \in Live THEN [fsm[i] EXCEPT !.left = @ - d] ELSE fsm[i]]
       /\ since' = Min({MaxInterval, since + d})
  /\ timeout' = 0 /\ k' = 1 /\ pc' = "after"
  /\ UNCHANGED <<null, index, lasterror, retsocket, open, finished>>

(* Select fails, or the user breaks.                                       *)
SelectEnds ==
  /\ pc = "select" /\ pc' = "final"
  /\ UNCHANGED <<fsm, null, index, lasterror, since, timeout, ready, k, retsocket, open, finished>>

-----------------------------------------------------------------------------
(* AfterSelect for machine k, and what ConnectImpatient makes of it.       *)

Skip ==
  /\ pc = "after" /\ k <= index /\ k \in null
  /\ k' = k + 1
  /\ UNCHANGED <<fsm, null, index, lasterror, since, timeout, ready, retsocket, open, finished, pc>>

Results ==
  IF k \in ready THEN UNION {AfterSelect(fsm[k], S) : S \in SUBSET Selected(fsm[k]) \ {{}}}
  ELSE AfterSelect(fsm[k], {})

Failed(f) == f.status = "EEnd" \/ (f.status = "EReadWrite" /\ f.check = "ECheckFail")
Verified(f) == f.status = "EReadWrite" /\ f.check = "ECheckOK"

Goes ==
  /\ pc = "after" /\ k <= index /\ k \notin null
  /\ \E f \in Results : ~Failed(f) /\ ~Verified(f) /\ fsm' = [fsm EXCEPT ![k] = f]
  /\ k' = k + 1
  /\ UNCHANGED <<null, index, lasterror, since, timeout, ready, retsocket, open, finished, pc>>

(* OnFinished, Close, delete.                                              *)
Fails ==
  /\ pc = "after" /\ k <= index /\ k \notin null
  /\ \E f \in Results : Failed(f) /\ fsm' = [fsm EXCEPT ![k] = Deleted(f)]
  /\ open' = open \ {k}
  /\ null' = null \cup {k} /\ lasterror' = TRUE
  /\ finished' = [finished EXCEPT ![k] = @ + 1]
  /\ k' = k + 1
  /\ UNCHANGED <<index, since, timeout, ready, retsocket, pc>>

(* OnFinished; the socket is taken from the machine before it is deleted.  *)
Wins ==
  /\ pc = "after" /\ k <= index /\ k \notin null
  /\ \E f \in Results : Verified(f) /\ fsm' = [fsm EXCEPT ![k] = Deleted(f)]
  /\ null' = null \cup {k} /\ retsocket' = k
  /\ finished' = [finished EXCEPT ![k] = @ + 1]
  /\ pc' = "final"
  /\ UNCHANGED <<index, lasterror, since, timeout, ready, k, open>>

EndOfLoop ==
  /\ pc = "after" /\ k > index
  /\ pc' = IF null = Addresses THEN "final" ELSE "top"
  /\ ready' = {} /\ k' = 1
  /\ UNCHANGED <<fsm, null, index, lasterror, since, timeout, retsocket, open, finished>>

(* The machines that are left are closed and deleted.                      *)
CloseAll ==
  /\ pc = "final" /\ pc' = "returned"
  /\ open' = open \ Connecting
  /\ fsm' = [i \in Addresses |-> Deleted(fsm[i])]
  /\ null' = Addresses
  /\ UNCHANGED <<index, lasterror, since, timeout, ready, k, retsocket, finished>>

-----------------------------------------------------------------------------
Init ==
  /\ \E kind \in Kinds, v \in [Addresses -> BOOLEAN], p \in [Addresses -> 0..MaxPieces] :
       /\ SumFunction(p) = MaxPieces
       /\ fsm = [i \in Addresses |-> NewMachine(kind, v[i], p[i])]
  /\ null = {} /\ index = 0 /\ lasterror = FALSE
  /\ since = MaxInterval
  /\ timeout = 0 /\ ready = {} /\ k = 1
  /\ retsocket = 0 /\ open = {}
  /\ finished = [i \in Addresses |-> 0]
  /\ pc = "top"

AfterAll == Skip \/ Goes \/ Fails \/ Wins \/ EndOfLoop
Next == PreSelect \/ StartNext \/ SelectReturns \/ SelectEnds \/ AfterAll \/ CloseAll

Spec == Init /\ [][Next]_vars

(* The calling thread is scheduled.                                        *)
FairSpec == Spec /\ WF_vars(Next)

-----------------------------------------------------------------------------
(* Types of the variables; what is left of a machine's time-out stays      *)
(* positive or zero, as no select is called with more.                     *)
TypeOK ==
  /\ fsm \in [Addresses -> Machine]
  /\ null \subseteq Addresses /\ index \in 0..N /\ lasterror \in BOOLEAN
  /\ since \in 0..MaxInterval /\ timeout \in 0..Timeout
  /\ ready \subseteq Addresses /\ k \in 1..(N + 1)
  /\ retsocket \in 0..N /\ open \subseteq Addresses
  /\ finished \in [Addresses -> Nat]
  /\ pc \in {"top", "select", "after", "final", "returned"}

(* ConnectImpatient never has more than max_connect_ sockets open, reports *)
(* each address at most once, and when it returns the one it returns is    *)
(* open and no other: nothing leaks, also when the user breaks it or       *)
(* several machines are ready at once (complexconnect.cc:556).             *)
SocketsAccounted ==
  /\ Cardinality(open) <= MaxConnect
  /\ \A i \in Addresses : finished[i] <= 1
  /\ pc = "returned" => open = (IF retsocket = 0 THEN {} ELSE {retsocket})

(* The select sleeps no longer than until the time-out of a machine, or    *)
(* until another connection is due while there is room for one             *)
(* (complexconnect.cc:488): no machine is asked for a select after its end *)
(* (the assertion of tcpclient_fsm.cc PreSelect).                          *)
SelectOnTime ==
  /\ pc = "select" =>
       /\ \A i \in Live : timeout <= Max({0, TimeoutOf(fsm[i])})
       /\ (index < N /\ Cardinality(Connecting) < MaxConnect) => timeout <= Max({0, NextConnectTimeout})
  /\ pc = "top" => \A i \in Live : fsm[i].status \in {"EConnecting", "EReadWrite"}

(* ConnectImpatient returns: every machine connects, fails or times out,   *)
(* as long as peers do not send without end.                               *)
ConnectReturns == <>(pc = "returned")
=============================================================================
