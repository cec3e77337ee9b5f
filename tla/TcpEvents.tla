------------------------------ MODULE TcpEvents ------------------------------
(***************************************************************************)
(* What TcpClient promises the MTcpEvent object it is given (tcpclient.h): *)
(* after Connect, at most one OnConnect; then OnWrote with the ids that    *)
(* Write returned, in that order and without gaps, and OnRead, which says  *)
(* something new only after a Read; and one last event, OnDisConnect or    *)
(* OnError, after which nothing is reported.  A client that disconnects    *)
(* will see the last event.                                                *)
(***************************************************************************)
EXTENDS Naturals

VARIABLES
  phase,    \* "init", "connecting", "up" after OnConnect, "over" after the last event
  leaving,  \* has Disconnect been called?
  accepted, \* the last id Write has returned
  wrote,    \* the last id OnWrote was called with
  unread    \* has OnRead, or what caused it, not been followed by a Read?

vars == <<phase, leaving, accepted, wrote, unread>>

Init ==
  /\ phase = "init" /\ leaving = FALSE
  /\ accepted = 0 /\ wrote = 0 /\ unread = FALSE

Connect ==
  /\ phase = "init" /\ phase' = "connecting"
  /\ UNCHANGED <<leaving, accepted, wrote, unread>>

Disconnect ==
  /\ leaving' = TRUE
  /\ UNCHANGED <<phase, accepted, wrote, unread>>

(* A call that saw the connection up may come to its effect after the end. *)
Write ==
  /\ phase # "init" /\ accepted' = accepted + 1
  /\ UNCHANGED <<phase, leaving, wrote, unread>>

Read ==
  /\ phase # "init" /\ unread' = FALSE
  /\ UNCHANGED <<phase, leaving, accepted, wrote>>

OnConnect ==
  /\ phase = "connecting" /\ phase' = "up"
  /\ UNCHANGED <<leaving, accepted, wrote, unread>>

OnWrote ==
  /\ phase = "up" /\ wrote < accepted /\ wrote' = wrote + 1
  /\ UNCHANGED <<phase, leaving, accepted, unread>>

OnRead ==
  /\ phase = "up" /\ ~unread /\ unread' = TRUE
  /\ UNCHANGED <<phase, leaving, accepted, wrote>>

Last ==
  /\ phase \in {"connecting", "up"} /\ phase' = "over"
  /\ UNCHANGED <<leaving, accepted, wrote, unread>>

Next == Connect \/ Disconnect \/ Write \/ Read \/ OnConnect \/ OnWrote \/ OnRead \/ Last

Spec == Init /\ [][Next]_vars

LastWhenLeaving == leaving /\ Last

FairSpec == Spec /\ WF_vars(LastWhenLeaving)
=============================================================================
