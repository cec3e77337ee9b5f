------------------------------ MODULE MCAlarm -------------------------------
(* Two alarms that see each other's messages, on the same queue or not.    *)
EXTENDS Alarm

MCBuilt == {<<"thread", "other">>, <<"thread", "same">>}
=============================================================================
