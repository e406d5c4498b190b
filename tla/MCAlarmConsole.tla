----------------------------- MODULE MCAlarmConsole ---------------------------
(* Small instances of AlarmConsole for TLC: every alarm is of one device, so *)
(* that a bulk acknowledgement has several requests.                         *)
EXTENDS AlarmConsole

CONSTANT d1

MCDeviceOf == [a \in Alarms |-> d1]
MCPageSize == [v \in Views |-> IF v = "console" THEN 1 ELSE 2]
===============================================================================
