---------------------------- MODULE MCDeviceConsole ---------------------------
(* Small instances of DeviceConsole for TLC: three rows with every form of a *)
(* number, equal sort keys and a row for every filter, two rows of them, a   *)
(* malformed one, and none.                                                  *)
EXTENDS DeviceConsole

Raw(id, host, found, type, state, form) ==
    [id |-> id, host |-> host, found |-> found, type |-> type, status |-> state,
     number |-> [form |-> form, value |-> 7]]

Radio == Raw(1, 2, TRUE, "wireless", "up", "numeral")
Router == Raw(2, 1, TRUE, "router", "up", "emptyText")
Host == Raw(3, 3, FALSE, "absent", "absent", "absent")
Switch == Raw(4, 1, FALSE, "router", "down", "otherText")
Garbage == Raw(5, 1, TRUE, "absent", "up", "malformed")

MCFleets == {<<Radio, Router, Host>>, <<Switch, Radio>>, <<Host, Garbage>>, <<>>}
===============================================================================
