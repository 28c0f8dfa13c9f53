----------------------------- MODULE MCBluetooth -----------------------------
(* Commands that stand for every effect: a rover, a known point accepted,   *)
(* refused for its position and for its length, the start of the web        *)
(* configuration, a query that gets data and a command that gets no answer. *)
EXTENDS Bluetooth

WorkMode(mode, length, position) ==
    [message |-> "workMode", type |-> "set",
     payload |-> [length |-> length, mode |-> mode, base |-> "known", enable |-> TRUE,
                  named |-> FALSE, position |-> position]]

Wifi == [message |-> "wifi", type |-> "set", payload |-> [length |-> 5, value |-> 1]]

Other(message, type) ==
    [message |-> message, type |-> type, payload |-> [length |-> 0]]

MCCommands ==
    {WorkMode("rover", 3, NoPosition), WorkMode("base", 44, "p1"),
     WorkMode("base", 44, OutOfRange), Wifi, Other("ppp", "query"), Other("com", "other")}
=============================================================================
