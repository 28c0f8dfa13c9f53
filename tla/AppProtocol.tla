----------------------------- MODULE AppProtocol -----------------------------
(***************************************************************************)
(* What the unit does with one command of the phone app: the handlers of   *)
(* main/HAL/HAL_Bluetooth.cpp, as operators on the settings.  A command is *)
(* the frame the parser delivers (MessageParser): the message it is, its   *)
(* type and the fields of its payload that decide something.  Its outcome  *)
(* is the new settings, the state asked of the state machine, if any, and  *)
(* the answer.                                                             *)
(*                                                                         *)
(* Left out: the contents of the answers and of the payload fields nothing *)
(* depends on.  Queries of a message and commands that only acknowledge    *)
(* are told apart by their answers alone.  A wifi command that sets        *)
(* something has the five bytes its handler reads without looking at the   *)
(* length; a shorter one, read past its end or through a null pointer, is  *)
(* left out (BluetoothAssumption).                                         *)
(***************************************************************************)
EXTENDS Naturals, Sequences

CONSTANT Positions  (* the positions that pass isValidGeodeticPosition      *)

(* Messages whose answer is data whatever the type of the request.          *)
Reports == {"model", "status", "battery"}

(* Messages acknowledged whatever they hold; their response type is forced. *)
Toggles == {"gga", "gsv", "gst", "rmc", "gsa", "imuData", "baseInfo"}

(* Messages that answer a query with data and acknowledge the rest.         *)
Plain == {"radio", "log", "phoneNetwork", "register"}

Messages == Reports \union Toggles \union Plain \union
    {"satellites", "workMode", "com", "imuHeight", "tilt", "wifi", "shutdown",
     "logHeight", "ppp", "unknown"}

Types == {"query", "set", "other"}

NoPosition == "none"
OutOfRange == "out of range"

(* settings as the program starts with them; nothing is ever read back from *)
(* the file system.                                                         *)
DefaultSettings ==
    [baseId |-> "default", fixedBase |-> FALSE, position |-> NoPosition,
     height |-> "default", tilt |-> FALSE, ppp |-> TRUE, minElev |-> "default"]

-----------------------------------------------------------------------------
(* The response type is the request's, but for the messages that force it.  *)
ResponseType(c) ==
    IF c.type = "query" /\ c.message \notin Toggles \union {"ppp"}
      THEN "query response" ELSE "set response"

(* handleWorkMode.  The payload must hold the three mode bytes, and each    *)
(* must be one of its two values.                                           *)
ModeBytesValid(p) ==
    /\ p.length >= 3
    /\ p.mode \in {"rover", "base"}
    /\ p.enable \in BOOLEAN
    /\ p.base \in {"known", "single"}

KnownPoint(p) == p.mode = "base" /\ p.enable /\ p.base = "known"

(* The name is stored as soon as the mode bytes are checked.                *)
WithName(s, p) == IF p.length >= 12 /\ p.named THEN [s EXCEPT !.baseId = "named"] ELSE s

PositionAccepted(p) == p.length >= 44 /\ p.position \in Positions

WorkModeRefused(p) == ~ModeBytesValid(p) \/ (KnownPoint(p) /\ ~PositionAccepted(p))

(* Slip: the mode is cleared before the position is checked.                *)
SetWorkModeClears(s, p) ==
    IF ~ModeBytesValid(p) THEN s
    ELSE IF KnownPoint(p) /\ PositionAccepted(p)
      THEN [WithName(s, p) EXCEPT !.fixedBase = TRUE, !.position = p.position]
      ELSE [WithName(s, p) EXCEPT !.fixedBase = FALSE]

SetWorkMode(s, p) ==
    IF ~ModeBytesValid(p) THEN s
    ELSE IF ~KnownPoint(p) THEN [WithName(s, p) EXCEPT !.fixedBase = FALSE]
    ELSE IF PositionAccepted(p)
      THEN [WithName(s, p) EXCEPT !.fixedBase = TRUE, !.position = p.position]
      ELSE WithName(s, p)

(* handleImuAntennaHeight and handleLogAntennaHeight: the same setting, in  *)
(* a double or a float, metres that must lie between 0 and 20.              *)
HeightAccepted(c) ==
    /\ c.payload.length >= (IF c.message = "imuHeight" THEN 8 ELSE 4)
    /\ c.payload.value \in 0..20

(* The settings after a command.                                            *)
Settings(s, c) ==
    LET p == c.payload IN
    CASE c.message = "workMode" /\ c.type = "set" -> SetWorkMode(s, p)
      [] c.message = "satellites" /\ c.type = "set" /\ p.length >= 8 ->
           [s EXCEPT !.minElev = p.value]
      [] c.message \in {"imuHeight", "logHeight"} /\ c.type # "query" ->
           IF HeightAccepted(c) THEN [s EXCEPT !.height = p.value] ELSE s
      [] c.message = "tilt" /\ c.type # "query" /\ p.length >= 1 ->
           [s EXCEPT !.tilt = (p.value # 0)]
      [] c.message = "ppp" /\ c.type # "query" /\ p.length >= 1 ->
           [s EXCEPT !.ppp = (p.value # 0)]
      [] OTHER -> s

NoState == "none"

(* The state the command asks for with requestChangeState.  The wifi        *)
(* handler's one byte of interest is read without a test of the length.     *)
RequestedState(c) ==
    LET p == c.payload IN
    CASE c.message = "workMode" /\ c.type = "set" ->
           IF WorkModeRefused(p) THEN NoState
           ELSE IF p.mode = "base" /\ p.enable THEN "base" ELSE "rover"
      [] c.message = "wifi" /\ c.type = "set" /\ p.value = 1 -> "web"
      [] OTHER -> NoState

(* The answer: data, an acknowledgement, an error code, or nothing.         *)
Answer(c) ==
    LET p == c.payload IN
    CASE c.message \in Reports -> "data"
      [] c.message \in Toggles \union {"unknown"} -> "ok"
      [] c.message = "shutdown" -> IF p.length >= 1 THEN "ok" ELSE "error"
      [] c.message \notin Reports \union Toggles \union {"unknown", "shutdown"}
           /\ c.type = "query" -> "data"
      [] c.message \in {"satellites", "workMode", "com", "wifi"} /\ c.type = "other" -> "none"
      [] c.message = "workMode" /\ c.type = "set" ->
           IF WorkModeRefused(p) THEN "error" ELSE "ok"
      [] c.message = "logHeight" /\ c.type # "query" ->
           IF HeightAccepted(c) THEN "ok" ELSE "error"
      [] c.message = "ppp" /\ c.type # "query" -> IF p.length >= 1 THEN "ok" ELSE "error"
      [] OTHER -> "ok"
=============================================================================
