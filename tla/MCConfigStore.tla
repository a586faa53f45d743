--------------------------- MODULE MCConfigStore ---------------------------
(***************************************************************************)
(* ConfigStore with a number, which is the pin of the board's LED, a       *)
(* password, and two fields of outputs, both known by another name to      *)
(* older firmware: a number, whose range excludes the zero it has without  *)
(* a line in the template, and a switch, the only field of an output that  *)
(* is no number (loopback).                                                *)
(***************************************************************************)
EXTENDS ConfigStore

CONSTANTS g, s, a, c

MCGlobal == {g, s}
MCOwn == {a, c}
MCInRange == g :> {1} @@ s :> {0, 1, 2} @@ a :> {1} @@ c :> {1}
MCKind == g :> "i32" @@ s :> "str" @@ a :> "i32" @@ c :> "u8"
Line(key, val) == [key |-> key, val |-> val]

\* The first line is out of range and has no effect; the board has a password
\* of its own, and its LED decides the number.
MCBaseLines == <<Line(g, 0), Line(s, 1)>>
MCBoardLines == "ESP32S3_N16R8" :> <<Line(s, 2)>>
\* What older firmware stored: a number out of range, a switch.
MCOlder == {[type |-> "i32", val |-> 0], [type |-> "u8", val |-> 1]}
MCBoardLed == "ESP32S3_N16R8" :> (g :> 1)

=============================================================================
