---------------------------- MODULE MCDmxRouter ----------------------------
(***************************************************************************)
(* DmxRouter on a small instance: two outputs, a table of two slots, and   *)
(* packets of up to three sources on two universes, so that slots are      *)
(* reused, priorities differ and blends have two contributors.             *)
(***************************************************************************)
EXTENDS DmxRouter, TLC

CONSTANTS desk, tower, phone, none

MCIp == {desk, tower, phone}

Pkt(ip, proto, u, prio, sc, data) ==
  [ip |-> ip, proto |-> proto, universe |-> u, priority |-> prio,
   sc |-> sc, data |-> data]

MCPackets ==
  { Pkt(desk,  "artnet", 0, 1, 0, <<1, 2>>),
    Pkt(desk,  "artnet", 0, 1, 0, <<2>>),
    Pkt(desk,  "sacn",   0, 1, 0, <<0, 1>>),
    Pkt(desk,  "sacn",   0, 1, 5, <<0, 2>>),
    Pkt(tower, "sacn",   0, 2, 0, <<0, 2>>),
    Pkt(phone, "artnet", 1, 1, 0, <<2, 1>>) }

Out(u, mode, loss, failsafe, split) ==
  [en |-> TRUE, universe |-> u, mergemode |-> mode, losemode |-> loss,
   failsafe |-> failsafe, split |-> split]

Config(a, b) == [o \in {0, 1} |-> IF o = 0 THEN a ELSE b]

MCConfigs ==
  { Config(Out(0, "htp", "zero", 2, {}), Out(0, "htp", "zero", 2, {})),
    Config(Out(0, "ltp", "hold", 2, {1}), Out(1, "priority", "zero", 1, {0, 1})) }

MCSettings ==
  UNION {{[c[0] EXCEPT !.en = FALSE], [c[0] EXCEPT !.universe = 1],
          [c[0] EXCEPT !.mergemode = "off"]} : c \in MCConfigs}

=============================================================================
