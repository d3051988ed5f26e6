------------------------------ MODULE MCSystem ------------------------------
(***************************************************************************)
(* System with the widths of the firmware and the frames of                *)
(* scripts/uart_link_check.py.                                             *)
(***************************************************************************)
EXTENDS System

MCTypeText == [CMD |-> <<67, 77, 68>>, DAT |-> <<68, 65, 84>>, EVT |-> <<69, 86, 84>>,
               STS |-> <<83, 84, 83>>, ACK |-> <<65, 67, 75>>, ERR |-> <<69, 82, 82>>]
MCPayloadText == [x \in {"ping", "status?", "led=toggle"} |->
                    CASE x = "ping"       -> <<112, 105, 110, 103>>
                      [] x = "status?"    -> <<115, 116, 97, 116, 117, 115, 63>>
                      [] x = "led=toggle" -> <<108, 101, 100, 61, 116, 111, 103, 103, 108, 101>>]
MCInput == 0..255

Cmd(payload) == [type |-> "CMD", payload |-> payload]
Data         == [type |-> "DAT", payload |-> "ping"]   \* answered with an ERR
MCRequest    == {Cmd(p) : p \in DOMAIN MCPayloadText} \union {Data}

\* FRAMES of scripts/uart_link_check.py, the third of which is
\* "@0E:CMD:led=toggle:7D\n".
Frames == <<Cmd("ping"), Cmd("status?"), Cmd("led=toggle")>>
DataAmongPings == <<Cmd("ping"), Data, Cmd("ping")>>

MCHosts == {[script |-> Frames, listens_first |-> TRUE],
            [script |-> DataAmongPings, listens_first |-> FALSE]}

ASSUME FramesOfTheScript ==
  Frame(Frames[3]) = <<64, 48, 69, 58>> \o MCTypeText["CMD"] \o <<58>>
                       \o MCPayloadText["led=toggle"] \o <<58, 55, 68, 10>>

ASSUME ScriptsOfTheLinkCheck == ScriptsFit /\ EveryScriptFits
=============================================================================
