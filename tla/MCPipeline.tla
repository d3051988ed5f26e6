----------------------------- MODULE MCPipeline -----------------------------
(***************************************************************************)
(* Instances of Pipeline for TLC: queues of one place, and requests that   *)
(* take each branch of app_handle_message.                                 *)
(***************************************************************************)
EXTENDS Pipeline

Cmd(payload) == [type |-> "CMD", payload |-> payload]

Ping    == Cmd("ping")
Status  == Cmd("status?")
Toggle  == Cmd("led=toggle")
LedOn   == Cmd("led=on")
LedOff  == Cmd("led=off")
Unknown == Cmd("led=blue")
Foreign == [type |-> "ACK", payload |-> "ping"]

AllRequests == {Ping, Status, Toggle, LedOn, LedOff, Unknown, Foreign}
OneRequest  == {Ping}
=============================================================================
