-------------------------------- MODULE Board --------------------------------
(***************************************************************************)
(* What the board promises to whoever talks to it, with the queues, the    *)
(* tasks and the scheduler of the firmware left out: every request that    *)
(* reached it in a valid frame is answered once, in the order of arrival,  *)
(* and the LED obeys the LED commands among them, in that order.  When an  *)
(* answer leaves and when the LED moves are independent: "cmd=ok" may      *)
(* precede the movement it acknowledges.                                   *)
(***************************************************************************)
EXTENDS Integers, Sequences, FiniteSets

CONSTANT Request      \* the [type, payload] the board can be sent

VARIABLES requests,   \* what was received in valid frames
          answers,    \* what was answered, as <<type, payload>>
          led,        \* "on" or "off"
          moved       \* the number of LED commands obeyed

vars == <<requests, answers, led, moved>>

Init == requests = << >> /\ answers = << >> /\ led = "off" /\ moved = 0

-----------------------------------------------------------------------------

IsLedCommand(m) ==
  m.type = "CMD" /\ m.payload \in {"led=on", "led=off", "led=toggle"}

\* Those among the first n requests, by their places.
LedCommands(n) == {k \in 1..n : IsLedCommand(requests[k])}

AnswerTo(m) ==
  IF m.type # "CMD" THEN <<"ERR", "code=unexpected_type">>
  ELSE CASE IsLedCommand(m)       -> <<"ACK", "cmd=ok">>
         [] m.payload = "ping"    -> <<"ACK", "pong=1">>
         [] m.payload = "status?" -> <<"STS", "counters">>
         [] OTHER                 -> <<"ERR", "code=unknown_cmd">>

After(payload) ==
  CASE payload = "led=on"     -> "on"
    [] payload = "led=off"    -> "off"
    [] payload = "led=toggle" -> IF led = "on" THEN "off" ELSE "on"

Receive == /\ \E m \in Request : requests' = Append(requests, m)
           /\ UNCHANGED <<answers, led, moved>>

Answer == /\ Len(answers) < Len(requests)
          /\ answers' = Append(answers, AnswerTo(requests[Len(answers) + 1]))
          /\ UNCHANGED <<requests, led, moved>>

\* The next LED command is obeyed.
MoveLed == \E n \in DOMAIN requests :
  /\ IsLedCommand(requests[n]) /\ Cardinality(LedCommands(n)) = moved + 1
  /\ led' = After(requests[n].payload)
  /\ moved' = moved + 1
  /\ UNCHANGED <<requests, answers>>

Next == Receive \/ Answer \/ MoveLed

Safety == Init /\ [][Next]_vars

Spec == Safety /\ WF_vars(Answer) /\ WF_vars(MoveLed)
=============================================================================
