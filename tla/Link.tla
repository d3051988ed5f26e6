-------------------------------- MODULE Link --------------------------------
(***************************************************************************)
(* Frames over a serial line that damages one byte or cuts one frame short:*)
(* what task_uart_tx puts on the line (firmware/app/tasks.c, with          *)
(* protocol_encode_frame and "\r\n" at the end) and what                   *)
(* parser_consume_byte reads at the other end.  The same encoder and       *)
(* parser serve both directions.                                           *)
(*                                                                         *)
(* start is a history variable.  It does not count the '\r's, which the    *)
(* parser does not see.                                                    *)
(***************************************************************************)
EXTENDS Parser, SequencesExt

CONSTANTS Traffic,      \* bound: [messages, number], what is sent and how much of it
          MaxDamage     \* bound: bytes damaged

ASSUME TrafficAssumption ==
  \A t \in Traffic : t.messages \subseteq Message /\ t.number \in Nat
ASSUME LinkBounds == MaxDamage \in Nat

VARIABLES traffic,      \* the one of Traffic that is on the line
          line,         \* the bytes on their way
          sent,         \* the messages sent
          delivered,    \* the messages the parser returned
          damaged,      \* for every damaged byte, the number of its frame
          start         \* for every frame and the next, the bytes sent before it

linkVars == <<vars, traffic, line, sent, delivered, damaged, start>>

LinkInit ==
  /\ Init /\ traffic \in Traffic
  /\ line = << >> /\ sent = << >> /\ delivered = << >> /\ damaged = << >>
  /\ start = <<0>>

\* The bytes task_uart_tx sends: UART_TX_CRLF_FOR_TERMINAL replaces the final
\* '\n', and a message that cannot be encoded sends nothing.
Transmitted(m) ==
  LET frame == protocol_encode_frame(m, MaxFrame)
  IN  IF frame = NoFrame THEN << >> ELSE Front(frame) \o <<CR, END>>

task_uart_tx ==
  /\ line = << >> /\ Len(sent) < traffic.number
  /\ \E m \in traffic.messages :
       /\ line' = Transmitted(m)
       /\ sent' = Append(sent, m)
       /\ start' = Append(start, start[Len(start)] + Len(protocol_encode_frame(m, MaxFrame)))
  /\ UNCHANGED <<vars, traffic, delivered, damaged>>

\* One byte of the frame being sent is altered or lost, or the sender gives up
\* and the rest of the frame never comes.
Damage ==
  /\ line # << >> /\ Len(damaged) < MaxDamage
  /\ \E i \in DOMAIN line :
       \/ line' = RemoveAt(line, i)
       \/ line' = SubSeq(line, 1, i - 1)
       \/ \E b \in Input \ {line[i]} : line' = [line EXCEPT ![i] = b]
  /\ damaged' = Append(damaged, Len(sent))
  /\ UNCHANGED <<vars, traffic, sent, delivered, start>>

task_parser ==
  /\ line # << >>
  /\ line' = Tail(line)
  /\ parser_consume_byte(Head(line))
  /\ delivered' = IF result' = "MESSAGE_READY" THEN Append(delivered, message')
                                               ELSE delivered
  /\ UNCHANGED <<traffic, sent, damaged, start>>

\* There is nothing left to send.
Silence == line = << >> /\ Len(sent) = traffic.number /\ UNCHANGED linkVars

LinkNext == task_uart_tx \/ Damage \/ task_parser \/ Silence

LinkSpec == LinkInit /\ [][LinkNext]_linkVars

-----------------------------------------------------------------------------
(* Properties. *)

\* Traffic of which every message is sent, and none holds a '\r', which the
\* parser drops, or an '@', which opens a frame.
CleanTraffic ==
  \A t \in Traffic : \A m \in t.messages :
    /\ protocol_encode_frame(m, MaxFrame) # NoFrame
    /\ \A text \in {TypeText[m.type], m.payload} :
         \A i \in 1 .. Len(text) : text[i] \notin {CR, START}

\* The frame of the last damage; 0 when there was none.
LastDamaged == IF damaged = << >> THEN 0 ELSE damaged[Len(damaged)]

\* The frames that start after whatever the damage opened is over.
SafeFrames ==
  {k \in LastDamaged + 1 .. Len(sent) :
     LastDamaged = 0 \/ start[k] >= start[LastDamaged + 1] + MaxBody + 8}

\* A damaged byte costs a bounded part of the stream, even when it turns LL
\* into a length that swallows frames: the frames that start MaxBody + 8 bytes
\* after the damaged one are delivered, all of them, in order and last.
LossIsBounded ==
  line = << >> =>
    \A k \in SafeFrames :
      LET fromLast == Len(sent) - k
      IN  /\ fromLast < Len(delivered)
          /\ delivered[Len(delivered) - fromLast] = sent[k]

\* One altered or lost byte is never read as a message nobody sent: what is
\* delivered can be found in what was sent, in the same order.
DeliveredWasSent ==
  LET Found(n, m) == IF n < Len(delivered) /\ delivered[n + 1] = m THEN n + 1 ELSE n
  IN  FoldLeft(Found, 0, sent) = Len(delivered)
=============================================================================
