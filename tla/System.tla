------------------------------- MODULE System -------------------------------
(***************************************************************************)
(* The board from end to end: a host that writes frames (as               *)
(* scripts/uart_link_check.py does), the tasks and queues of Pipeline, and *)
(* the parser of Parser in place of Pipeline's arbitrary results.          *)
(*                                                                         *)
(* The queue of the interrupt, the hands of task_uart_rx and the queue of  *)
(* the parser are three FIFO stores in a row, of which Pipeline keeps the  *)
(* lengths; inflight is the bytes in all three, in order.                  *)
(*                                                                         *)
(* What UartRx says of the receiver is kept as far as a byte can be lost:  *)
(* while interrupts are masked one byte waits in the data register, and    *)
(* those after it overrun it until the handler has read it.                *)
(***************************************************************************)
EXTENDS Pipeline

CONSTANTS TypeLength, MaxPayload, MaxFrame, TypeText, Input,   \* of Parser
          PayloadText,      \* payload of a request |-> its bytes
          Hosts             \* the hosts there may be: [script, listens_first]

VARIABLES state, length_field, body, checksum_field, expected_body_length,
          byte, result, message, window,    \* of Parser
          inflight,
          masked, late,     \* tasks_start has created a queue and no task runs yet;
                            \* the byte that waits in the data register, or << >>
          asked, outgoing,  \* requests begun, and the rest of the last one
          touched,          \* history: requests before this one, this one included,
                            \* were begun when the last byte was forgotten or lost
          script,           \* the requests the host sends
          listens_first     \* it sends nothing before the board is up

P == INSTANCE Parser

ASSUME SystemAssumption ==
  /\ P!ProtocolOK /\ P!InputOK
  /\ Hosts \subseteq [script : Seq(Request), listens_first : BOOLEAN]
  /\ \A r \in Request : /\ r.type \in P!MessageType
                        /\ r.payload \in DOMAIN PayloadText
                        /\ PayloadText[r.payload] \in Seq(P!Byte)

parser_t   == <<state, length_field, body, checksum_field, expected_body_length,
                byte, result, message, window>>
kind       == <<script, listens_first>>
receiver   == <<masked, late>>
host       == <<asked, outgoing, touched, kind>>
systemVars == <<vars, parser_t, inflight, receiver, host>>

SystemInit ==
  /\ Init /\ P!Init /\ inflight = << >>
  /\ masked = FALSE /\ late = << >>
  /\ asked = 0 /\ outgoing = << >> /\ touched = 0
  /\ \E h \in Hosts : script = h.script /\ listens_first = h.listens_first

Frame(r) ==
  P!protocol_encode_frame([type |-> r.type, payload |-> PayloadText[r.payload]], MaxFrame)

-----------------------------------------------------------------------------

\* ser.write(frame)
Write ==
  /\ outgoing = << >> /\ asked < Len(script)
  /\ listens_first => running
  /\ outgoing' = Frame(script[asked + 1]) /\ asked' = asked + 1
  /\ UNCHANGED <<vars, parser_t, inflight, receiver, touched, kind>>

\* The next byte raises the interrupt, and is read before another one comes.
ByteArrives ==
  /\ outgoing # << >> /\ ~masked /\ late = << >>
  /\ usart1_isr
  /\ outgoing' = Tail(outgoing)
  /\ inflight' = IF g_uart_rx_isr_queue' > g_uart_rx_isr_queue
                 THEN Append(inflight, Head(outgoing)) ELSE inflight
  /\ touched' = IF early' > early THEN asked ELSE touched
  /\ UNCHANGED <<parser_t, receiver, asked, kind>>

\* Interrupts are masked: the byte waits.
ByteWaits ==
  /\ outgoing # << >> /\ masked /\ late = << >>
  /\ late' = <<Head(outgoing)>> /\ outgoing' = Tail(outgoing)
  /\ UNCHANGED <<vars, parser_t, inflight, masked, asked, touched, kind>>

\* A byte waits still, and the next one is lost.  It costs the request it is of,
\* unless it is the '@' of the frame and the byte that waits stands in for it.
ByteIsLost ==
  /\ outgoing # << >> /\ late # << >>
  /\ outgoing' = Tail(outgoing)
  /\ touched' = IF late = <<P!START>> /\ Len(outgoing) = Len(Frame(script[asked]))
                THEN asked - 1 ELSE asked
  /\ UNCHANGED <<vars, parser_t, inflight, receiver, asked, kind>>

\* Interrupts are enabled again, and the handler reads the byte that has waited.
ReadLate ==
  /\ late # << >> /\ running
  /\ usart1_isr
  /\ inflight' = IF g_uart_rx_isr_queue' > g_uart_rx_isr_queue
                 THEN inflight \o late ELSE inflight
  /\ late' = << >>
  /\ UNCHANGED <<parser_t, masked, host>>

\* tasks_start, from its first xQueueCreate, which leaves interrupts masked, to
\* the first task.
CreateQueues ==
  /\ ~running /\ ~masked
  /\ masked' = TRUE
  /\ UNCHANGED <<vars, parser_t, inflight, late, host>>

StartTasks ==
  /\ masked
  /\ StartScheduler
  /\ masked' = FALSE
  /\ UNCHANGED <<parser_t, inflight, late, host>>

\* What task_app finds in a message of the parser.
Received(m) ==
  CHOOSE r \in Request : r.type = m.type /\ PayloadText[r.payload] = m.payload

task_parser ==
  /\ ParserReceive
  /\ P!parser_consume_byte(Head(inflight))
  /\ parsed' = IF result' = "MESSAGE_READY" THEN <<Received(message')>> ELSE << >>
  /\ result' = "ERROR" <=> count'.pe > count.pe
  /\ inflight' = Tail(inflight)
  /\ UNCHANGED <<receiver, host>>

OtherSteps ==
  /\ \/ RxReceive \/ RxSend \/ ParserSend
     \/ AppReceive \/ SendCommand \/ ReadCounter \/ SendReply
     \/ ApplyCommand \/ TxReceive \/ TxSend \/ IdleTask
  /\ UNCHANGED <<parser_t, inflight, receiver, host>>

SystemNext ==
  \/ Write \/ ByteArrives \/ ByteWaits \/ ByteIsLost
  \/ ReadLate \/ CreateQueues \/ StartTasks
  \/ task_parser \/ OtherSteps

\* The processor does not stop, and the host goes on with its script as long as
\* it has nothing to wait for.
SystemSpec ==
  /\ SystemInit /\ [][SystemNext]_systemVars
  /\ Fairness
  /\ WF_systemVars(CreateQueues) /\ WF_systemVars(ReadLate)
  /\ WF_systemVars(Write) /\ WF_systemVars(ByteArrives)

-----------------------------------------------------------------------------
(* Properties. *)

Expected(s) == [k \in DOMAIN s |-> Service!AnswerTo(s[k])]
OnTheLine   == [k \in DOMAIN wire |-> <<wire[k].type, wire[k].payload>>]

\* The hosts the invariants below are about: no script is longer than the
\* application can have waiting, every request of it has a frame, without the
\* carriage return the parser skips, and no two requests have the same text.
Without(x, text) == \A i \in DOMAIN text : text[i] # x
Sendable(r) == /\ Frame(r) # << >>
               /\ Without(P!CR, TypeText[r.type]) /\ Without(P!CR, PayloadText[r.payload])
Fits(s) == Len(s) <= AppMessageQueueLength + 1 /\ \A k \in DOMAIN s : Sendable(s[k])
DistinctTexts ==
  \A q, r \in Request :
    q.type = r.type /\ PayloadText[q.payload] = PayloadText[r.payload] => q = r
ScriptsFit ==
  (\A h \in Hosts : h.listens_first => Fits(h.script)) /\ DistinctTexts

\* And, for a host that does not listen first: no text of its script holds an '@',
\* and nothing in a frame but its length reads as one, since an '@' may have waited
\* for the interrupt while the bytes between were lost.
ReadsAsLength(f, i) ==
  /\ P!IsHex(f[i]) /\ P!IsHex(f[i + 1]) /\ f[i + 2] = P!SEP
  /\ P!HexByte(f[i], f[i + 1]) \in TypeLength + 1 .. P!MaxBody
Alone(r) ==
  /\ Without(P!START, TypeText[r.type]) /\ Without(P!START, PayloadText[r.payload])
  /\ \A i \in 3 .. Len(Frame(r)) - 2 : ~ReadsAsLength(Frame(r), i)
StartsAreFrames(s) == \A k \in DOMAIN s : Alone(s[k])
EveryScriptFits ==
  (\A h \in Hosts : Fits(h.script) /\ StartsAreFrames(h.script)) /\ DistinctTexts

\* A host that listens first is served whatever the order the tasks run in: no
\* byte of its requests is lost to boot or dropped, and no frame is refused.
NothingIsLost == listens_first => touched = 0 /\ count.qd = 0 /\ count.pe = 0

\* From bytes to bytes: the answers on the line are those to the script, in its
\* order, through the encoder, the parser, five tasks and five queues.
AnswersFollowTheScript ==
  listens_first => OnTheLine = Expected(SubSeq(script, 1, Len(wire)))

\* Every request of the script is answered, and every LED command obeyed.
ScriptIsServed ==
  listens_first ~> [](/\ Len(wire) = Len(script)
                      /\ moved = Len(SelectSeq(script, Service!IsLedCommand)))

\* A host that does not wait for the board loses the requests that had a byte
\* forgotten while there was no queue, or overrun while interrupts were masked and
\* not made up for, and no other: what is left of them is skipped, the byte that
\* waited does not draw the parser into the next frame, and that is read whole.
BootCostsOnlyItsFrames ==
  Idle /\ asked = Len(script) /\ outgoing = << >> /\ late = << >> =>
    accepted = SubSeq(script, touched + 1, Len(script))
=============================================================================
