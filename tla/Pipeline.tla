------------------------------ MODULE Pipeline ------------------------------
(***************************************************************************)
(* firmware/app/tasks.c, app.c, actuators.c and drivers/uart_comm.c: the   *)
(* USART1 interrupt and the five tasks it feeds, joined by FreeRTOS queues.*)
(*                                                                         *)
(*   usart1_isr -> task_uart_rx -> task_parser -> task_app -> task_uart_tx *)
(*                                                    \-> task_actuators   *)
(*                                                                         *)
(* A task is at one of its blocking calls, all of them with portMAX_DELAY; *)
(* an action takes it from one blocking call to the next.  No other task   *)
(* can tell the statements of an action apart: what a task reads of        *)
(* another one is a counter, which only task_app reads, and it runs when   *)
(* the tasks and the interrupt that write the counters do not.             *)
(*                                                                         *)
(* Bytes are indistinguishable, a byte queue is the number of bytes it     *)
(* holds, and what parser_consume_byte returns for a byte is any of its    *)
(* three results: Parser says which one.                                   *)
(***************************************************************************)
EXTENDS Integers, Sequences, FiniteSets

CONSTANTS UartRxIsrQueueLength,     \* the lengths of app_config.h
          ParserInputQueueLength,
          AppMessageQueueLength,
          UartTxQueueLength,
          ActuatorQueueLength,
          Request,                  \* the messages the parser can deliver
          MaxBytes,                 \* bound: bytes received
          FastReception             \* a byte time suffices to move the last one

ASSUME QueueLengths ==
  /\ UartRxIsrQueueLength \in Nat \ {0} /\ ParserInputQueueLength \in Nat \ {0}
  /\ AppMessageQueueLength \in Nat \ {0} /\ UartTxQueueLength \in Nat \ {0}
  /\ ActuatorQueueLength \in Nat \ {0}
ASSUME RequestAssumption == Request \subseteq [type : STRING, payload : STRING]
ASSUME BoundsAssumption  == MaxBytes \in Nat /\ FastReception \in BOOLEAN

VARIABLES
  running,                     \* tasks_start has started the scheduler
  count,                       \* the seven counters, by their name in "status?"
  g_uart_rx_isr_queue,         \* number of bytes
  rx_byte,                     \* bytes task_uart_rx holds, 0 or 1
  g_parser_input_queue,        \* number of bytes
  parsed,                      \* the message task_parser is sending, or << >>
  g_app_queue,
  app, command, reply, unread, \* task_app: its place and its local variables
  g_actuator_queue,
  pc13,                        \* level of the pin of the LED, which is lit by a 0
  g_uart_tx_queue,
  sending                      \* the message task_uart_tx is sending, or << >>

\* History: bytes read before there was a queue, messages delivered by the
\* parser, number of commands applied to the LED, answers on the line.
VARIABLES early, accepted, moved, wire

reception    == <<g_uart_rx_isr_queue, rx_byte, g_parser_input_queue, early>>
parsing      == <<parsed, accepted>>
application  == <<app, command, reply, unread>>
actuation    == <<g_actuator_queue, pc13, moved>>
transmission == <<g_uart_tx_queue, sending, wire>>

upstream   == <<running, reception, parsing>>
downstream == <<application, actuation, transmission>>
vars       == <<upstream, count, g_app_queue, downstream>>

Action      == {"on", "off", "toggle"}
Counter     == {"rx", "ae", "irq", "pb", "pm", "pe", "qd"}
NoCounts    == [c \in Counter |-> 0]
ReplyType   == {"INVALID", "ACK", "ERR", "STS"}
ReplyText   == {"", "pong=1", "cmd=ok", "counters", "code=unexpected_type", "code=unknown_cmd"}
Answer      == [type : ReplyType, payload : ReplyText, counts : [Counter -> Nat]]
Reply(type, payload) == [type |-> type, payload |-> payload, counts |-> NoCounts]
NoReply     == Reply("INVALID", "")

Init ==
  /\ running = FALSE
  /\ count = NoCounts
  /\ g_uart_rx_isr_queue = 0 /\ rx_byte = 0 /\ g_parser_input_queue = 0
  /\ parsed = << >> /\ g_app_queue = << >>
  /\ app = "receive" /\ command = "" /\ reply = NoReply /\ unread = {}
  /\ g_actuator_queue = << >> /\ pc13 = 1
  /\ g_uart_tx_queue = << >> /\ sending = << >>
  /\ early = 0 /\ accepted = << >> /\ moved = 0 /\ wire = << >>

Increment(c) == count' = [count EXCEPT ![c] = @ + 1]

-----------------------------------------------------------------------------
(* The scheduler: fixed priorities, preemption, and time slices between    *)
(* tasks of the same priority.  A task is ready when its blocking call can *)
(* return.                                                                 *)

RxReady     == \/ rx_byte = 0 /\ g_uart_rx_isr_queue > 0
               \/ rx_byte = 1 /\ g_parser_input_queue < ParserInputQueueLength
ParserReady == \/ parsed = << >> /\ g_parser_input_queue > 0
               \/ parsed # << >> /\ Len(g_app_queue) < AppMessageQueueLength

\* Mutant: the xTaskCreate of task_actuators is commented out.
ActuatorsNotCreated == FALSE

ActuatorsReady == g_actuator_queue # << >>

Priority3   == running
Priority2   == running /\ ~RxReady /\ ~ParserReady

\* tasks_start, in one step: from the first xQueueCreate on interrupts are masked.
\* What waits or is lost meanwhile, the hardware has: System and UartRx say what.
StartScheduler ==
  /\ ~running
  /\ running' = TRUE
  /\ UNCHANGED <<count, reception, parsing, g_app_queue, downstream>>

-----------------------------------------------------------------------------
(* uart_comm.c *)

\* Mutant: the result of xQueueSendFromISR is not looked at.
IsrIgnoresFullQueue ==
  /\ running /\ count.irq < MaxBytes
  /\ Increment("irq")
  /\ g_uart_rx_isr_queue' = g_uart_rx_isr_queue + 1
  /\ UNCHANGED <<running, rx_byte, early, g_parser_input_queue, parsing, g_app_queue,
                 downstream>>

\* Mutant: a queue that has one free place left is taken for full.
IsrDropsTooEarly ==
  /\ running /\ count.irq < MaxBytes
  /\ FastReception => ~RxReady /\ ~ParserReady
  /\ \/ /\ g_uart_rx_isr_queue < UartRxIsrQueueLength - 1
        /\ Increment("irq")
        /\ g_uart_rx_isr_queue' = g_uart_rx_isr_queue + 1
     \/ /\ g_uart_rx_isr_queue >= UartRxIsrQueueLength - 1
        /\ count' = [count EXCEPT !.irq = @ + 1, !.qd = @ + 1]
        /\ UNCHANGED g_uart_rx_isr_queue
  /\ UNCHANGED <<running, rx_byte, early, g_parser_input_queue, parsing, g_app_queue,
                 downstream>>

\* Before tasks_start the driver has no queue and the byte is forgotten.
usart1_isr ==
  /\ count.irq < MaxBytes
  /\ FastReception /\ running => ~RxReady /\ ~ParserReady
  /\ \/ /\ ~running
        /\ Increment("irq")
        /\ early' = early + 1
        /\ UNCHANGED g_uart_rx_isr_queue
     \/ /\ running /\ g_uart_rx_isr_queue < UartRxIsrQueueLength
        /\ Increment("irq")
        /\ g_uart_rx_isr_queue' = g_uart_rx_isr_queue + 1
        /\ UNCHANGED early
     \/ /\ running /\ g_uart_rx_isr_queue = UartRxIsrQueueLength
        /\ count' = [count EXCEPT !.irq = @ + 1, !.qd = @ + 1]
        /\ UNCHANGED <<g_uart_rx_isr_queue, early>>
  /\ UNCHANGED <<running, rx_byte, g_parser_input_queue, parsing, g_app_queue,
                 downstream>>

-----------------------------------------------------------------------------
(* task_uart_rx *)

RxReceive ==
  /\ Priority3
  /\ rx_byte = 0 /\ g_uart_rx_isr_queue > 0
  /\ g_uart_rx_isr_queue' = g_uart_rx_isr_queue - 1
  /\ rx_byte' = 1
  /\ UNCHANGED <<running, count, g_parser_input_queue, early, parsing, g_app_queue,
                 downstream>>

\* Mutant: xQueueSend does not wait, and a byte that finds no room is lost.
RxSendWithoutWaiting ==
  /\ Priority3
  /\ rx_byte = 1
  /\ g_parser_input_queue' = IF g_parser_input_queue < ParserInputQueueLength
                             THEN g_parser_input_queue + 1 ELSE g_parser_input_queue
  /\ rx_byte' = 0
  /\ UNCHANGED <<running, count, g_uart_rx_isr_queue, early, parsing, g_app_queue,
                 downstream>>

RxSend ==
  /\ Priority3
  /\ rx_byte = 1 /\ g_parser_input_queue < ParserInputQueueLength
  /\ g_parser_input_queue' = g_parser_input_queue + 1
  /\ rx_byte' = 0
  /\ UNCHANGED <<running, count, g_uart_rx_isr_queue, early, parsing, g_app_queue,
                 downstream>>

-----------------------------------------------------------------------------
(* task_parser *)

ParserReceive ==
  /\ Priority3
  /\ parsed = << >> /\ g_parser_input_queue > 0
  /\ g_parser_input_queue' = g_parser_input_queue - 1
  /\ \/ /\ Increment("pb")                              \* IN_PROGRESS
        /\ UNCHANGED <<parsed, accepted>>
     \/ /\ count' = [count EXCEPT !.pb = @ + 1, !.pe = @ + 1]
        /\ UNCHANGED <<parsed, accepted>>
     \/ \E message \in Request :
          /\ count' = [count EXCEPT !.pb = @ + 1, !.pm = @ + 1]
          /\ parsed' = <<message>>
          /\ accepted' = Append(accepted, message)
  /\ UNCHANGED <<running, g_uart_rx_isr_queue, rx_byte, early, g_app_queue,
                 downstream>>

\* Mutant: xQueueSend does not wait, and the message is lost.
ParserSendWithoutWaiting ==
  /\ Priority3
  /\ parsed # << >>
  /\ g_app_queue' = IF Len(g_app_queue) < AppMessageQueueLength
                    THEN g_app_queue \o parsed ELSE g_app_queue
  /\ parsed' = << >>
  /\ UNCHANGED <<running, count, reception, accepted, downstream>>

ParserSend ==
  /\ Priority3
  /\ parsed # << >> /\ Len(g_app_queue) < AppMessageQueueLength
  /\ g_app_queue' = g_app_queue \o parsed
  /\ parsed' = << >>
  /\ UNCHANGED <<running, count, reception, accepted, downstream>>

-----------------------------------------------------------------------------
(* task_app: app_handle_message, cut at its calls of xQueueSend. *)

build_led_command(payload) ==
  CASE payload = "led=on"     -> "on"
    [] payload = "led=off"    -> "off"
    [] payload = "led=toggle" -> "toggle"
    [] OTHER                  -> ""

send_simple_message(type, payload) ==
  /\ app' = "send"
  /\ reply' = Reply(type, payload)
  /\ UNCHANGED <<command, unread>>

\* app_build_status_message: rx and ae are task_app's own; the other five
\* counters move while they are being read, one by one and in no given order.
app_build_status_message ==
  /\ app' = "read counters"
  /\ reply' = [Reply("STS", "counters") EXCEPT
                 !.counts["rx"] = count.rx + 1, !.counts["ae"] = count.ae]
  /\ unread' = Counter \ {"rx", "ae"}
  /\ UNCHANGED command

\* Mutant: a message that is not a command is dropped without an answer.
AnswersOnlyCommands(message) ==
  LET action == build_led_command(message.payload)
  IN  \/ message.type # "CMD" /\ UNCHANGED application
      \/ /\ message.type = "CMD" /\ action # ""
         /\ app' = "command" /\ command' = action
         /\ UNCHANGED <<reply, unread>>
      \/ /\ message.type = "CMD" /\ message.payload = "ping"
         /\ send_simple_message("ACK", "pong=1")
      \/ /\ message.type = "CMD" /\ message.payload = "status?"
         /\ app_build_status_message
      \/ /\ message.type = "CMD" /\ action = ""
         /\ message.payload \notin {"ping", "status?"}
         /\ send_simple_message("ERR", "code=unknown_cmd")

app_handle_message(message) ==
  LET action == build_led_command(message.payload)
  IN  \/ /\ message.type # "CMD"
         /\ send_simple_message("ERR", "code=unexpected_type")
      \/ /\ message.type = "CMD" /\ action # ""
         /\ app' = "command" /\ command' = action
         /\ UNCHANGED <<reply, unread>>
      \/ /\ message.type = "CMD" /\ message.payload = "ping"
         /\ send_simple_message("ACK", "pong=1")
      \/ /\ message.type = "CMD" /\ message.payload = "status?"
         /\ app_build_status_message
      \/ /\ message.type = "CMD" /\ action = ""
         /\ message.payload \notin {"ping", "status?"}
         /\ send_simple_message("ERR", "code=unknown_cmd")

AppReceive ==
  /\ Priority2
  /\ app = "receive" /\ g_app_queue # << >>
  /\ g_app_queue' = Tail(g_app_queue)
  /\ Increment("rx")
  /\ app_handle_message(Head(g_app_queue))
  /\ UNCHANGED <<upstream, actuation, transmission>>

ReadCounter ==
  /\ Priority2
  /\ app = "read counters"
  /\ \E c \in unread :
       /\ reply' = [reply EXCEPT !.counts[c] = count[c]]
       /\ unread' = unread \ {c}
  /\ app' = IF unread' = {} THEN "send" ELSE app
  /\ UNCHANGED <<upstream, count, g_app_queue, command, actuation, transmission>>

\* Mutant: xQueueSend does not wait, and the command may be lost.
CommandWithoutWaiting ==
  /\ Priority2
  /\ app = "command"
  /\ g_actuator_queue' = IF Len(g_actuator_queue) < ActuatorQueueLength
                         THEN Append(g_actuator_queue, command) ELSE g_actuator_queue
  /\ app' = "send" /\ command' = "" /\ reply' = Reply("ACK", "cmd=ok")
  /\ UNCHANGED <<upstream, count, g_app_queue, unread, pc13, moved, transmission>>

SendCommand ==
  /\ Priority2
  /\ app = "command" /\ Len(g_actuator_queue) < ActuatorQueueLength
  /\ g_actuator_queue' = Append(g_actuator_queue, command)
  /\ app' = "send" /\ command' = "" /\ reply' = Reply("ACK", "cmd=ok")
  /\ UNCHANGED <<upstream, count, g_app_queue, unread, pc13, moved, transmission>>

\* Mutant: an unexpected type is answered but not counted as an error.
ErrorNotCounted ==
  /\ Priority2
  /\ app = "send" /\ Len(g_uart_tx_queue) < UartTxQueueLength
  /\ g_uart_tx_queue' = Append(g_uart_tx_queue, reply)
  /\ \/ reply.payload = "code=unknown_cmd" /\ Increment("ae")
     \/ reply.payload # "code=unknown_cmd" /\ UNCHANGED count
  /\ app' = "receive" /\ reply' = NoReply
  /\ UNCHANGED <<upstream, g_app_queue, command, unread, actuation, sending, wire>>

\* The error counter moves after the error has been sent.
SendReply ==
  /\ Priority2
  /\ app = "send" /\ Len(g_uart_tx_queue) < UartTxQueueLength
  /\ g_uart_tx_queue' = Append(g_uart_tx_queue, reply)
  /\ \/ reply.type = "ERR" /\ Increment("ae")
     \/ reply.type # "ERR" /\ UNCHANGED count
  /\ app' = "receive" /\ reply' = NoReply
  /\ UNCHANGED <<upstream, g_app_queue, command, unread, actuation, sending, wire>>

-----------------------------------------------------------------------------
(* task_actuators.  Nothing else reads the pin or the command received. *)

\* Mutant: the LED is taken for active high.
ActiveHigh(action) ==
  pc13' = CASE action = "on"     -> 1
            [] action = "off"    -> 0
            [] action = "toggle" -> 1 - pc13

actuators_apply_command(action) ==
  pc13' = CASE action = "on"     -> 0
            [] action = "off"    -> 1
            [] action = "toggle" -> 1 - pc13

ApplyCommand ==
  /\ Priority2
  /\ ActuatorsReady
  /\ g_actuator_queue' = Tail(g_actuator_queue)
  /\ actuators_apply_command(Head(g_actuator_queue))
  /\ moved' = moved + 1
  /\ UNCHANGED <<upstream, count, g_app_queue, application, transmission>>

-----------------------------------------------------------------------------
(* task_uart_tx.  usart_send_blocking spins: the task stays ready, at the  *)
(* priority of task_app, for as long as the frame takes.                   *)

TxReceive ==
  /\ Priority2
  /\ sending = << >> /\ g_uart_tx_queue # << >>
  /\ sending' = <<Head(g_uart_tx_queue)>>
  /\ g_uart_tx_queue' = Tail(g_uart_tx_queue)
  /\ UNCHANGED <<upstream, count, g_app_queue, application, actuation, wire>>

\* Mutant: an STS is longer than the frame buffer and is not sent.
LongFramesAreSkipped ==
  /\ Priority2
  /\ sending # << >>
  /\ wire' = IF sending[1].type = "STS" THEN wire ELSE wire \o sending
  /\ sending' = << >>
  /\ UNCHANGED <<upstream, count, g_app_queue, application, actuation, g_uart_tx_queue>>

\* protocol_encode_frame accepts every message task_app sends.
TxSend ==
  /\ Priority2
  /\ sending # << >>
  /\ wire' = wire \o sending
  /\ sending' = << >>
  /\ UNCHANGED <<upstream, count, g_app_queue, application, actuation, g_uart_tx_queue>>

-----------------------------------------------------------------------------

AppReady == \/ app = "receive" /\ g_app_queue # << >>
            \/ app = "command" /\ Len(g_actuator_queue) < ActuatorQueueLength
            \/ app = "read counters"
            \/ app = "send" /\ Len(g_uart_tx_queue) < UartTxQueueLength
TxReady        == g_uart_tx_queue # << >> \/ sending # << >>

Idle == running /\ ~RxReady /\ ~ParserReady /\ ~AppReady /\ ~ActuatorsReady /\ ~TxReady

\* The idle task of FreeRTOS.
IdleTask == Idle /\ UNCHANGED vars

Next ==
  \/ StartScheduler \/ usart1_isr
  \/ RxReceive \/ RxSend
  \/ ParserReceive \/ ParserSend
  \/ AppReceive \/ SendCommand \/ ReadCounter \/ SendReply
  \/ ApplyCommand
  \/ TxReceive \/ TxSend
  \/ IdleTask

\* main reaches tasks_start; the scheduler shares a priority in time slices, and
\* a task of the highest ready priority runs.  The line owes nothing.
Fairness ==
  /\ WF_vars(StartScheduler)
  /\ WF_vars(RxReceive \/ RxSend)
  /\ WF_vars(ParserReceive \/ ParserSend)
  /\ WF_vars(AppReceive \/ SendCommand \/ ReadCounter \/ SendReply)
  /\ WF_vars(ApplyCommand)
  /\ WF_vars(TxReceive \/ TxSend)

Spec == Init /\ [][Next]_vars /\ Fairness

-----------------------------------------------------------------------------
(* Properties. *)

CountersOK == running \in BOOLEAN /\ count \in [Counter -> Nat]
ReceptionOK ==
  /\ g_uart_rx_isr_queue \in 0..UartRxIsrQueueLength
  /\ rx_byte \in {0, 1}
  /\ g_parser_input_queue \in 0..ParserInputQueueLength
  /\ early \in Nat
ParsingOK ==
  /\ parsed \in Seq(Request) /\ Len(parsed) <= 1
  /\ accepted \in Seq(Request)
AppQueueOK ==
  g_app_queue \in Seq(Request) /\ Len(g_app_queue) <= AppMessageQueueLength
ApplicationOK ==
  /\ app \in {"receive", "command", "read counters", "send"}
  /\ command \in {""} \union Action /\ (app = "command" => command \in Action)
  /\ reply \in Answer
  /\ unread \subseteq Counter
ActuationOK ==
  /\ g_actuator_queue \in Seq(Action) /\ Len(g_actuator_queue) <= ActuatorQueueLength
  /\ pc13 \in {0, 1} /\ moved \in Nat
TransmissionOK ==
  /\ g_uart_tx_queue \in Seq(Answer) /\ Len(g_uart_tx_queue) <= UartTxQueueLength
  /\ sending \in Seq(Answer) /\ Len(sending) <= 1
  /\ wire \in Seq(Answer)

\* The queues stay within the lengths they were created with, and what is in
\* them is what their readers expect.
TypeOK == /\ CountersOK /\ ReceptionOK /\ ParsingOK /\ AppQueueOK
          /\ ApplicationOK /\ ActuationOK /\ TransmissionOK

\* Every byte the interrupt counted is accounted for: dropped and counted in
\* qd, forgotten before there was a queue, in a queue, in the hands of
\* task_uart_rx, or parsed.
BytesAreAccountedFor ==
  count.irq = early + count.qd + g_uart_rx_isr_queue + rx_byte
                + g_parser_input_queue + count.pb

\* Between the parser and the application no message is lost, repeated or
\* overtaken, however long either of them waits.
MessagesKeepTheirOrder ==
  SubSeq(accepted, count.rx + 1, Len(accepted)) = g_app_queue \o parsed

\* The answers given so far, those on their way to the line included.
Answers == wire \o sending \o g_uart_tx_queue
             \o (IF app = "send" THEN <<reply>> ELSE << >>)

Service == INSTANCE Board WITH
  requests <- accepted,
  answers  <- [k \in DOMAIN wire |-> <<wire[k].type, wire[k].payload>>],
  led      <- IF pc13 = 0 THEN "on" ELSE "off"

\* The k-th answer is the answer to the k-th message the parser delivered.
AnswersMatchRequests ==
  /\ Len(Answers) = count.rx - (IF app \in {"command", "read counters"} THEN 1 ELSE 0)
  /\ \A k \in DOMAIN Answers :
       <<Answers[k].type, Answers[k].payload>> = Service!AnswerTo(accepted[k])

\* "cmd=ok" is never given for a command that task_actuators was not handed.
AckNeverPrecedesCommand ==
  Cardinality({k \in DOMAIN Answers : Answers[k].payload = "cmd=ok"})
    <= moved + Len(g_actuator_queue)

\* The counters of a report are read one at a time while the tasks that write
\* them go on, and still: rx numbers the request it answers, ae the errors
\* answered before it, pm covers the messages counted in rx, and no counter
\* ever goes back from one report to a later one.
ReportsAreCoherent ==
  \A k \in DOMAIN Answers : Answers[k].type = "STS" =>
    /\ Answers[k].counts.rx = k
    /\ Answers[k].counts.ae =
         Cardinality({j \in 1 .. k - 1 : Answers[j].type = "ERR"})
    /\ Answers[k].counts.rx <= Answers[k].counts.pm
    /\ \A j \in 1 .. k - 1 : Answers[j].type = "STS" =>
         \A c \in Counter : Answers[j].counts[c] <= Answers[k].counts[c]

\* The tasks never wait for one another in a circle: when none can run, there
\* is nothing left to do.
IdleMeansDrained ==
  Idle => /\ g_uart_rx_isr_queue + rx_byte + g_parser_input_queue = 0
          /\ parsed = << >> /\ g_app_queue = << >> /\ app = "receive"

\* With a byte time long enough to move one byte, reception loses a byte only
\* after the whole chain behind it has filled up: the parser holds a message
\* the application has no room for, and both byte queues are full.
LossNeedsAStalledApplication ==
  [][count'.qd > count.qd =>
       /\ g_uart_rx_isr_queue = UartRxIsrQueueLength
       /\ rx_byte = 1 /\ g_parser_input_queue = ParserInputQueueLength
       /\ parsed # << >> /\ Len(g_app_queue) = AppMessageQueueLength]_vars

\* Once the line is quiet, every message the parser delivered is answered.
RequestsAreAnswered ==
  \A n \in 1..MaxBytes : Len(accepted) >= n ~> Len(wire) >= n

\* The firmware provides the service of Board.
ServiceIsProvided == Service!Spec

\* docs/FRAME_GENERATION_AND_PARSING.md, 801: the application does not block the
\* reception of bytes.
ReceptionNeverBlockedByApp ==
  ~(/\ rx_byte = 1 /\ g_parser_input_queue = ParserInputQueueLength
    /\ parsed # << >> /\ Len(g_app_queue) = AppMessageQueueLength)
=============================================================================
