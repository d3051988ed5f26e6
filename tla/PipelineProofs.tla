--------------------------- MODULE PipelineProofs ---------------------------
(***************************************************************************)
(* Proofs about the pipeline of tasks, for all queue lengths, any set of   *)
(* requests and any number of bytes: what the queues keep, and then that   *)
(* the pipeline provides the service of Board and that what it             *)
(* acknowledges and reports is true.                                       *)
(***************************************************************************)
EXTENDS Pipeline, SequenceTheorems, FiniteSetTheorems, TLAPS

\* The queue lengths, as the proofs use them.
LEMMA Lengths ==
  /\ UartRxIsrQueueLength \in Nat /\ UartRxIsrQueueLength >= 1
  /\ ParserInputQueueLength \in Nat /\ ParserInputQueueLength >= 1
  /\ AppMessageQueueLength \in Nat /\ AppMessageQueueLength >= 1
  /\ UartTxQueueLength \in Nat /\ UartTxQueueLength >= 1
  /\ ActuatorQueueLength \in Nat /\ ActuatorQueueLength >= 1
BY QueueLengths

\* An empty queue is a queue, of any length.
LEMMA EmptyQueue ==
  ASSUME NEW S, NEW n \in Nat
  PROVE  << >> \in Seq(S) /\ Len(<< >>) <= n
BY EmptySeq

\* Counting keeps the counters natural numbers.
LEMMA Counting ==
  ASSUME count \in [Counter -> Nat], NEW c \in Counter, NEW d \in Counter
  PROVE  /\ [count EXCEPT ![c] = @ + 1] \in [Counter -> Nat]
         /\ [count EXCEPT ![c] = @ + 1, ![d] = @ + 1] \in [Counter -> Nat]
OBVIOUS

\* The counters are these.
LEMMA Names == {"rx", "ae", "irq", "pb", "pm", "pe", "qd"} \subseteq Counter
BY DEF Counter

\* A reply of the application is an answer that has no counters yet.
LEMMA ReplyIsAnswer ==
  \A type \in ReplyType, payload \in ReplyText : Reply(type, payload) \in Answer
<1>1. NoCounts \in [Counter -> Nat]
  BY DEF NoCounts
<1> QED BY <1>1 DEF Reply, Answer

\* The replies whose text does not depend on the message.
LEMMA FixedReplies ==
  /\ Reply("INVALID", "") \in Answer
  /\ Reply("ACK", "cmd=ok") \in Answer
  /\ Reply("STS", "counters") \in Answer
BY ReplyIsAnswer DEF ReplyType, ReplyText

LEMMA InitTypeOK == Init => TypeOK
<1> SUFFICES ASSUME Init PROVE TypeOK
  OBVIOUS
<1>1. CountersOK
  <2>1. running = FALSE /\ count = [c \in Counter |-> 0]
    BY DEF Init, NoCounts
  <2> QED BY <2>1 DEF CountersOK
<1>2. ReceptionOK
  <2>1. g_uart_rx_isr_queue = 0 /\ rx_byte = 0 /\ g_parser_input_queue = 0 /\ early = 0
    BY DEF Init
  <2> QED BY <2>1, Lengths DEF ReceptionOK
<1>3. ParsingOK /\ AppQueueOK
  <2>1. parsed = << >> /\ accepted = << >> /\ g_app_queue = << >>
    BY DEF Init
  <2> QED BY <2>1, EmptyQueue, Lengths DEF ParsingOK, AppQueueOK
<1>4. ApplicationOK
  <2>1. app = "receive" /\ command = "" /\ reply = Reply("INVALID", "") /\ unread = {}
    BY DEF Init, NoReply
  <2>2. Reply("INVALID", "") \in Answer
    BY FixedReplies, Zenon
  <2>3. reply \in Answer
    BY <2>1, <2>2, Zenon
  <2>4. /\ app \in {"receive", "command", "read counters", "send"}
        /\ command \in {""} \union Action /\ (app = "command" => command \in Action)
        /\ unread \subseteq Counter
    BY <2>1
  <2> QED BY <2>3, <2>4, Zenon DEF ApplicationOK
<1>5. ActuationOK
  <2>1. g_actuator_queue = << >> /\ pc13 = 1 /\ moved = 0
    BY DEF Init
  <2> QED BY <2>1, EmptyQueue, Lengths DEF ActuationOK
<1>6. TransmissionOK
  <2>1. g_uart_tx_queue = << >> /\ sending = << >> /\ wire = << >>
    BY DEF Init
  <2> QED BY <2>1, EmptyQueue, Lengths DEF TransmissionOK
<1> QED BY <1>1, <1>2, <1>3, <1>4, <1>5, <1>6 DEF TypeOK

-----------------------------------------------------------------------------
(* Each part of TypeOK, over the actions that can disturb it. *)

LEMMA CountersKept ==
  ASSUME CountersOK, [Next]_vars
  PROVE  CountersOK'
<1> USE DEF CountersOK
<1>1. CASE StartScheduler
  BY <1>1 DEF StartScheduler
<1>2. CASE usart1_isr
  <2>1. running' = running
    BY <1>2 DEF usart1_isr
  <2>2. \/ count' = [count EXCEPT !["irq"] = @ + 1]
        \/ count' = [count EXCEPT !["irq"] = @ + 1, !["qd"] = @ + 1]
    BY <1>2 DEF usart1_isr, Increment
  <2> QED BY <2>1, <2>2, Counting, Names
<1>3. CASE ParserReceive
  <2>1. running' = running
    BY <1>3 DEF ParserReceive
  <2>2. \/ count' = [count EXCEPT !["pb"] = @ + 1]
        \/ count' = [count EXCEPT !["pb"] = @ + 1, !["pe"] = @ + 1]
        \/ count' = [count EXCEPT !["pb"] = @ + 1, !["pm"] = @ + 1]
    BY <1>3 DEF ParserReceive, Increment
  <2> QED BY <2>1, <2>2, Counting, Names
<1>4. CASE AppReceive
  <2>1. running' = running /\ count' = [count EXCEPT !["rx"] = @ + 1]
    BY <1>4 DEF AppReceive, Increment, upstream
  <2> QED BY <2>1, Counting, Names
<1>5. CASE SendReply
  <2>1. /\ running' = running
        /\ count' = count \/ count' = [count EXCEPT !["ae"] = @ + 1]
    BY <1>5 DEF SendReply, Increment, upstream
  <2> QED BY <2>1, Counting, Names
<1>6. CASE RxReceive \/ RxSend \/ ParserSend
  BY <1>6 DEF RxReceive, RxSend, ParserSend
<1>7. CASE SendCommand \/ ReadCounter \/ ApplyCommand \/ TxReceive \/ TxSend
  BY <1>7 DEF SendCommand, ReadCounter, ApplyCommand, TxReceive, TxSend, upstream
<1>8. CASE IdleTask \/ UNCHANGED vars
  BY <1>8 DEF IdleTask, vars, upstream
<1> QED BY <1>1, <1>2, <1>3, <1>4, <1>5, <1>6, <1>7, <1>8 DEF Next

LEMMA ReceptionKept ==
  ASSUME ReceptionOK, [Next]_vars
  PROVE  ReceptionOK'
<1> USE Lengths DEF ReceptionOK
<1>1. CASE usart1_isr
  BY <1>1 DEF usart1_isr
<1>2. CASE RxReceive
  BY <1>2 DEF RxReceive
<1>3. CASE RxSend
  BY <1>3 DEF RxSend
<1>4. CASE ParserReceive
  BY <1>4 DEF ParserReceive
<1>5. CASE StartScheduler \/ ParserSend
  BY <1>5 DEF StartScheduler, ParserSend, reception
<1>6. CASE \/ AppReceive \/ SendCommand \/ ReadCounter \/ SendReply
           \/ ApplyCommand \/ TxReceive \/ TxSend
  BY <1>6 DEF AppReceive, SendCommand, ReadCounter, SendReply, ApplyCommand,
              TxReceive, TxSend, upstream, reception
<1>7. CASE IdleTask \/ UNCHANGED vars
  BY <1>7 DEF IdleTask, vars, upstream, reception
<1> QED BY <1>1, <1>2, <1>3, <1>4, <1>5, <1>6, <1>7 DEF Next

LEMMA ParsingKept ==
  ASSUME ParsingOK, [Next]_vars
  PROVE  ParsingOK'
<1> USE DEF ParsingOK
<1>1. CASE ParserReceive
  <2>1. \/ parsed' = parsed /\ accepted' = accepted
        \/ \E m \in Request : parsed' = <<m>> /\ accepted' = Append(accepted, m)
    BY <1>1 DEF ParserReceive
  <2>2. ASSUME NEW m \in Request, parsed' = <<m>>, accepted' = Append(accepted, m)
        PROVE  ParsingOK'
    <3>1. <<m>> \in Seq(Request) /\ Len(<<m>>) <= 1
      OBVIOUS
    <3>2. Append(accepted, m) \in Seq(Request)
      BY AppendProperties
    <3> QED BY <2>2, <3>1, <3>2
  <2> QED BY <2>1, <2>2
<1>2. CASE ParserSend
  BY <1>2 DEF ParserSend
<1>3. CASE StartScheduler \/ usart1_isr \/ RxReceive \/ RxSend
  BY <1>3 DEF StartScheduler, usart1_isr, RxReceive, RxSend, parsing
<1>4. CASE \/ AppReceive \/ SendCommand \/ ReadCounter \/ SendReply
           \/ ApplyCommand \/ TxReceive \/ TxSend
  BY <1>4 DEF AppReceive, SendCommand, ReadCounter, SendReply, ApplyCommand,
              TxReceive, TxSend, upstream, parsing
<1>5. CASE IdleTask \/ UNCHANGED vars
  BY <1>5 DEF IdleTask, vars, upstream, parsing
<1> QED BY <1>1, <1>2, <1>3, <1>4, <1>5 DEF Next

LEMMA AppQueueKept ==
  ASSUME AppQueueOK, ParsingOK, [Next]_vars
  PROVE  AppQueueOK'
<1> USE DEF AppQueueOK
<1>1. CASE ParserSend
  <2>1. /\ g_app_queue' = g_app_queue \o parsed
        /\ Len(g_app_queue) < AppMessageQueueLength
    BY <1>1 DEF ParserSend
  <2>2. /\ g_app_queue' \in Seq(Request)
        /\ Len(g_app_queue') = Len(g_app_queue) + Len(parsed)
    BY <2>1, ConcatProperties DEF ParsingOK
  <2> QED BY <2>1, <2>2, Lengths DEF ParsingOK
<1>2. CASE AppReceive
  <2>1. g_app_queue' = Tail(g_app_queue) /\ g_app_queue # << >>
    BY <1>2 DEF AppReceive
  <2>2. g_app_queue' \in Seq(Request) /\ Len(g_app_queue') = Len(g_app_queue) - 1
    BY <2>1, HeadTailProperties
  <2> QED BY <2>2, Lengths
<1>3. CASE StartScheduler \/ usart1_isr \/ RxReceive \/ RxSend \/ ParserReceive
  BY <1>3 DEF StartScheduler, usart1_isr, RxReceive, RxSend, ParserReceive
<1>4. CASE SendCommand \/ ReadCounter \/ SendReply \/ ApplyCommand \/ TxReceive \/ TxSend
  BY <1>4 DEF SendCommand, ReadCounter, SendReply, ApplyCommand, TxReceive, TxSend
<1>5. CASE IdleTask \/ UNCHANGED vars
  BY <1>5 DEF IdleTask, vars
<1> QED BY <1>1, <1>2, <1>3, <1>4, <1>5 DEF Next

LEMMA ActuationKept ==
  ASSUME ActuationOK, ApplicationOK, [Next]_vars
  PROVE  ActuationOK'
<1> USE DEF ActuationOK
<1>1. CASE SendCommand
  <2>1. /\ g_actuator_queue' = Append(g_actuator_queue, command)
        /\ Len(g_actuator_queue) < ActuatorQueueLength
        /\ pc13' = pc13 /\ moved' = moved /\ command \in Action
    BY <1>1 DEF SendCommand, ApplicationOK
  <2>2. /\ g_actuator_queue' \in Seq(Action)
        /\ Len(g_actuator_queue') = Len(g_actuator_queue) + 1
    BY <2>1, AppendProperties
  <2> QED BY <2>1, <2>2, Lengths
<1>2. CASE ApplyCommand
  <2>1. /\ g_actuator_queue' = Tail(g_actuator_queue) /\ g_actuator_queue # << >>
        /\ actuators_apply_command(Head(g_actuator_queue)) /\ moved' = moved + 1
    BY <1>2 DEF ApplyCommand, ActuatorsReady
  <2>2. /\ g_actuator_queue' \in Seq(Action) /\ Head(g_actuator_queue) \in Action
        /\ Len(g_actuator_queue') = Len(g_actuator_queue) - 1
    BY <2>1, HeadTailProperties
  <2>3. pc13' \in {0, 1}
    BY <2>1, <2>2 DEF actuators_apply_command, Action
  <2> QED BY <2>1, <2>2, <2>3, Lengths
<1>3. CASE \/ StartScheduler \/ usart1_isr \/ RxReceive \/ RxSend
           \/ ParserReceive \/ ParserSend
  BY <1>3 DEF StartScheduler, usart1_isr, RxReceive, RxSend, ParserReceive,
              ParserSend, downstream, actuation
<1>4. CASE AppReceive \/ ReadCounter \/ SendReply \/ TxReceive \/ TxSend
  BY <1>4 DEF AppReceive, ReadCounter, SendReply, TxReceive, TxSend, actuation
<1>5. CASE IdleTask \/ UNCHANGED vars
  BY <1>5 DEF IdleTask, vars, downstream, actuation
<1> QED BY <1>1, <1>2, <1>3, <1>4, <1>5 DEF Next

\* The way from task_app to the line, for messages of any kind.
TransmissionOf(S) ==
  /\ g_uart_tx_queue \in Seq(S) /\ Len(g_uart_tx_queue) <= UartTxQueueLength
  /\ sending \in Seq(S) /\ Len(sending) <= 1
  /\ wire \in Seq(S)

LEMMA TransmissionOfKept ==
  ASSUME NEW S, Answer \subseteq S, TransmissionOf(S), ApplicationOK, [Next]_vars
  PROVE  TransmissionOf(S)'
<1> USE DEF TransmissionOf
<1>1. CASE SendReply
  <2>1. /\ g_uart_tx_queue' = Append(g_uart_tx_queue, reply)
        /\ Len(g_uart_tx_queue) < UartTxQueueLength
        /\ sending' = sending /\ wire' = wire /\ reply \in S
    BY <1>1 DEF SendReply, ApplicationOK
  <2>2. /\ g_uart_tx_queue' \in Seq(S)
        /\ Len(g_uart_tx_queue') = Len(g_uart_tx_queue) + 1
    BY <2>1, AppendProperties
  <2> QED BY <2>1, <2>2, Lengths
<1>2. CASE TxReceive
  <2>1. /\ g_uart_tx_queue' = Tail(g_uart_tx_queue) /\ g_uart_tx_queue # << >>
        /\ sending' = <<Head(g_uart_tx_queue)>> /\ wire' = wire
    BY <1>2 DEF TxReceive
  <2>2. /\ g_uart_tx_queue' \in Seq(S) /\ Head(g_uart_tx_queue) \in S
        /\ Len(g_uart_tx_queue') = Len(g_uart_tx_queue) - 1
    BY <2>1, HeadTailProperties
  <2>3. sending' \in Seq(S) /\ Len(sending') <= 1
    BY <2>1, <2>2
  <2> QED BY <2>1, <2>2, <2>3, Lengths
<1>3. CASE TxSend
  <2>1. g_uart_tx_queue' = g_uart_tx_queue /\ sending' = << >> /\ wire' = wire \o sending
    BY <1>3 DEF TxSend
  <2>2. wire' \in Seq(S)
    BY <2>1, ConcatProperties
  <2>3. sending' \in Seq(S) /\ Len(sending') <= 1
    BY <2>1, EmptyQueue
  <2> QED BY <2>1, <2>2, <2>3
<1>4. CASE \/ StartScheduler \/ usart1_isr \/ RxReceive \/ RxSend
           \/ ParserReceive \/ ParserSend
  BY <1>4 DEF StartScheduler, usart1_isr, RxReceive, RxSend, ParserReceive,
              ParserSend, downstream, transmission
<1>5. CASE AppReceive \/ ReadCounter \/ SendCommand \/ ApplyCommand
  BY <1>5 DEF AppReceive, ReadCounter, SendCommand, ApplyCommand, transmission
<1>6. CASE IdleTask \/ UNCHANGED vars
  BY <1>6 DEF IdleTask, vars, downstream, transmission
<1> QED BY <1>1, <1>2, <1>3, <1>4, <1>5, <1>6 DEF Next

LEMMA TransmissionKept ==
  ASSUME TransmissionOK, ApplicationOK, [Next]_vars
  PROVE  TransmissionOK'
<1>1. TransmissionOf(Answer)
  BY DEF TransmissionOf, TransmissionOK
<1>2. TransmissionOf(Answer)'
  BY <1>1, TransmissionOfKept
<1> QED BY <1>2 DEF TransmissionOf, TransmissionOK

\* task_app starts on a message: what it does next and what it holds.
LEMMA HandlingKept ==
  ASSUME ApplicationOK, CountersOK, NEW message \in Request,
         app_handle_message(message)
  PROVE  ApplicationOK'
<1> DEFINE action == build_led_command(message.payload)
<1>1. action \in {""} \union Action
  BY DEF build_led_command, Action
<1>2. ASSUME NEW type \in ReplyType, NEW payload \in ReplyText,
             send_simple_message(type, payload)
      PROVE  ApplicationOK'
  <2>1. Reply(type, payload) \in Answer
    BY <1>2, ReplyIsAnswer, Zenon
  <2>2. app' = "send" /\ reply' = Reply(type, payload) /\ command' = command /\ unread' = unread
    BY <1>2 DEF send_simple_message
  <2>3. reply' \in Answer
    BY <2>1, <2>2, Zenon
  <2> QED BY <2>2, <2>3 DEF ApplicationOK
<1>3. ASSUME action # "", app' = "command", command' = action,
             UNCHANGED <<reply, unread>>
      PROVE  ApplicationOK'
  <2> HIDE DEF action
  <2> QED BY <1>1, <1>3 DEF ApplicationOK
<1>4. ASSUME app_build_status_message
      PROVE  ApplicationOK'
  <2>1. Reply("STS", "counters") \in Answer
    BY FixedReplies, Zenon
  <2>2. /\ app' = "read counters" /\ command' = command
        /\ unread' = Counter \ {"rx", "ae"}
    BY <1>4 DEF app_build_status_message
  <2>3. reply' \in Answer
    <3>1. count.rx + 1 \in Nat /\ count.ae \in Nat
      BY Names DEF CountersOK
    <3>2. PICK r : r = Reply("STS", "counters")
      OBVIOUS
    <3>3. reply' = [r EXCEPT !.counts["rx"] = count.rx + 1, !.counts["ae"] = count.ae]
      BY <1>4, <3>2 DEF app_build_status_message
    <3>4. r \in [type : ReplyType, payload : ReplyText, counts : [Counter -> Nat]]
      BY <2>1, <3>2 DEF Answer
    <3> QED BY <3>1, <3>3, <3>4 DEF Answer
  <2> QED BY <2>2, <2>3 DEF ApplicationOK
<1>5. \/ \E type \in ReplyType, payload \in ReplyText : send_simple_message(type, payload)
      \/ action # "" /\ app' = "command" /\ command' = action /\ UNCHANGED <<reply, unread>>
      \/ app_build_status_message
  <2> HIDE DEF action
  <2>1. CASE message.type # "CMD" /\ send_simple_message("ERR", "code=unexpected_type")
    BY <2>1 DEF ReplyType, ReplyText
  <2>2. CASE message.payload = "ping" /\ send_simple_message("ACK", "pong=1")
    BY <2>2 DEF ReplyType, ReplyText
  <2>3. CASE send_simple_message("ERR", "code=unknown_cmd")
    BY <2>3 DEF ReplyType, ReplyText
  <2> QED BY <2>1, <2>2, <2>3 DEF app_handle_message, action
<1> HIDE DEF action
<1> QED BY <1>2, <1>3, <1>4, <1>5

LEMMA ApplicationKept ==
  ASSUME ApplicationOK, AppQueueOK, CountersOK, [Next]_vars
  PROVE  ApplicationOK'
<1>1. CASE AppReceive
  <2>1. /\ g_app_queue # << >> /\ app_handle_message(Head(g_app_queue))
    BY <1>1 DEF AppReceive
  <2>2. Head(g_app_queue) \in Request
    BY <2>1, HeadTailProperties DEF AppQueueOK
  <2> QED BY <2>1, <2>2, HandlingKept
<1>2. CASE SendCommand
  <2>1. app' = "send" /\ command' = "" /\ unread' = unread /\ reply' = Reply("ACK", "cmd=ok")
    BY <1>2 DEF SendCommand
  <2>2. Reply("ACK", "cmd=ok") \in Answer
    BY FixedReplies, Zenon
  <2>3. reply' \in Answer
    BY <2>1, <2>2, Zenon
  <2> QED BY <2>1, <2>3 DEF ApplicationOK
<1>3. CASE ReadCounter
  <2>1. PICK c \in unread : /\ reply' = [reply EXCEPT !.counts[c] = count[c]]
                            /\ unread' = unread \ {c}
    BY <1>3 DEF ReadCounter
  <2>2. reply' \in Answer
    <3>1. c \in Counter /\ count[c] \in Nat
      BY DEF ApplicationOK, CountersOK
    <3>2. reply \in [type : ReplyType, payload : ReplyText, counts : [Counter -> Nat]]
      BY DEF ApplicationOK, Answer
    <3> QED BY <2>1, <3>1, <3>2 DEF Answer
  <2>3. command' = command /\ app' \in {"send", app} /\ app = "read counters"
    BY <1>3 DEF ReadCounter
  <2> QED BY <2>1, <2>2, <2>3 DEF ApplicationOK
<1>4. CASE SendReply
  <2>1. app' = "receive" /\ reply' = Reply("INVALID", "") /\ command' = command /\ unread' = unread
    BY <1>4 DEF SendReply, NoReply
  <2>2. Reply("INVALID", "") \in Answer
    BY FixedReplies, Zenon
  <2>3. reply' \in Answer
    BY <2>1, <2>2, Zenon
  <2> QED BY <2>1, <2>3 DEF ApplicationOK
<1>5. CASE \/ StartScheduler \/ usart1_isr \/ RxReceive \/ RxSend
           \/ ParserReceive \/ ParserSend
  BY <1>5 DEF StartScheduler, usart1_isr, RxReceive, RxSend, ParserReceive,
              ParserSend, downstream, application, ApplicationOK
<1>6. CASE ApplyCommand \/ TxReceive \/ TxSend
  BY <1>6 DEF ApplyCommand, TxReceive, TxSend, application, ApplicationOK
<1>7. CASE IdleTask \/ UNCHANGED vars
  BY <1>7 DEF IdleTask, vars, downstream, application, ApplicationOK
<1> QED BY <1>1, <1>2, <1>3, <1>4, <1>5, <1>6, <1>7 DEF Next

-----------------------------------------------------------------------------

\* All of TypeOK but the way from task_app to the line.
StoresOK == CountersOK /\ ReceptionOK /\ ParsingOK /\ AppQueueOK /\ ApplicationOK /\ ActuationOK

LEMMA StoresKept == StoresOK /\ [Next]_vars => StoresOK'
BY CountersKept, ReceptionKept, ParsingKept, AppQueueKept, ApplicationKept,
   ActuationKept DEF StoresOK

LEMMA TypeMeansStores == TypeOK => StoresOK
BY DEF TypeOK, StoresOK

LEMMA NextTypeOK == TypeOK /\ [Next]_vars => TypeOK'
BY CountersKept, ReceptionKept, ParsingKept, AppQueueKept, ApplicationKept,
   ActuationKept, TransmissionKept DEF TypeOK

\* The queues never hold more than they were created for, and every task finds
\* in its queue what it expects.
THEOREM TypeCorrect == Spec => []TypeOK
BY InitTypeOK, NextTypeOK, PTL DEF Spec

\* No byte the interrupt took disappears unaccounted for.
THEOREM BytesConserved == Spec => []BytesAreAccountedFor
<1>1. Init => BytesAreAccountedFor
  <2> SUFFICES ASSUME Init PROVE BytesAreAccountedFor
    OBVIOUS
  <2>1. /\ g_uart_rx_isr_queue = 0 /\ rx_byte = 0 /\ g_parser_input_queue = 0 /\ early = 0
        /\ count = [c \in Counter |-> 0]
    BY DEF Init, NoCounts
  <2>2. count.irq = 0 /\ count.qd = 0 /\ count.pb = 0
    BY <2>1, Names
  <2> QED BY <2>1, <2>2 DEF BytesAreAccountedFor
<1>2. TypeOK /\ BytesAreAccountedFor /\ [Next]_vars => BytesAreAccountedFor'
  <2> SUFFICES ASSUME TypeOK, BytesAreAccountedFor, [Next]_vars
               PROVE  BytesAreAccountedFor'
    OBVIOUS
  <2>0. /\ count \in [Counter -> Nat] /\ early \in Nat /\ rx_byte \in Nat
        /\ g_uart_rx_isr_queue \in Nat /\ g_parser_input_queue \in Nat
        /\ count.irq \in Nat /\ count.qd \in Nat /\ count.pb \in Nat
    BY Lengths, Names DEF TypeOK, CountersOK, ReceptionOK
  <2>1. CASE usart1_isr
    <3>1. /\ rx_byte' = rx_byte /\ g_parser_input_queue' = g_parser_input_queue
          /\ \/ /\ count' = [count EXCEPT !["irq"] = @ + 1]
                /\ \/ early' = early + 1 /\ g_uart_rx_isr_queue' = g_uart_rx_isr_queue
                   \/ early' = early /\ g_uart_rx_isr_queue' = g_uart_rx_isr_queue + 1
             \/ /\ count' = [count EXCEPT !["irq"] = @ + 1, !["qd"] = @ + 1]
                /\ early' = early /\ g_uart_rx_isr_queue' = g_uart_rx_isr_queue
      BY <2>1 DEF usart1_isr, Increment
    <3> QED BY <2>0, <3>1, Names DEF BytesAreAccountedFor
  <2>2. CASE RxReceive
    BY <2>0, <2>2 DEF RxReceive, BytesAreAccountedFor
  <2>3. CASE RxSend
    BY <2>0, <2>3 DEF RxSend, BytesAreAccountedFor
  <2>4. CASE ParserReceive
    <3>1. /\ UNCHANGED <<g_uart_rx_isr_queue, rx_byte, early>>
          /\ g_parser_input_queue' = g_parser_input_queue - 1
          /\ \/ count' = [count EXCEPT !["pb"] = @ + 1]
             \/ count' = [count EXCEPT !["pb"] = @ + 1, !["pe"] = @ + 1]
             \/ count' = [count EXCEPT !["pb"] = @ + 1, !["pm"] = @ + 1]
      BY <2>4 DEF ParserReceive, Increment
    <3> QED BY <2>0, <3>1, Names DEF BytesAreAccountedFor
  <2>5. CASE StartScheduler \/ ParserSend
    BY <2>5 DEF StartScheduler, ParserSend, reception, BytesAreAccountedFor
  <2>6. CASE AppReceive \/ SendReply
    <3>1. /\ UNCHANGED <<g_uart_rx_isr_queue, rx_byte, g_parser_input_queue, early>>
          /\ \/ count' = count
             \/ count' = [count EXCEPT !["rx"] = @ + 1]
             \/ count' = [count EXCEPT !["ae"] = @ + 1]
      BY <2>6 DEF AppReceive, SendReply, Increment, upstream, reception
    <3> QED BY <2>0, <3>1, Names DEF BytesAreAccountedFor
  <2>7. CASE SendCommand \/ ReadCounter \/ ApplyCommand \/ TxReceive \/ TxSend
    BY <2>7 DEF SendCommand, ReadCounter, ApplyCommand, TxReceive, TxSend,
                upstream, reception, BytesAreAccountedFor
  <2>8. CASE IdleTask \/ UNCHANGED vars
    BY <2>8 DEF IdleTask, vars, upstream, reception, BytesAreAccountedFor
  <2> QED BY <2>1, <2>2, <2>3, <2>4, <2>5, <2>6, <2>7, <2>8 DEF Next
<1> QED BY <1>1, <1>2, TypeCorrect, PTL DEF Spec

-----------------------------------------------------------------------------
(* The order of the messages.  The equation alone is not inductive: a       *)
(* message the parser accepts joins the right-hand side, and it joins the   *)
(* left-hand side only if task_app has not counted more messages than there *)
(* are.                                                                     *)

OrderKept == count.rx <= Len(accepted) /\ MessagesKeepTheirOrder

\* What is left of a sequence after its first k elements.
LEMMA Rest ==
  ASSUME NEW S, NEW s \in Seq(S), NEW k \in Nat, k <= Len(s)
  PROVE  /\ SubSeq(s, k + 1, Len(s)) \in Seq(S)
         /\ Len(SubSeq(s, k + 1, Len(s))) = Len(s) - k
<1>0. Len(s) \in Nat
  BY LenProperties
<1>1. \A i \in k + 1 .. Len(s) : s[i] \in S
  BY <1>0, ElementOfSeq
<1>2. /\ SubSeq(s, k + 1, Len(s)) \in Seq(S)
      /\ Len(SubSeq(s, k + 1, Len(s)))
           = IF k + 1 <= Len(s) THEN Len(s) - (k + 1) + 1 ELSE 0
  BY <1>0, <1>1, SubSeqProperties
<1> QED BY <1>0, <1>2

\* It grows with the sequence.
LEMMA RestGrows ==
  ASSUME NEW S, NEW s \in Seq(S), NEW k \in Nat, k <= Len(s), NEW e \in S
  PROVE  SubSeq(Append(s, e), k + 1, Len(Append(s, e))) = Append(SubSeq(s, k + 1, Len(s)), e)
<1> DEFINE t    == Append(s, e)
           rest == SubSeq(s, k + 1, Len(s))
<1>0. Len(s) \in Nat
  BY LenProperties
<1>1. t \in Seq(S) /\ Len(t) = Len(s) + 1 /\ t[Len(s) + 1] = e
      /\ \A i \in 1 .. Len(s) : t[i] = s[i]
  BY AppendProperties
<1>2. rest \in Seq(S)
  BY Rest
<1>3. Append(rest, e) = rest \o <<e>>
  BY <1>2, AppendIsConcat
<1> HIDE DEF t
<1>4. SubSeq(t, k + 1, Len(t)) = SubSeq(t, k + 1, Len(t) - 1) \o << t[Len(t)] >>
  <2>1. k + 1 \in 1 .. Len(t) /\ Len(t) \in k + 1 .. Len(t)
    BY <1>0, <1>1
  <2> QED BY <1>1, <2>1, SubSeqRecursiveSecond
<1>5. SubSeq(t, k + 1, Len(t) - 1) = rest
  <2>1. \A i \in k + 1 .. Len(s) : t[i] = s[i]
    BY <1>0, <1>1
  <2> QED BY <1>0, <1>1, <2>1
<1> HIDE DEF rest
<1>6. t[Len(t)] = e
  BY <1>1
<1>7. SubSeq(t, k + 1, Len(t)) = Append(rest, e)
  BY <1>3, <1>4, <1>5, <1>6
<1> QED BY <1>7 DEF t, rest

\* When it is not empty it starts with the next element of the sequence.
LEMMA RestShrinks ==
  ASSUME NEW S, NEW s \in Seq(S), NEW k \in Nat, k <= Len(s),
         SubSeq(s, k + 1, Len(s)) # << >>
  PROVE  /\ k < Len(s)
         /\ SubSeq(s, k + 2, Len(s)) = Tail(SubSeq(s, k + 1, Len(s)))
         /\ s[k + 1] = Head(SubSeq(s, k + 1, Len(s)))
<1>0. Len(s) \in Nat
  BY LenProperties
<1>1. k < Len(s)
  BY <1>0, Rest, EmptySeq
<1>2. k + 1 \in 1 .. Len(s) /\ Len(s) \in k + 1 .. Len(s)
  BY <1>0, <1>1
<1>3. /\ Head(SubSeq(s, k + 1, Len(s))) = s[k + 1]
      /\ Tail(SubSeq(s, k + 1, Len(s))) = SubSeq(s, (k + 1) + 1, Len(s))
  BY <1>2, HeadTailOfSubSeq
<1> QED BY <1>0, <1>1, <1>3

LEMMA TailOfConcat ==
  ASSUME NEW S, NEW s \in Seq(S), NEW t \in Seq(S), s # << >>
  PROVE  /\ s \o t # << >>
         /\ Tail(s \o t) = Tail(s) \o t
         /\ Head(s \o t) = Head(s)
<1>1. Len(s) \in Nat /\ Len(t) \in Nat /\ Len(s) >= 1
  BY EmptySeq, LenProperties
<1>2. /\ s \o t \in Seq(S) /\ Len(s \o t) = Len(s) + Len(t)
      /\ \A i \in 1 .. Len(s) + Len(t) :
           (s \o t)[i] = IF i <= Len(s) THEN s[i] ELSE t[i - Len(s)]
  BY ConcatProperties
<1>3. s \o t # << >>
  BY <1>1, <1>2, EmptySeq
<1>4. Tail(s) \in Seq(S) /\ Len(Tail(s)) = Len(s) - 1
      /\ \A i \in 1 .. Len(Tail(s)) : Tail(s)[i] = s[i + 1]
  BY HeadTailProperties
<1>5. Tail(s \o t) \in Seq(S) /\ Len(Tail(s \o t)) = Len(s \o t) - 1
      /\ \A i \in 1 .. Len(Tail(s \o t)) : Tail(s \o t)[i] = (s \o t)[i + 1]
  BY <1>2, <1>3, HeadTailProperties
<1>6. Tail(s) \o t \in Seq(S) /\ Len(Tail(s) \o t) = Len(Tail(s)) + Len(t)
      /\ \A i \in 1 .. Len(Tail(s)) + Len(t) :
           (Tail(s) \o t)[i] = IF i <= Len(Tail(s)) THEN Tail(s)[i] ELSE t[i - Len(Tail(s))]
  BY <1>4, ConcatProperties
<1>7. ASSUME NEW i \in 1 .. Len(Tail(s \o t))
      PROVE  Tail(s \o t)[i] = (Tail(s) \o t)[i]
  <2>1. i + 1 \in 1 .. Len(s) + Len(t) /\ i \in 1 .. Len(Tail(s)) + Len(t)
    BY <1>1, <1>2, <1>4, <1>5
  <2>2. Tail(s \o t)[i] = IF i + 1 <= Len(s) THEN s[i + 1] ELSE t[(i + 1) - Len(s)]
    BY <1>2, <1>5, <2>1
  <2>3. (Tail(s) \o t)[i] = IF i <= Len(Tail(s)) THEN Tail(s)[i] ELSE t[i - Len(Tail(s))]
    BY <1>6, <2>1
  <2>4. CASE i + 1 <= Len(s)
    BY <1>1, <1>4, <2>1, <2>2, <2>3, <2>4
  <2>5. CASE ~(i + 1 <= Len(s))
    <3>1. i - Len(Tail(s)) = (i + 1) - Len(s)
      BY <1>1, <1>4, <2>1
    <3>2. ~(i <= Len(Tail(s)))
      BY <1>1, <1>4, <2>1, <2>5
    <3> QED BY <2>2, <2>3, <2>5, <3>1, <3>2
  <2> QED BY <2>4, <2>5
<1>8. Len(Tail(s \o t)) = Len(Tail(s) \o t)
  BY <1>1, <1>2, <1>4, <1>5, <1>6
<1>9. Tail(s \o t) = Tail(s) \o t
  BY <1>5, <1>6, <1>7, <1>8, SeqEqual
<1>10. Head(s \o t) = Head(s)
  BY <1>1, <1>2
<1> QED BY <1>3, <1>9, <1>10

LEMMA OrderIsKept == StoresOK /\ OrderKept /\ [Next]_vars => OrderKept'
<1> SUFFICES ASSUME StoresOK, OrderKept, [Next]_vars
             PROVE  OrderKept'
  OBVIOUS
<1> DEFINE rest == SubSeq(accepted, count.rx + 1, Len(accepted))
<1>0. /\ count \in [Counter -> Nat] /\ count.rx \in Nat
      /\ accepted \in Seq(Request) /\ Len(accepted) \in Nat
      /\ g_app_queue \in Seq(Request) /\ parsed \in Seq(Request)
      /\ count.rx <= Len(accepted)
      /\ rest = g_app_queue \o parsed
  BY Names, LenProperties DEF StoresOK, CountersOK, ParsingOK, AppQueueOK,
                              OrderKept, MessagesKeepTheirOrder
<1>1. CASE ParserReceive
  <2>1. /\ count'.rx = count.rx /\ g_app_queue' = g_app_queue /\ parsed = << >>
    <3>1. \/ count' = [count EXCEPT !["pb"] = @ + 1]
          \/ count' = [count EXCEPT !["pb"] = @ + 1, !["pe"] = @ + 1]
          \/ count' = [count EXCEPT !["pb"] = @ + 1, !["pm"] = @ + 1]
      BY <1>1 DEF ParserReceive, Increment
    <3>2. count'.rx = count.rx
      BY <1>0, <3>1, Names
    <3> QED BY <1>1, <3>2 DEF ParserReceive
  <2>2. CASE UNCHANGED <<parsed, accepted>>
    BY <2>1, <2>2 DEF OrderKept, MessagesKeepTheirOrder
  <2>3. ASSUME NEW m \in Request, parsed' = <<m>>, accepted' = Append(accepted, m)
        PROVE  OrderKept'
    <3>1. SubSeq(accepted', count.rx + 1, Len(accepted')) = Append(rest, m)
      <4>1. SubSeq(Append(accepted, m), count.rx + 1, Len(Append(accepted, m)))
              = Append(rest, m)
        BY <1>0, RestGrows
      <4> HIDE DEF rest
      <4> QED BY <2>3, <4>1
    <3>2. rest = g_app_queue
      BY <1>0, <2>1, ConcatEmptySeq
    <3>3. Append(g_app_queue, m) = g_app_queue \o <<m>>
      BY <1>0, AppendIsConcat
    <3>4. Len(accepted') = Len(accepted) + 1
      BY <1>0, <2>3, AppendProperties
    <3> HIDE DEF rest
    <3>5. SubSeq(accepted', count'.rx + 1, Len(accepted')) = g_app_queue' \o parsed'
      BY <2>1, <2>3, <3>1, <3>2, <3>3
    <3>6. count'.rx <= Len(accepted')
      BY <1>0, <2>1, <3>4
    <3> QED BY <3>5, <3>6 DEF OrderKept, MessagesKeepTheirOrder
  <2>4. \/ UNCHANGED <<parsed, accepted>>
        \/ \E m \in Request : parsed' = <<m>> /\ accepted' = Append(accepted, m)
    BY <1>1 DEF ParserReceive
  <2> QED BY <2>2, <2>3, <2>4
<1>2. CASE ParserSend
  <2>1. /\ g_app_queue' = g_app_queue \o parsed /\ parsed' = << >>
        /\ accepted' = accepted /\ count' = count
    BY <1>2 DEF ParserSend
  <2>2. g_app_queue \o parsed \in Seq(Request)
    BY <1>0, ConcatProperties
  <2>3. (g_app_queue \o parsed) \o << >> = g_app_queue \o parsed
    BY <2>2, ConcatEmptySeq
  <2> QED BY <2>1, <2>3 DEF OrderKept, MessagesKeepTheirOrder
<1>3. CASE AppReceive
  <2>1. /\ g_app_queue # << >> /\ g_app_queue' = Tail(g_app_queue)
        /\ parsed' = parsed /\ accepted' = accepted
        /\ count' = [count EXCEPT !["rx"] = @ + 1]
    BY <1>3 DEF AppReceive, Increment, upstream, parsing
  <2>2. count'.rx = count.rx + 1
    BY <1>0, <2>1, Names
  <2>3. /\ g_app_queue \o parsed # << >>
        /\ Tail(g_app_queue \o parsed) = Tail(g_app_queue) \o parsed
    BY <1>0, <2>1, TailOfConcat
  <2>4. /\ count.rx < Len(accepted)
        /\ SubSeq(accepted, count.rx + 2, Len(accepted)) = Tail(rest)
    BY <1>0, <2>3, RestShrinks
  <2>5. count'.rx + 1 = count.rx + 2 /\ count'.rx <= Len(accepted)
    BY <1>0, <2>2, <2>4
  <2>6. Tail(rest) = g_app_queue' \o parsed'
    BY <1>0, <2>1, <2>3
  <2> HIDE DEF rest
  <2> QED BY <2>1, <2>4, <2>5, <2>6 DEF OrderKept, MessagesKeepTheirOrder
<1>4. CASE SendReply
  <2>1. /\ \/ count' = count \/ count' = [count EXCEPT !["ae"] = @ + 1]
        /\ UNCHANGED <<g_app_queue, parsed, accepted>>
    BY <1>4 DEF SendReply, Increment, upstream, parsing
  <2>2. count'.rx = count.rx
    BY <1>0, <2>1, Names
  <2> QED BY <2>1, <2>2 DEF OrderKept, MessagesKeepTheirOrder
<1>5. CASE usart1_isr
  <2>1. /\ \/ count' = [count EXCEPT !["irq"] = @ + 1]
           \/ count' = [count EXCEPT !["irq"] = @ + 1, !["qd"] = @ + 1]
        /\ UNCHANGED <<g_app_queue, parsed, accepted>>
    BY <1>5 DEF usart1_isr, Increment, parsing
  <2>2. count'.rx = count.rx
    BY <1>0, <2>1, Names
  <2> QED BY <2>1, <2>2 DEF OrderKept, MessagesKeepTheirOrder
<1>6. CASE \/ StartScheduler \/ RxReceive \/ RxSend \/ SendCommand \/ ReadCounter
           \/ ApplyCommand \/ TxReceive \/ TxSend
  BY <1>6 DEF StartScheduler, RxReceive, RxSend, SendCommand, ReadCounter,
              ApplyCommand, TxReceive, TxSend, upstream, parsing,
              OrderKept, MessagesKeepTheirOrder
<1>7. CASE IdleTask \/ UNCHANGED vars
  BY <1>7 DEF IdleTask, vars, upstream, parsing, OrderKept, MessagesKeepTheirOrder
<1> QED BY <1>1, <1>2, <1>3, <1>4, <1>5, <1>6, <1>7 DEF Next

LEMMA InitOrderKept == Init => OrderKept
<1> SUFFICES ASSUME Init PROVE OrderKept
  OBVIOUS
<1>1. /\ accepted = << >> /\ g_app_queue = << >> /\ parsed = << >>
      /\ count = [c \in Counter |-> 0]
  BY DEF Init, NoCounts
<1>2. count.rx = 0 /\ Len(accepted) = 0
  BY <1>1, Names, EmptySeq
<1>3. SubSeq(accepted, 1, 0) = << >>
  BY SubSeqEmpty
<1>4. g_app_queue \o parsed = << >>
  BY <1>1, ConcatEmptySeq, EmptySeq
<1> QED BY <1>2, <1>3, <1>4 DEF OrderKept, MessagesKeepTheirOrder

\* Every message the parser delivered is handled, waits in the queue of the
\* application or is in the hands of task_parser, once and in its order.
THEOREM OrderPreserved == Spec => []MessagesKeepTheirOrder
<1>1. Init => OrderKept
  BY InitOrderKept
<1>2. OrderKept => MessagesKeepTheirOrder
  BY DEF OrderKept
<1> QED BY <1>1, <1>2, OrderIsKept, TypeMeansStores, TypeCorrect, PTL DEF Spec

-----------------------------------------------------------------------------
(* The answers.  While task_app is at work on a message, which is always    *)
(* the last one counted in rx, the invariant has to say what it is at work  *)
(* on; everything it has sent is in the transmission queue, in the hands of *)
(* task_uart_tx or on the line.                                             *)

Pair(a) == <<a.type, a.payload>>
Given   == wire \o sending \o g_uart_tx_queue

\* Their numbers, named so that the arithmetic below stays free of sequences.
GivenCount    == Len(Given)
AcceptedCount == Len(accepted)
Handled       == count.rx

AnsweredSoFar ==
  /\ IF app = "receive" THEN Handled = GivenCount ELSE Handled = GivenCount + 1
  /\ \A k \in 1 .. GivenCount : Pair(Given[k]) = Service!AnswerTo(accepted[k])
  /\ app = "send" => Pair(reply) = Service!AnswerTo(accepted[Handled])
  /\ app = "command" => Service!AnswerTo(accepted[Handled]) = <<"ACK", "cmd=ok">>
  /\ app = "read counters" =>
       /\ Service!AnswerTo(accepted[Handled]) = <<"STS", "counters">>
       /\ Pair(reply) = <<"STS", "counters">>

LEMMA Appended ==
  ASSUME NEW S, NEW s \in Seq(S), NEW e \in S
  PROVE  /\ Append(s, e) \in Seq(S)
         /\ Len(s) \in Nat /\ Len(s) + 1 = Len(Append(s, e))
         /\ \A i \in 1 .. Len(s) : Append(s, e)[i] = s[i]
         /\ Append(s, e)[Len(s) + 1] = e
BY AppendProperties, LenProperties

LEMMA HeadAndTail ==
  ASSUME NEW S, NEW s \in Seq(S), s # << >>
  PROVE  <<Head(s)>> \o Tail(s) = s
<1>1. Len(s) \in Nat /\ Len(s) >= 1
  BY EmptySeq, LenProperties
<1>2. SubSeq(s, 1, Len(s)) = <<s[1]>> \o SubSeq(s, 1 + 1, Len(s))
  <2>1. 1 \in 1 .. Len(s) /\ Len(s) \in 1 .. Len(s)
    BY <1>1
  <2> QED BY <2>1, SubSeqRecursiveFirst
<1>3. SubSeq(s, 1, Len(s)) = s
  BY SubSeqFull
<1>4. Tail(s) = SubSeq(s, 2, Len(s))
  BY TailIsSubSeq
<1> QED BY <1>1, <1>2, <1>3, <1>4

\* task_uart_tx moves answers and changes none.
LEMMA TransmissionMoves ==
  ASSUME NEW S, TransmissionOf(S), TxReceive \/ TxSend
  PROVE  Given' = Given
<1>0. wire \in Seq(S) /\ sending \in Seq(S) /\ g_uart_tx_queue \in Seq(S)
  BY DEF TransmissionOf
<1>1. CASE TxReceive
  <2>1. /\ sending = << >> /\ g_uart_tx_queue # << >> /\ wire' = wire
        /\ sending' = <<Head(g_uart_tx_queue)>> /\ g_uart_tx_queue' = Tail(g_uart_tx_queue)
    BY <1>1 DEF TxReceive
  <2>2. sending' \in Seq(S) /\ g_uart_tx_queue' \in Seq(S)
    BY <1>0, <2>1, HeadTailProperties
  <2>3. (wire \o sending') \o g_uart_tx_queue' = wire \o (sending' \o g_uart_tx_queue')
    <3>1. wire \in Seq(S)
      BY <1>0
    <3> QED BY <2>2, <3>1, ConcatAssociative
  <2>4. sending' \o g_uart_tx_queue' = g_uart_tx_queue
    BY <1>0, <2>1, HeadAndTail
  <2>5. wire \o sending = wire
    BY <1>0, <2>1, ConcatEmptySeq
  <2> QED BY <2>1, <2>3, <2>4, <2>5 DEF Given
<1>2. CASE TxSend
  <2>1. wire' = wire \o sending /\ sending' = << >> /\ g_uart_tx_queue' = g_uart_tx_queue
    BY <1>2 DEF TxSend
  <2>2. wire \o sending \in Seq(S)
    BY <1>0, ConcatProperties
  <2>3. (wire \o sending) \o << >> = wire \o sending
    BY <2>2, ConcatEmptySeq
  <2> QED BY <2>1, <2>3 DEF Given
<1> QED BY <1>1, <1>2

LEMMA TransmissionMovesAnswers ==
  ASSUME TypeOK, TxReceive \/ TxSend
  PROVE  Given' = Given
<1>1. TransmissionOf(Answer)
  BY DEF TransmissionOf, TypeOK, TransmissionOK
<1> QED BY <1>1, TransmissionMoves

\* A message that is queued joins the answers given.
LEMMA QueuedIsGiven ==
  ASSUME NEW S, TransmissionOf(S), NEW m \in S,
         UNCHANGED <<wire, sending>>, g_uart_tx_queue' = Append(g_uart_tx_queue, m)
  PROVE  Given \in Seq(S) /\ Given' = Append(Given, m)
<1>1. wire \o sending \in Seq(S) /\ g_uart_tx_queue \in Seq(S)
  BY ConcatProperties DEF TransmissionOf
<1>2. wire' = wire /\ sending' = sending
  OBVIOUS
<1>3. Append(g_uart_tx_queue, m) = g_uart_tx_queue \o <<m>>
  BY <1>1, AppendIsConcat
<1>4. <<m>> \in Seq(S)
  OBVIOUS
<1>5. (wire \o sending) \o (g_uart_tx_queue \o <<m>>)
        = ((wire \o sending) \o g_uart_tx_queue) \o <<m>>
  BY <1>1, <1>4, ConcatAssociative
<1>6. Given \in Seq(S)
  BY <1>1, ConcatProperties DEF Given
<1>7. Append(Given, m) = Given \o <<m>>
  BY <1>6, AppendIsConcat
<1> QED BY <1>2, <1>3, <1>5, <1>6, <1>7 DEF Given

LEMMA QueuedReplyIsGiven ==
  ASSUME TypeOK, SendReply
  PROVE  Given' = Append(Given, reply)
<1>1. TransmissionOf(Answer) /\ reply \in Answer
  BY DEF TransmissionOf, TypeOK, TransmissionOK, ApplicationOK
<1>2. /\ wire' = wire /\ sending' = sending
      /\ g_uart_tx_queue' = Append(g_uart_tx_queue, reply)
  BY DEF SendReply
<1> QED BY <1>1, <1>2, QueuedIsGiven

\* What task_app starts to do with a message leads to its answer.
LEMMA HandlingLeadsToTheAnswer ==
  ASSUME NEW m \in Request, app_handle_message(m)
  PROVE  \/ app' = "send" /\ Pair(reply') = Service!AnswerTo(m)
         \/ app' = "command" /\ Service!AnswerTo(m) = <<"ACK", "cmd=ok">>
         \/ /\ app' = "read counters" /\ Service!AnswerTo(m) = <<"STS", "counters">>
            /\ Pair(reply') = <<"STS", "counters">>
<1> USE DEF Service!AnswerTo, Service!IsLedCommand
<1>1. CASE m.type # "CMD" /\ send_simple_message("ERR", "code=unexpected_type")
  BY <1>1 DEF send_simple_message, Reply, Pair
<1>2. CASE m.type = "CMD" /\ build_led_command(m.payload) # "" /\ app' = "command"
  BY <1>2 DEF build_led_command
<1>3. CASE m.type = "CMD" /\ m.payload = "ping" /\ send_simple_message("ACK", "pong=1")
  BY <1>3 DEF send_simple_message, Reply, Pair
<1>4. CASE m.type = "CMD" /\ m.payload = "status?" /\ app_build_status_message
  BY <1>4 DEF app_build_status_message, Reply, Pair
<1>5. CASE /\ m.type = "CMD" /\ build_led_command(m.payload) = ""
           /\ m.payload \notin {"ping", "status?"}
           /\ send_simple_message("ERR", "code=unknown_cmd")
  BY <1>5 DEF build_led_command, send_simple_message, Reply, Pair
<1> QED BY <1>1, <1>2, <1>3, <1>4, <1>5 DEF app_handle_message

LEMMA AnswersAreKept ==
  TypeOK /\ OrderKept /\ AnsweredSoFar /\ [Next]_vars => AnsweredSoFar'
<1> SUFFICES ASSUME TypeOK, OrderKept, AnsweredSoFar, [Next]_vars
             PROVE  AnsweredSoFar'
  OBVIOUS
<1>0. /\ count \in [Counter -> Nat] /\ Handled \in Nat
      /\ accepted \in Seq(Request) /\ AcceptedCount \in Nat
      /\ Handled <= AcceptedCount
      /\ app \in {"receive", "command", "read counters", "send"} /\ reply \in Answer
  BY Names, LenProperties DEF TypeOK, CountersOK, ParsingOK, ApplicationOK, OrderKept,
                              AcceptedCount, Handled
<1>1. Given \in Seq(Answer) /\ GivenCount \in Nat
  <2>1. /\ wire \in Seq(Answer) /\ sending \in Seq(Answer)
        /\ g_uart_tx_queue \in Seq(Answer)
    BY DEF TypeOK, TransmissionOK
  <2>2. wire \o sending \in Seq(Answer)
    BY <2>1, ConcatProperties
  <2>3. Given \in Seq(Answer)
    BY <2>1, <2>2, ConcatProperties DEF Given
  <2> QED BY <2>3, LenProperties DEF GivenCount
<1>2. /\ GivenCount <= Handled /\ GivenCount <= AcceptedCount
      /\ app # "receive" => Handled \in 1 .. AcceptedCount
  <2>1. IF app = "receive" THEN Handled = GivenCount ELSE Handled = GivenCount + 1
    BY DEF AnsweredSoFar
  <2>2. /\ Handled \in Nat /\ GivenCount \in Nat /\ AcceptedCount \in Nat
        /\ Handled <= AcceptedCount
    BY <1>0, <1>1
  <2>3. CASE app = "receive"
    <3>1. Handled = GivenCount
      BY <2>1, <2>2, <2>3
    <3> QED BY <2>2, <2>3, <3>1
  <2>4. CASE app # "receive"
    <3>1. Handled = GivenCount + 1
      BY <2>1, <2>4
    <3>2. GivenCount <= Handled /\ GivenCount <= AcceptedCount /\ Handled >= 1
      BY <2>2, <3>1
    <3> QED BY <2>2, <3>2
  <2> QED BY <2>3, <2>4
\* Most steps leave alone everything the invariant is about.
<1>3. ASSUME Given' = Given, Handled' = Handled, UNCHANGED <<app, reply, accepted>>
      PROVE  AnsweredSoFar'
  BY <1>3 DEF AnsweredSoFar, GivenCount, Handled
<1>4. ASSUME count' = [count EXCEPT !["irq"] = @ + 1]
             \/ count' = [count EXCEPT !["irq"] = @ + 1, !["qd"] = @ + 1]
             \/ count' = [count EXCEPT !["pb"] = @ + 1]
             \/ count' = [count EXCEPT !["pb"] = @ + 1, !["pe"] = @ + 1]
             \/ count' = [count EXCEPT !["pb"] = @ + 1, !["pm"] = @ + 1]
             \/ count' = [count EXCEPT !["ae"] = @ + 1]
             \/ count' = count
      PROVE  Handled' = Handled
  BY <1>0, <1>4, Names DEF Handled
<1>5. CASE TxReceive \/ TxSend
  <2>1. Given' = Given
    BY <1>5, TransmissionMovesAnswers
  <2>2. UNCHANGED <<count, app, reply, accepted>>
    BY <1>5 DEF TxReceive, TxSend, upstream, parsing, application
  <2> QED BY <1>3, <2>1, <2>2 DEF Handled
<1>6. CASE StartScheduler \/ usart1_isr \/ RxReceive \/ RxSend \/ ParserSend
  <2>1. UNCHANGED <<app, reply, accepted, transmission>>
    BY <1>6 DEF StartScheduler, usart1_isr, RxReceive, RxSend, ParserSend,
                parsing, downstream, application
  <2>2. Handled' = Handled
    BY <1>4, <1>6 DEF StartScheduler, usart1_isr, RxReceive, RxSend, ParserSend, Increment
  <2>3. Given' = Given
    BY <2>1 DEF Given, transmission
  <2> QED BY <1>3, <2>1, <2>2, <2>3
<1>7. CASE ApplyCommand \/ IdleTask \/ UNCHANGED vars
  <2>1. UNCHANGED <<count, app, reply, accepted, transmission>>
    BY <1>7 DEF ApplyCommand, IdleTask, vars, upstream, downstream, parsing, application
  <2>2. Given' = Given
    BY <2>1 DEF Given, transmission
  <2> QED BY <1>3, <2>1, <2>2 DEF Handled
<1>8. CASE ParserReceive
  <2>1. UNCHANGED <<app, reply, transmission>>
    BY <1>8 DEF ParserReceive, downstream, application
  <2>2. Given' = Given
    BY <2>1 DEF Given, transmission
  <2>3. Handled' = Handled
    BY <1>4, <1>8 DEF ParserReceive, Increment
  <2>4. \A k \in 1 .. AcceptedCount : accepted'[k] = accepted[k]
    <3>1. accepted' = accepted \/ \E m \in Request : accepted' = Append(accepted, m)
      BY <1>8 DEF ParserReceive
    <3>2. ASSUME NEW m \in Request, accepted' = Append(accepted, m)
          PROVE  \A k \in 1 .. AcceptedCount : accepted'[k] = accepted[k]
      <4>1. accepted \in Seq(Request)
        BY <1>0
      <4>2. \A k \in 1 .. Len(accepted) : Append(accepted, m)[k] = accepted[k]
        BY <4>1, Appended
      <4> QED BY <3>2, <4>2 DEF AcceptedCount
    <3> QED BY <3>1, <3>2
  <2>5. \A k \in 1 .. GivenCount : accepted'[k] = accepted[k]
    <3>1. GivenCount \in Nat /\ AcceptedCount \in Nat
      BY <1>0, <1>1
    <3>2. GivenCount <= AcceptedCount
      BY <1>2
    <3>3. \A k \in 1 .. GivenCount : k \in 1 .. AcceptedCount
      BY <3>1, <3>2
    <3> QED BY <2>4, <3>3
  <2>6. app # "receive" => accepted'[Handled] = accepted[Handled]
    BY <1>2, <2>4
  <2> QED BY <2>1, <2>2, <2>3, <2>5, <2>6 DEF AnsweredSoFar, GivenCount, Handled
<1>9. CASE AppReceive
  <2> DEFINE m == Head(g_app_queue)
  <2>1. /\ app = "receive" /\ g_app_queue # << >> /\ app_handle_message(m)
        /\ UNCHANGED <<accepted, transmission>>
        /\ count' = [count EXCEPT !["rx"] = @ + 1]
    BY <1>9 DEF AppReceive, Increment, upstream, parsing
  <2>2. g_app_queue \in Seq(Request) /\ parsed \in Seq(Request) /\ m \in Request
    BY <2>1, HeadTailProperties DEF TypeOK, AppQueueOK, ParsingOK
  <2>3. accepted[Handled + 1] = m
    <3>1. /\ g_app_queue \o parsed # << >> /\ Head(g_app_queue \o parsed) = m
      BY <2>1, <2>2, TailOfConcat
    <3>2. SubSeq(accepted, Handled + 1, Len(accepted)) = g_app_queue \o parsed
      BY DEF OrderKept, MessagesKeepTheirOrder, Handled
    <3>3. accepted[Handled + 1] = Head(SubSeq(accepted, Handled + 1, Len(accepted)))
      BY <1>0, <3>1, <3>2, RestShrinks DEF AcceptedCount
    <3> QED BY <3>1, <3>2, <3>3
  <2>4. Handled' = Handled + 1
    BY <1>0, <2>1, Names DEF Handled
  <2>5. Given' = Given
    BY <2>1 DEF Given, transmission
  <2>6. \/ app' = "send" /\ Pair(reply') = Service!AnswerTo(m)
        \/ app' = "command" /\ Service!AnswerTo(m) = <<"ACK", "cmd=ok">>
        \/ /\ app' = "read counters" /\ Service!AnswerTo(m) = <<"STS", "counters">>
           /\ Pair(reply') = <<"STS", "counters">>
    BY <2>1, <2>2, HandlingLeadsToTheAnswer
  <2> HIDE DEF m
  <2>7. accepted'[Handled'] = m
    BY <2>1, <2>3, <2>4
  <2>8. GivenCount' + 1 = Handled'
    BY <1>0, <1>1, <2>1, <2>4, <2>5 DEF AnsweredSoFar, GivenCount, Handled
  <2>9. \A k \in 1 .. GivenCount' : Pair(Given'[k]) = Service!AnswerTo(accepted'[k])
    BY <2>1, <2>5 DEF AnsweredSoFar, GivenCount, Handled
  <2>10. app' # "receive"
    BY <2>6
  <2> QED BY <2>6, <2>7, <2>8, <2>9, <2>10 DEF AnsweredSoFar
<1>10. CASE SendCommand
  <2>1. /\ app = "command" /\ app' = "send" /\ reply' = Reply("ACK", "cmd=ok")
        /\ UNCHANGED <<count, accepted, transmission>>
    BY <1>10 DEF SendCommand, upstream, parsing, transmission
  <2>2. Given' = Given
    BY <2>1 DEF Given, transmission
  <2>3. Pair(reply') = <<"ACK", "cmd=ok">>
    BY <2>1 DEF Pair, Reply
  <2> QED BY <2>1, <2>2, <2>3 DEF AnsweredSoFar, GivenCount, Handled
<1>11. CASE ReadCounter
  <2>1. /\ app = "read counters" /\ app' \in {"read counters", "send"}
        /\ UNCHANGED <<count, accepted, transmission>>
        /\ \E c \in unread : reply' = [reply EXCEPT !.counts[c] = count[c]]
    BY <1>11 DEF ReadCounter, upstream, parsing
  <2>2. Given' = Given
    BY <2>1 DEF Given, transmission
  <2>3. Pair(reply') = Pair(reply)
    BY <1>0, <2>1 DEF Pair, Answer
  <2> QED BY <2>1, <2>2, <2>3 DEF AnsweredSoFar, GivenCount, Handled
<1>12. CASE SendReply
  <2>1. /\ app = "send" /\ app' = "receive" /\ accepted' = accepted
        /\ count' = count \/ count' = [count EXCEPT !["ae"] = @ + 1]
    BY <1>12 DEF SendReply, Increment, upstream, parsing
  <2>2. Handled' = Handled
    BY <1>4, <2>1
  <2>3. Given' = Append(Given, reply)
    BY <1>12, QueuedReplyIsGiven
  <2>4. /\ GivenCount' = GivenCount + 1
        /\ \A k \in 1 .. GivenCount : Given'[k] = Given[k]
        /\ Given'[GivenCount + 1] = reply
    <3>1. Given \in Seq(Answer) /\ reply \in Answer
      BY <1>0, <1>1
    <3>2. /\ Len(Given) + 1 = Len(Append(Given, reply))
          /\ \A k \in 1 .. Len(Given) : Append(Given, reply)[k] = Given[k]
          /\ Append(Given, reply)[Len(Given) + 1] = reply
      BY <3>1, Appended
    <3> QED BY <2>3, <3>2 DEF GivenCount
  <2>5. GivenCount + 1 = Handled /\ Pair(reply) = Service!AnswerTo(accepted[Handled])
    BY <2>1 DEF AnsweredSoFar
  <2>6. GivenCount' = Handled'
    BY <1>0, <2>2, <2>4, <2>5
  <2>7. ASSUME NEW k \in 1 .. GivenCount'
        PROVE  Pair(Given'[k]) = Service!AnswerTo(accepted'[k])
    <3>1. CASE k \in 1 .. GivenCount
      BY <2>1, <2>4, <3>1 DEF AnsweredSoFar
    <3>2. CASE k = GivenCount + 1
      BY <1>0, <2>1, <2>4, <2>5, <3>2
    <3> QED BY <1>1, <2>4, <3>1, <3>2
  <2> QED BY <2>1, <2>6, <2>7 DEF AnsweredSoFar
<1> QED BY <1>5, <1>6, <1>7, <1>8, <1>9, <1>10, <1>11, <1>12 DEF Next

LEMMA InitAnsweredSoFar == Init => AnsweredSoFar
<1> SUFFICES ASSUME Init PROVE AnsweredSoFar
  OBVIOUS
<1>1. /\ wire = << >> /\ sending = << >> /\ g_uart_tx_queue = << >> /\ app = "receive"
      /\ count = [c \in Counter |-> 0]
  BY DEF Init, NoCounts
<1>2. Given = << >>
  BY <1>1, ConcatEmptySeq, EmptySeq DEF Given
<1>3. Handled = 0 /\ GivenCount = 0
  BY <1>1, <1>2, Names, EmptySeq DEF Handled, GivenCount
<1> QED BY <1>1, <1>3 DEF AnsweredSoFar

LEMMA AnsweredMeansMatched == TypeOK /\ AnsweredSoFar => AnswersMatchRequests
<1> SUFFICES ASSUME TypeOK, AnsweredSoFar PROVE AnswersMatchRequests
  OBVIOUS
<1>0. /\ Handled \in Nat /\ reply \in Answer
      /\ app \in {"receive", "command", "read counters", "send"}
  BY Names DEF TypeOK, CountersOK, ApplicationOK, Handled
<1>1. Given \in Seq(Answer) /\ GivenCount \in Nat
  <2>1. wire \o sending \in Seq(Answer) /\ g_uart_tx_queue \in Seq(Answer)
    BY ConcatProperties DEF TypeOK, TransmissionOK
  <2>2. Given \in Seq(Answer)
    BY <2>1, ConcatProperties DEF Given
  <2> QED BY <2>2, LenProperties DEF GivenCount
<1>2. CASE app = "send"
  <2>1. Answers = Given \o <<reply>>
    BY <1>2 DEF Answers, Given
  <2>2. Answers = Append(Given, reply)
    BY <1>0, <1>1, <2>1, AppendIsConcat
  <2>3. /\ Answers \in Seq(Answer) /\ Len(Answers) = GivenCount + 1
        /\ \A k \in 1 .. GivenCount : Answers[k] = Given[k]
        /\ Answers[GivenCount + 1] = reply
    <3>1. Given \in Seq(Answer) /\ reply \in Answer
      BY <1>0, <1>1
    <3>2. /\ Append(Given, reply) \in Seq(Answer)
          /\ Len(Given) + 1 = Len(Append(Given, reply))
          /\ \A k \in 1 .. Len(Given) : Append(Given, reply)[k] = Given[k]
          /\ Append(Given, reply)[Len(Given) + 1] = reply
      BY <3>1, Appended
    <3> QED BY <2>2, <3>2 DEF GivenCount
  <2>4. GivenCount + 1 = Handled /\ Pair(reply) = Service!AnswerTo(accepted[Handled])
    BY <1>2 DEF AnsweredSoFar
  <2>5. Len(Answers) = Handled /\ DOMAIN Answers = 1 .. Handled
    BY <1>0, <1>1, <2>3, <2>4, LenProperties
  <2>6. ASSUME NEW k \in 1 .. Handled
        PROVE  Pair(Answers[k]) = Service!AnswerTo(accepted[k])
    <3>1. CASE k \in 1 .. GivenCount
      BY <2>3, <3>1 DEF AnsweredSoFar
    <3>2. CASE k = GivenCount + 1
      BY <1>0, <2>3, <2>4, <3>2
    <3>3. GivenCount \in Nat /\ k \in 1 .. GivenCount + 1
      BY <1>1, <2>4
    <3>4. k \in 1 .. GivenCount \/ k = GivenCount + 1
      BY <3>3
    <3> QED BY <3>1, <3>2, <3>4
  <2> QED BY <1>0, <1>2, <2>5, <2>6 DEF AnswersMatchRequests, Pair, Handled, GivenCount
<1>3. CASE app # "send"
  <2>1. Answers = Given \o << >>
    BY <1>3 DEF Answers, Given
  <2>2. Answers = Given
    BY <1>1, <2>1, ConcatEmptySeq
  <2>3. DOMAIN Given = 1 .. GivenCount
    BY <1>1, LenProperties DEF GivenCount
  <2>4. GivenCount = Handled - (IF app \in {"command", "read counters"} THEN 1 ELSE 0)
    <3>1. IF app = "receive" THEN Handled = GivenCount ELSE Handled = GivenCount + 1
      BY DEF AnsweredSoFar
    <3>2. GivenCount \in Nat /\ Handled \in Nat
      BY <1>0, <1>1
    <3>3. CASE app = "receive"
      BY <3>1, <3>2, <3>3
    <3>4. CASE app \in {"command", "read counters"}
      <4>1. Handled = GivenCount + 1
        BY <3>1, <3>4
      <4>2. GivenCount = Handled - 1
        BY <3>2, <4>1
      <4> QED BY <3>4, <4>2
    <3>5. app = "receive" \/ app \in {"command", "read counters"}
      BY <1>0, <1>3
    <3> QED BY <3>3, <3>4, <3>5
  <2>5. \A k \in DOMAIN Given : Pair(Given[k]) = Service!AnswerTo(accepted[k])
    BY <2>3 DEF AnsweredSoFar
  <2> QED BY <2>2, <2>4, <2>5 DEF AnswersMatchRequests, Pair, Handled, GivenCount
<1> QED BY <1>2, <1>3

\* The k-th answer is the answer to the k-th message the parser delivered, for
\* any requests, any lengths of the queues and any order of the tasks.
THEOREM AnswersInOrder == Spec => []AnswersMatchRequests
<1> DEFINE IInv == TypeOK /\ OrderKept /\ AnsweredSoFar
<1>1. Init => IInv
  BY InitAnsweredSoFar, InitTypeOK, InitOrderKept
<1>2. IInv /\ [Next]_vars => IInv'
  BY NextTypeOK, OrderIsKept, TypeMeansStores, AnswersAreKept
<1>3. IInv => AnswersMatchRequests
  BY AnsweredMeansMatched
<1> QED BY <1>1, <1>2, <1>3, PTL DEF Spec

\* Whatever the lengths of the queues, the tasks do not wait for one another in
\* a circle.
THEOREM NoCircularWait == Spec => []IdleMeansDrained
<1>1. TypeOK => IdleMeansDrained
  <2> SUFFICES ASSUME TypeOK, Idle
               PROVE  /\ g_uart_rx_isr_queue + rx_byte + g_parser_input_queue = 0
                      /\ parsed = << >> /\ g_app_queue = << >> /\ app = "receive"
    BY DEF IdleMeansDrained
  <2>1. g_uart_tx_queue = << >> /\ g_actuator_queue = << >>
    BY DEF Idle, TxReady, ActuatorsReady
  <2>2. Len(g_uart_tx_queue) < UartTxQueueLength /\ Len(g_actuator_queue) < ActuatorQueueLength
    BY <2>1, Lengths, EmptySeq
  <2>3. app = "receive" /\ g_app_queue = << >>
    BY <2>2 DEF Idle, AppReady, TypeOK, ApplicationOK
  <2>4. parsed = << >>
    BY <2>3, Lengths, EmptySeq DEF Idle, ParserReady
  <2>5. g_parser_input_queue = 0
    BY <2>4, Lengths DEF Idle, ParserReady, TypeOK, ReceptionOK
  <2>6. rx_byte = 0 /\ g_uart_rx_isr_queue = 0
    BY <2>5, Lengths DEF Idle, RxReady, TypeOK, ReceptionOK
  <2> QED BY <2>3, <2>4, <2>5, <2>6
<1> QED BY <1>1, TypeCorrect, PTL

\* A byte that finds the queue of the interrupt full finds the chain behind it
\* full as well, when a byte time suffices to move a byte.
LEMMA FullChain ==
  ASSUME FastReception, StoresOK, usart1_isr, running,
         g_uart_rx_isr_queue = UartRxIsrQueueLength
  PROVE  /\ rx_byte = 1 /\ g_parser_input_queue = ParserInputQueueLength
         /\ parsed # << >> /\ Len(g_app_queue) = AppMessageQueueLength
<1>1. ~RxReady /\ ~ParserReady
  BY DEF usart1_isr
<1>2. rx_byte = 1 /\ g_parser_input_queue = ParserInputQueueLength
  BY <1>1, Lengths DEF RxReady, StoresOK, ReceptionOK
<1>3. parsed # << >> /\ Len(g_app_queue) = AppMessageQueueLength
  BY <1>1, <1>2, Lengths DEF ParserReady, StoresOK, AppQueueOK
<1> QED BY <1>2, <1>3

\* The chain from the interrupt to the application, full.
Full == /\ g_uart_rx_isr_queue = UartRxIsrQueueLength
        /\ rx_byte = 1 /\ g_parser_input_queue = ParserInputQueueLength
        /\ parsed # << >> /\ Len(g_app_queue) = AppMessageQueueLength

LEMMA LossMeansFull ==
  ASSUME FastReception, StoresOK, Next, count'.qd > count.qd
  PROVE  Full
<1> USE DEF Full
<1>0. count \in [Counter -> Nat] /\ count.qd \in Nat
  BY Names DEF StoresOK, CountersOK
<1>1. CASE usart1_isr
  <2>1. CASE running /\ g_uart_rx_isr_queue = UartRxIsrQueueLength
    BY <1>1, <2>1, FullChain
  <2>2. CASE ~(running /\ g_uart_rx_isr_queue = UartRxIsrQueueLength)
    <3>1. count' = [count EXCEPT !["irq"] = @ + 1]
      BY <1>1, <2>2 DEF usart1_isr, Increment
    <3>2. count'.qd = count.qd
      BY <1>0, <3>1, Names
    <3> QED BY <1>0, <3>2
  <2> QED BY <2>1, <2>2
<1>2. CASE ~usart1_isr
  <2>1. \/ count' = count
        \/ \E c \in {"pb", "rx", "ae"} : count' = [count EXCEPT ![c] = @ + 1]
        \/ \E c \in {"pe", "pm"} : count' = [count EXCEPT !["pb"] = @ + 1, ![c] = @ + 1]
    <3>1. CASE ParserReceive
      BY <3>1 DEF ParserReceive, Increment
    <3>2. CASE AppReceive \/ SendReply
      BY <3>2 DEF AppReceive, SendReply, Increment
    <3>3. CASE \/ StartScheduler \/ RxReceive \/ RxSend \/ ParserSend
               \/ SendCommand \/ ReadCounter \/ ApplyCommand \/ TxReceive \/ TxSend
      BY <3>3 DEF StartScheduler, RxReceive, RxSend, ParserSend, SendCommand,
                  ReadCounter, ApplyCommand, TxReceive, TxSend
    <3>4. CASE IdleTask
      BY <3>4 DEF IdleTask, vars
    <3> QED BY <1>2, <3>1, <3>2, <3>3, <3>4 DEF Next
  <2>2. count'.qd = count.qd
    BY <1>0, <2>1, Names
  <2> QED BY <1>0, <2>2
<1> QED BY <1>1, <1>2

\* When a byte time suffices to move a byte, none is lost before every queue
\* from the interrupt to the application is full.
THEOREM LossIsBackpressure ==
  ASSUME FastReception
  PROVE  Spec => LossNeedsAStalledApplication
<1>1. TypeOK /\ [Next]_vars => [count'.qd > count.qd => Full]_vars
  BY LossMeansFull, TypeMeansStores
<1> QED BY <1>1, TypeCorrect, PTL DEF Spec, LossNeedsAStalledApplication, Full

-----------------------------------------------------------------------------
(* The service of Board.                                                    *)

\* The invariant of the answers, which the rest of the module stands on.
Answering == TypeOK /\ OrderKept /\ AnsweredSoFar

LEMMA Facts ==
  ASSUME Answering
  PROVE  /\ count \in [Counter -> Nat]
         /\ accepted \in Seq(Request) /\ AcceptedCount \in Nat
         /\ Handled \in Nat /\ Handled <= AcceptedCount
         /\ Given \in Seq(Answer) /\ GivenCount \in Nat
         /\ app \in {"receive", "command", "read counters", "send"}
         /\ reply \in Answer /\ unread \subseteq Counter
         /\ app = "receive" => Handled = GivenCount
         /\ app # "receive" => Handled = GivenCount + 1
<1>1. /\ count \in [Counter -> Nat] /\ Handled \in Nat
      /\ accepted \in Seq(Request) /\ AcceptedCount \in Nat
      /\ Handled <= AcceptedCount
      /\ app \in {"receive", "command", "read counters", "send"}
      /\ reply \in Answer /\ unread \subseteq Counter
  BY Names, LenProperties DEF Answering, TypeOK, CountersOK, ParsingOK, ApplicationOK, OrderKept,
                              AcceptedCount, Handled
<1>2. Given \in Seq(Answer) /\ GivenCount \in Nat
  <2>1. /\ wire \in Seq(Answer) /\ sending \in Seq(Answer)
        /\ g_uart_tx_queue \in Seq(Answer)
    BY DEF Answering, TypeOK, TransmissionOK
  <2>2. wire \o sending \in Seq(Answer)
    BY <2>1, ConcatProperties
  <2>3. Given \in Seq(Answer)
    BY <2>1, <2>2, ConcatProperties DEF Given
  <2> QED BY <2>3, LenProperties DEF GivenCount
<1>3. IF app = "receive" THEN Handled = GivenCount ELSE Handled = GivenCount + 1
  BY DEF Answering, AnsweredSoFar
<1> QED BY <1>1, <1>2, <1>3

LEMMA AnsweringHolds == Init => Answering
BY InitTypeOK, InitOrderKept, InitAnsweredSoFar DEF Answering

LEMMA AnsweringKept == Answering /\ [Next]_vars => Answering'
BY NextTypeOK, OrderIsKept, TypeMeansStores, AnswersAreKept DEF Answering

(* The steps, as far as task_app and its messages are concerned.            *)

Grows == \A c \in Counter : count[c] <= count'[c]
Quiet ==
  /\ Given' = Given /\ UNCHANGED <<application, actuation, accepted>>
  /\ count'["rx"] = count["rx"] /\ count'["ae"] = count["ae"] /\ count'["pm"] = count["pm"]
  /\ Grows
Accepts(m) ==
  /\ Given' = Given /\ UNCHANGED <<application, actuation>>
  /\ accepted' = Append(accepted, m)
  /\ count'["rx"] = count["rx"] /\ count'["ae"] = count["ae"] /\ count'["pm"] = count["pm"] + 1
  /\ Grows

\* Counting is monotonic.
LEMMA CountingGrows ==
  ASSUME count \in [Counter -> Nat], NEW c \in Counter, NEW d \in Counter, c # d,
         count' = [count EXCEPT ![c] = @ + 1] \/ count' = [count EXCEPT ![c] = @ + 1, ![d] = @ + 1]
  PROVE  Grows
BY DEF Grows

LEMMA StepsOfTheBoard ==
  ASSUME count \in [Counter -> Nat], NEW S, TransmissionOf(S), [Next]_vars
  PROVE  \/ Quiet \/ \E m \in Request : Accepts(m)
         \/ AppReceive \/ ReadCounter \/ SendCommand \/ SendReply \/ ApplyCommand
<1>0. count \in [Counter -> Nat]
  OBVIOUS
<1>1. CASE TxReceive \/ TxSend
  <2>1. Given' = Given
    BY <1>1, TransmissionMoves
  <2>2. UNCHANGED <<count, application, actuation, accepted>>
    BY <1>1 DEF TxReceive, TxSend, upstream, parsing
  <2>3. Grows
    BY <1>0, <2>2 DEF Grows
  <2> QED BY <2>1, <2>2, <2>3 DEF Quiet
<1>2. CASE StartScheduler \/ RxReceive \/ RxSend \/ ParserSend \/ IdleTask \/ UNCHANGED vars
  <2>1. UNCHANGED <<count, application, actuation, accepted, transmission>>
    BY <1>2 DEF StartScheduler, RxReceive, RxSend, ParserSend, IdleTask, vars, upstream, parsing,
                downstream
  <2>2. Given' = Given
    BY <2>1 DEF Given, transmission
  <2>3. Grows
    BY <1>0, <2>1 DEF Grows
  <2> QED BY <2>1, <2>2, <2>3 DEF Quiet
<1>3. CASE usart1_isr
  <2>1. /\ UNCHANGED <<application, actuation, accepted, transmission>>
        /\ \/ count' = [count EXCEPT !["irq"] = @ + 1]
           \/ count' = [count EXCEPT !["irq"] = @ + 1, !["qd"] = @ + 1]
    BY <1>3 DEF usart1_isr, Increment, parsing, downstream
  <2>2. Given' = Given
    BY <2>1 DEF Given, transmission
  <2>3. /\ count'["rx"] = count["rx"] /\ count'["ae"] = count["ae"]
        /\ count'["pm"] = count["pm"]
    BY <1>0, <2>1, Names
  <2>4. Grows
    BY <1>0, <2>1, CountingGrows, Names
  <2> QED BY <2>1, <2>2, <2>3, <2>4 DEF Quiet
<1>4. CASE ParserReceive
  <2>1. UNCHANGED <<application, actuation, transmission>>
    BY <1>4 DEF ParserReceive, downstream
  <2>2. Given' = Given
    BY <2>1 DEF Given, transmission
  <2>3. CASE /\ \/ count' = [count EXCEPT !["pb"] = @ + 1]
                \/ count' = [count EXCEPT !["pb"] = @ + 1, !["pe"] = @ + 1]
             /\ accepted' = accepted
    <3>1. /\ count'["rx"] = count["rx"] /\ count'["ae"] = count["ae"]
          /\ count'["pm"] = count["pm"]
      BY <1>0, <2>3, Names
    <3>2. Grows
      BY <1>0, <2>3, CountingGrows, Names
    <3> QED BY <2>1, <2>2, <2>3, <3>1, <3>2 DEF Quiet
  <2>4. ASSUME NEW m \in Request, count' = [count EXCEPT !["pb"] = @ + 1, !["pm"] = @ + 1],
               accepted' = Append(accepted, m)
        PROVE  Accepts(m)
    <3>1. /\ count'["rx"] = count["rx"] /\ count'["ae"] = count["ae"]
          /\ count'["pm"] = count["pm"] + 1
      BY <1>0, <2>4, Names
    <3>2. Grows
      BY <1>0, <2>4, CountingGrows, Names
    <3> QED BY <2>1, <2>2, <2>4, <3>1, <3>2 DEF Accepts
  <2>5. \/ /\ \/ count' = [count EXCEPT !["pb"] = @ + 1]
              \/ count' = [count EXCEPT !["pb"] = @ + 1, !["pe"] = @ + 1]
           /\ accepted' = accepted
        \/ \E m \in Request : /\ count' = [count EXCEPT !["pb"] = @ + 1, !["pm"] = @ + 1]
                              /\ accepted' = Append(accepted, m)
    BY <1>4 DEF ParserReceive, Increment
  <2> QED BY <2>3, <2>4, <2>5
<1> QED BY <1>1, <1>2, <1>3, <1>4 DEF Next

LEMMA Steps ==
  ASSUME Answering, [Next]_vars
  PROVE  \/ Quiet \/ \E m \in Request : Accepts(m)
         \/ AppReceive \/ ReadCounter \/ SendCommand \/ SendReply \/ ApplyCommand
<1>1. count \in [Counter -> Nat] /\ TransmissionOf(Answer)
  BY Facts DEF Answering, TypeOK, TransmissionOK, TransmissionOf
<1> QED BY <1>1, StepsOfTheBoard

\* Counting the members of a set of places, one place at a time.
LEMMA CountUpTo ==
  ASSUME NEW S, NEW n \in Nat
  PROVE  /\ IsFiniteSet({k \in 1 .. n : k \in S})
         /\ Cardinality({k \in 1 .. n : k \in S}) \in Nat
         /\ n + 1 \in S => Cardinality({k \in 1 .. n + 1 : k \in S})
                             = Cardinality({k \in 1 .. n : k \in S}) + 1
         /\ n + 1 \notin S => {k \in 1 .. n + 1 : k \in S} = {k \in 1 .. n : k \in S}
<1> DEFINE T == {k \in 1 .. n : k \in S}
<1>1. IsFiniteSet(1 .. n)
  BY FS_Interval
<1>2. IsFiniteSet(T)
  BY <1>1, FS_Subset
<1>3. n + 1 \notin T
  OBVIOUS
<1>4. ASSUME n + 1 \in S
      PROVE  {k \in 1 .. n + 1 : k \in S} = T \union {n + 1}
  BY <1>4
<1>5. Cardinality(T) \in Nat
  BY <1>2, FS_CardinalityType
<1>6. Cardinality(T \union {n + 1}) = Cardinality(T) + 1
  BY <1>2, <1>3, FS_AddElement
<1>7. n + 1 \notin S => {k \in 1 .. n + 1 : k \in S} = T
  OBVIOUS
<1> HIDE DEF T
<1>8. n + 1 \in S => Cardinality({k \in 1 .. n + 1 : k \in S}) = Cardinality(T) + 1
  BY <1>4, <1>6
<1> QED BY <1>2, <1>5, <1>7, <1>8 DEF T

-----------------------------------------------------------------------------
(* The LED commands.  A command is where it should be: obeyed, in the queue *)
(* of task_actuators in its order, or in the hands of task_app.             *)

IsLed(m)           == Service!IsLedCommand(m)
CommandCount(s, n) == Cardinality({k \in 1 .. n : IsLed(s[k])})
QueuedCount        == Len(g_actuator_queue)

\* The number of messages whose command, if they are one, has been handed on.
CommandsTaken == IF app = "command" THEN Handled - 1 ELSE Handled

\* The i-th command in the queue is the LED command number moved + i.
QueuedInOrder(i) ==
  \E n \in 1 .. CommandsTaken : /\ IsLed(accepted[n]) /\ CommandCount(accepted, n) = moved + i
                         /\ g_actuator_queue[i] = build_led_command(accepted[n].payload)

CommandsInOrder ==
  /\ CommandCount(accepted, CommandsTaken) = moved + QueuedCount
  /\ \A i \in 1 .. QueuedCount : QueuedInOrder(i)
  /\ app = "command" => /\ IsLed(accepted[Handled])
                        /\ command = build_led_command(accepted[Handled].payload)

LEMMA NextCommand ==
  ASSUME NEW s, NEW n \in Nat
  PROVE  /\ CommandCount(s, n) \in Nat
         /\ IsLed(s[n + 1]) => CommandCount(s, n + 1) = CommandCount(s, n) + 1
         /\ ~IsLed(s[n + 1]) => CommandCount(s, n + 1) = CommandCount(s, n)
<1> DEFINE S == {k \in Nat : IsLed(s[k])}
<1>1. \A i \in Nat : {k \in 1 .. i : k \in S} = {k \in 1 .. i : IsLed(s[k])}
  OBVIOUS
<1>2. n + 1 \in Nat /\ (n + 1 \in S <=> IsLed(s[n + 1]))
  OBVIOUS
<1> HIDE DEF S
<1>3. /\ Cardinality({k \in 1 .. n : k \in S}) \in Nat
      /\ n + 1 \in S => Cardinality({k \in 1 .. n + 1 : k \in S})
                          = Cardinality({k \in 1 .. n : k \in S}) + 1
      /\ n + 1 \notin S => {k \in 1 .. n + 1 : k \in S} = {k \in 1 .. n : k \in S}
  BY CountUpTo
<1>4. /\ {k \in 1 .. n : k \in S} = {k \in 1 .. n : IsLed(s[k])}
      /\ {k \in 1 .. n + 1 : k \in S} = {k \in 1 .. n + 1 : IsLed(s[k])}
  BY <1>1, <1>2
<1> QED BY <1>2, <1>3, <1>4 DEF CommandCount

\* Only the first n requests count.
LEMMA SameCommands ==
  ASSUME NEW s, NEW t, NEW n \in Nat, \A k \in 1 .. n : s[k] = t[k]
  PROVE  CommandCount(s, n) = CommandCount(t, n)
<1>1. {k \in 1 .. n : IsLed(s[k])} = {k \in 1 .. n : IsLed(t[k])}
  OBVIOUS
<1> QED BY <1>1 DEF CommandCount

LEMMA CommandsTakenIsNatural ==
  ASSUME Answering
  PROVE  /\ CommandsTaken \in Nat /\ CommandsTaken <= Handled
         /\ app # "command" => CommandsTaken = Handled
         /\ app = "command" => CommandsTaken + 1 = Handled
<1>1. /\ Handled \in Nat /\ GivenCount \in Nat
      /\ app # "receive" => Handled = GivenCount + 1
  BY Facts
<1>2. CASE app = "command"
  <2>1. CommandsTaken = Handled - 1
    BY <1>2 DEF CommandsTaken
  <2>2. Handled = GivenCount + 1
    BY <1>1, <1>2
  <2> QED BY <1>1, <1>2, <2>1, <2>2
<1>3. CASE app # "command"
  <2>1. CommandsTaken = Handled
    BY <1>3 DEF CommandsTaken
  <2> QED BY <1>1, <1>3, <2>1
<1> QED BY <1>2, <1>3

\* What is true of the commands stays true while the messages served stay the
\* same and the messages delivered only grow.
LEMMA CommandsUndisturbed ==
  ASSUME Answering, CommandsInOrder,
         CommandsTaken' = CommandsTaken, Handled' = Handled, app' = app, command' = command,
         UNCHANGED actuation, \A k \in 1 .. Handled : accepted'[k] = accepted[k]
  PROVE  CommandsInOrder'
<1>1. /\ CommandsTaken \in Nat /\ Handled \in Nat /\ CommandsTaken <= Handled
      /\ app = "command" => Handled \in 1 .. Handled
  <2>1. CommandsTaken \in Nat /\ Handled \in Nat /\ CommandsTaken <= Handled
    BY Facts, CommandsTakenIsNatural
  <2>2. app = "command" => CommandsTaken + 1 = Handled
    BY CommandsTakenIsNatural
  <2>3. CommandsTaken + 1 = Handled => Handled \in 1 .. Handled
    BY <2>1
  <2> QED BY <2>1, <2>2, <2>3
<1>2. \A n \in 0 .. CommandsTaken : CommandCount(accepted', n) = CommandCount(accepted, n)
  <2> SUFFICES ASSUME NEW n \in 0 .. CommandsTaken
               PROVE  CommandCount(accepted', n) = CommandCount(accepted, n)
    OBVIOUS
  <2>1. n \in Nat /\ \A k \in 1 .. n : accepted'[k] = accepted[k]
    BY <1>1
  <2> QED BY <2>1, SameCommands
<1>3. moved' = moved /\ g_actuator_queue' = g_actuator_queue
  BY DEF actuation
<1>4. CommandCount(accepted', CommandsTaken') = moved' + QueuedCount'
  <2>1. CommandCount(accepted, CommandsTaken) = moved + QueuedCount
    BY DEF CommandsInOrder
  <2>2. CommandsTaken \in 0 .. CommandsTaken
    BY <1>1
  <2>3. CommandCount(accepted', CommandsTaken) = CommandCount(accepted, CommandsTaken)
    BY <1>2, <2>2
  <2>4. QueuedCount' = QueuedCount
    BY <1>3 DEF QueuedCount
  <2> QED BY <1>3, <2>1, <2>3, <2>4
<1>5. ASSUME NEW i \in 1 .. QueuedCount
      PROVE  QueuedInOrder(i)'
  <2>1. PICK n \in 1 .. CommandsTaken :
               /\ IsLed(accepted[n]) /\ CommandCount(accepted, n) = moved + i
               /\ g_actuator_queue[i] = build_led_command(accepted[n].payload)
    BY DEF CommandsInOrder, QueuedInOrder
  <2>2. accepted'[n] = accepted[n] /\ n \in 0 .. CommandsTaken
    BY <1>1
  <2>3. CommandCount(accepted', n) = moved' + i
    BY <1>2, <1>3, <2>1, <2>2
  <2> QED BY <1>3, <2>1, <2>2, <2>3 DEF QueuedInOrder
<1>6. app' = "command" => /\ IsLed(accepted'[Handled'])
                          /\ command' = build_led_command(accepted'[Handled'].payload)
  BY <1>1 DEF CommandsInOrder
<1> QED BY <1>3, <1>4, <1>5, <1>6 DEF CommandsInOrder, QueuedCount

\* What task_app does with a message that is no LED command, and with one that is.
LEMMA HandlingOfCommands ==
  ASSUME NEW m \in Request, app_handle_message(m)
  PROVE  \/ app' \in {"send", "read counters"} /\ ~IsLed(m)
         \/ app' = "command" /\ IsLed(m) /\ command' = build_led_command(m.payload)
<1> USE DEF IsLed, Service!IsLedCommand
<1>1. CASE m.type # "CMD" /\ send_simple_message("ERR", "code=unexpected_type")
  BY <1>1 DEF send_simple_message
<1>2. CASE /\ m.type = "CMD" /\ build_led_command(m.payload) # "" /\ app' = "command"
           /\ command' = build_led_command(m.payload)
  BY <1>2 DEF build_led_command
<1>3. CASE m.type = "CMD" /\ m.payload = "ping" /\ send_simple_message("ACK", "pong=1")
  BY <1>3 DEF send_simple_message
<1>4. CASE m.type = "CMD" /\ m.payload = "status?" /\ app_build_status_message
  BY <1>4 DEF app_build_status_message
<1>5. CASE /\ m.type = "CMD" /\ build_led_command(m.payload) = ""
           /\ m.payload \notin {"ping", "status?"}
           /\ send_simple_message("ERR", "code=unknown_cmd")
  BY <1>5 DEF build_led_command, send_simple_message
<1> QED BY <1>1, <1>2, <1>3, <1>4, <1>5 DEF app_handle_message

\* task_app starts on the first message it has not counted.
LEMMA FirstInLine ==
  ASSUME StoresOK, OrderKept, AppReceive
  PROVE  /\ Head(g_app_queue) \in Request /\ app_handle_message(Head(g_app_queue))
         /\ accepted[Handled + 1] = Head(g_app_queue)
         /\ Handled' = Handled + 1 /\ app = "receive" /\ Given' = Given
         /\ UNCHANGED <<accepted, actuation>>
<1> DEFINE m == Head(g_app_queue)
<1>0. /\ count \in [Counter -> Nat] /\ accepted \in Seq(Request) /\ Handled \in Nat
      /\ AcceptedCount \in Nat /\ Handled <= AcceptedCount
  BY Names, LenProperties DEF StoresOK, CountersOK, ParsingOK, OrderKept, AcceptedCount, Handled
<1>1. /\ app = "receive" /\ g_app_queue # << >> /\ app_handle_message(m)
      /\ UNCHANGED <<accepted, actuation, transmission>>
      /\ count' = [count EXCEPT !["rx"] = @ + 1]
  BY DEF AppReceive, Increment, upstream, parsing
<1>2. g_app_queue \in Seq(Request) /\ parsed \in Seq(Request) /\ m \in Request
  BY <1>1, HeadTailProperties DEF StoresOK, AppQueueOK, ParsingOK
<1>3. accepted[Handled + 1] = m
  <2>1. /\ g_app_queue \o parsed # << >> /\ Head(g_app_queue \o parsed) = m
    BY <1>1, <1>2, TailOfConcat
  <2>2. SubSeq(accepted, Handled + 1, Len(accepted)) = g_app_queue \o parsed
    BY DEF OrderKept, MessagesKeepTheirOrder, Handled
  <2>3. accepted[Handled + 1] = Head(SubSeq(accepted, Handled + 1, Len(accepted)))
    BY <1>0, <2>1, <2>2, RestShrinks DEF AcceptedCount
  <2> QED BY <2>1, <2>2, <2>3
<1>4. Handled' = Handled + 1
  BY <1>0, <1>1, Names DEF Handled
<1>5. Given' = Given
  BY <1>1 DEF Given, transmission
<1> QED BY <1>1, <1>2, <1>3, <1>4, <1>5

LEMMA NextMessage ==
  ASSUME Answering, AppReceive
  PROVE  /\ Head(g_app_queue) \in Request /\ app_handle_message(Head(g_app_queue))
         /\ accepted[Handled + 1] = Head(g_app_queue)
         /\ Handled' = Handled + 1 /\ app = "receive" /\ Given' = Given
         /\ UNCHANGED <<accepted, actuation>>
BY FirstInLine, TypeMeansStores DEF Answering

\* The rest of a queue.
LEMMA Shifted ==
  ASSUME NEW S, NEW s \in Seq(S), s # << >>
  PROVE  /\ Tail(s) \in Seq(S) /\ Len(Tail(s)) = Len(s) - 1
         /\ \A i \in 1 .. Len(Tail(s)) : Tail(s)[i] = s[i + 1]
BY HeadTailProperties

LEMMA CommandsKept ==
  Answering /\ CommandsInOrder /\ [Next]_vars => CommandsInOrder'
<1> SUFFICES ASSUME Answering, CommandsInOrder, [Next]_vars
             PROVE  CommandsInOrder'
  OBVIOUS
<1>0. /\ Handled \in Nat /\ AcceptedCount \in Nat /\ Handled <= AcceptedCount
      /\ accepted \in Seq(Request)
      /\ CommandsTaken \in Nat /\ CommandsTaken <= Handled
      /\ app # "command" => CommandsTaken = Handled
      /\ app = "command" => CommandsTaken + 1 = Handled
  BY Facts, CommandsTakenIsNatural
<1>1. /\ g_actuator_queue \in Seq(Action) /\ moved \in Nat /\ QueuedCount \in Nat
  BY LenProperties DEF Answering, TypeOK, ActuationOK, QueuedCount
<1>2. CASE Quiet
  <2>1. /\ app' = app /\ command' = command /\ Handled' = Handled /\ UNCHANGED actuation
        /\ accepted' = accepted
    BY <1>2 DEF Quiet, Handled, application
  <2>2. CommandsTaken' = CommandsTaken
    BY <2>1 DEF CommandsTaken
  <2> QED BY <2>1, <2>2, CommandsUndisturbed
<1>3. ASSUME NEW m \in Request, Accepts(m)
      PROVE  CommandsInOrder'
  <2>1. /\ app' = app /\ command' = command /\ Handled' = Handled /\ UNCHANGED actuation
        /\ accepted' = Append(accepted, m)
    BY <1>3 DEF Accepts, Handled, application
  <2>2. CommandsTaken' = CommandsTaken
    BY <2>1 DEF CommandsTaken
  <2>3. \A k \in 1 .. Len(accepted) : Append(accepted, m)[k] = accepted[k]
    BY <1>0, Appended
  <2>4. \A k \in 1 .. Handled : k \in 1 .. AcceptedCount
    BY <1>0
  <2>5. \A k \in 1 .. Handled : accepted'[k] = accepted[k]
    BY <2>1, <2>3, <2>4 DEF AcceptedCount
  <2> QED BY <2>1, <2>2, <2>5, CommandsUndisturbed
<1>4. CASE ReadCounter \/ SendReply
  <2>1. /\ UNCHANGED <<accepted, actuation, command>>
        /\ app # "command" /\ app' # "command"
        /\ count' = count \/ count' = [count EXCEPT !["ae"] = @ + 1]
    BY <1>4 DEF ReadCounter, SendReply, Increment, upstream, parsing
  <2>2. Handled' = Handled
    BY <2>1, Facts, Names DEF Handled
  <2>3. CommandsTaken' = CommandsTaken
    BY <2>1, <2>2 DEF CommandsTaken
  <2>4. CommandCount(accepted, CommandsTaken) = moved' + QueuedCount'
    BY <2>1 DEF CommandsInOrder, QueuedCount, actuation
  <2>5. \A i \in 1 .. QueuedCount : QueuedInOrder(i)'
    BY <2>1, <2>3 DEF CommandsInOrder, QueuedInOrder, actuation
  <2>6. QueuedCount' = QueuedCount /\ accepted' = accepted
    BY <2>1 DEF QueuedCount, actuation
  <2> QED BY <2>1, <2>3, <2>4, <2>5, <2>6 DEF CommandsInOrder
<1>5. CASE AppReceive
  <2> DEFINE m == Head(g_app_queue)
  <2>1. /\ m \in Request /\ app_handle_message(m) /\ accepted[Handled + 1] = m
        /\ Handled' = Handled + 1 /\ app = "receive"
        /\ accepted' = accepted /\ UNCHANGED actuation
    BY <1>5, NextMessage
  <2> HIDE DEF m
  <2>2. \/ app' # "command" /\ ~IsLed(m)
        \/ app' = "command" /\ IsLed(m) /\ command' = build_led_command(m.payload)
    BY <2>1, HandlingOfCommands
  <2>3. CommandsTaken = Handled /\ moved' = moved /\ g_actuator_queue' = g_actuator_queue
    BY <1>0, <2>1 DEF actuation
  <2>4. CommandsTaken' \in Nat /\ CommandsTaken <= CommandsTaken'
        /\ CommandCount(accepted, CommandsTaken') = CommandCount(accepted, CommandsTaken)
    <3>1. CASE app' = "command"
      <4>1. CommandsTaken' = (Handled + 1) - 1
        BY <2>1, <3>1 DEF CommandsTaken
      <4>2. CommandsTaken' = CommandsTaken
        BY <1>0, <2>3, <4>1
      <4> QED BY <1>0, <4>2
    <3>2. CASE app' # "command"
      <4>1. CommandsTaken' = CommandsTaken + 1
        BY <2>1, <2>3, <3>2 DEF CommandsTaken
      <4>2. ~IsLed(accepted[CommandsTaken + 1])
        BY <2>1, <2>2, <2>3, <3>2
      <4>3. CommandCount(accepted, CommandsTaken + 1) = CommandCount(accepted, CommandsTaken)
        BY <1>0, <4>2, NextCommand
      <4> QED BY <1>0, <4>1, <4>3
    <3> QED BY <3>1, <3>2
  <2>5. CommandCount(accepted', CommandsTaken') = moved' + QueuedCount'
    <3>1. CommandCount(accepted, CommandsTaken) = moved + QueuedCount
      BY DEF CommandsInOrder
    <3>2. QueuedCount' = QueuedCount
      BY <2>3 DEF QueuedCount
    <3> QED BY <2>1, <2>3, <2>4, <3>1, <3>2
  <2>6. ASSUME NEW i \in 1 .. QueuedCount
        PROVE  QueuedInOrder(i)'
    <3>1. PICK n \in 1 .. CommandsTaken :
                 /\ IsLed(accepted[n]) /\ CommandCount(accepted, n) = moved + i
                 /\ g_actuator_queue[i] = build_led_command(accepted[n].payload)
      BY DEF CommandsInOrder, QueuedInOrder
    <3>2. n \in 1 .. CommandsTaken'
      BY <1>0, <2>4
    <3> QED BY <2>1, <2>3, <3>1, <3>2 DEF QueuedInOrder
  <2>7. app' = "command" => /\ IsLed(accepted'[Handled'])
                            /\ command' = build_led_command(accepted'[Handled'].payload)
    BY <2>1, <2>2
  <2> QED BY <2>3, <2>5, <2>6, <2>7 DEF CommandsInOrder, QueuedCount
<1>6. CASE SendCommand
  <2>1. /\ app = "command" /\ app' = "send" /\ UNCHANGED <<count, accepted, moved>>
        /\ g_actuator_queue' = Append(g_actuator_queue, command)
    BY <1>6 DEF SendCommand, upstream, parsing
  <2>2. command \in Action
    BY <2>1 DEF Answering, TypeOK, ApplicationOK
  <2>3. Handled' = Handled /\ CommandsTaken' = CommandsTaken + 1
    <3>1. Handled' = Handled
      BY <2>1 DEF Handled
    <3>2. CommandsTaken' = Handled'
      BY <2>1 DEF CommandsTaken
    <3> QED BY <1>0, <2>1, <3>1, <3>2
  <2>4. IsLed(accepted[CommandsTaken + 1]) /\ command = build_led_command(accepted[CommandsTaken + 1].payload)
    BY <1>0, <2>1 DEF CommandsInOrder
  <2>5. CommandCount(accepted, CommandsTaken + 1) = CommandCount(accepted, CommandsTaken) + 1
    BY <1>0, <2>4, NextCommand
  <2>6. /\ QueuedCount' = QueuedCount + 1
        /\ \A i \in 1 .. QueuedCount : g_actuator_queue'[i] = g_actuator_queue[i]
        /\ g_actuator_queue'[QueuedCount + 1] = command
    <3>1. /\ Len(g_actuator_queue) + 1 = Len(Append(g_actuator_queue, command))
          /\ \A i \in 1 .. Len(g_actuator_queue) :
               Append(g_actuator_queue, command)[i] = g_actuator_queue[i]
          /\ Append(g_actuator_queue, command)[Len(g_actuator_queue) + 1] = command
      BY <1>1, <2>2, Appended
    <3> QED BY <2>1, <3>1 DEF QueuedCount
  <2>7. CommandCount(accepted, CommandsTaken) = moved + QueuedCount
    BY DEF CommandsInOrder
  <2>8. CommandCount(accepted, CommandsTaken + 1) = moved + (QueuedCount + 1)
    BY <1>1, <2>5, <2>7
  <2>9. ASSUME NEW i \in 1 .. QueuedCount + 1
        PROVE  QueuedInOrder(i)'
    <3>1. CASE i \in 1 .. QueuedCount
      <4>1. PICK n \in 1 .. CommandsTaken :
                   /\ IsLed(accepted[n]) /\ CommandCount(accepted, n) = moved + i
                   /\ g_actuator_queue[i] = build_led_command(accepted[n].payload)
        BY <3>1 DEF CommandsInOrder, QueuedInOrder
      <4>2. n \in 1 .. CommandsTaken'
        BY <1>0, <2>3
      <4>3. g_actuator_queue'[i] = g_actuator_queue[i]
        BY <2>6, <3>1
      <4> QED BY <2>1, <4>1, <4>2, <4>3 DEF QueuedInOrder
    <3>2. CASE i = QueuedCount + 1
      <4>1. CommandsTaken + 1 \in 1 .. CommandsTaken'
        BY <1>0, <2>3
      <4> QED BY <2>1, <2>4, <2>6, <2>8, <3>2, <4>1 DEF QueuedInOrder
    <3> QED BY <1>1, <3>1, <3>2
  <2> QED BY <2>1, <2>3, <2>6, <2>8, <2>9 DEF CommandsInOrder
<1>7. CASE ApplyCommand
  <2>1. /\ UNCHANGED <<count, accepted, app, command>> /\ moved' = moved + 1
        /\ g_actuator_queue' = Tail(g_actuator_queue) /\ g_actuator_queue # << >>
    BY <1>7 DEF ApplyCommand, ActuatorsReady, upstream, parsing, application
  <2>2. Handled' = Handled /\ CommandsTaken' = CommandsTaken
    BY <2>1 DEF Handled, CommandsTaken
  <2>3. /\ QueuedCount' = QueuedCount - 1
        /\ \A i \in 1 .. QueuedCount - 1 : g_actuator_queue'[i] = g_actuator_queue[i + 1]
    <3>1. /\ Tail(g_actuator_queue) \in Seq(Action)
          /\ Len(Tail(g_actuator_queue)) = Len(g_actuator_queue) - 1
          /\ \A i \in 1 .. Len(Tail(g_actuator_queue)) :
               Tail(g_actuator_queue)[i] = g_actuator_queue[i + 1]
      BY <1>1, <2>1, Shifted
    <3> QED BY <2>1, <3>1 DEF QueuedCount
  <2>4. CommandCount(accepted', CommandsTaken') = moved' + QueuedCount'
    <3>1. CommandCount(accepted, CommandsTaken) = moved + QueuedCount
      BY DEF CommandsInOrder
    <3> QED BY <1>1, <2>1, <2>2, <2>3, <3>1
  <2>5. ASSUME NEW i \in 1 .. QueuedCount - 1
        PROVE  QueuedInOrder(i)'
    <3>1. i + 1 \in 1 .. QueuedCount
      BY <1>1
    <3>2. PICK n \in 1 .. CommandsTaken :
                 /\ IsLed(accepted[n]) /\ CommandCount(accepted, n) = moved + (i + 1)
                 /\ g_actuator_queue[i + 1] = build_led_command(accepted[n].payload)
      BY <3>1 DEF CommandsInOrder, QueuedInOrder
    <3>3. moved + (i + 1) = moved' + i
      BY <1>1, <2>1
    <3>4. g_actuator_queue'[i] = g_actuator_queue[i + 1]
      BY <2>3
    <3>5. n \in 1 .. CommandsTaken' /\ IsLed(accepted'[n])
      BY <2>1, <2>2, <3>2
    <3>6. CommandCount(accepted', n) = moved' + i
      BY <2>1, <3>2, <3>3
    <3>7. g_actuator_queue'[i] = build_led_command(accepted'[n].payload)
      BY <2>1, <3>2, <3>4
    <3> QED BY <3>5, <3>6, <3>7 DEF QueuedInOrder
  <2>6. app' = "command" => /\ IsLed(accepted'[Handled'])
                            /\ command' = build_led_command(accepted'[Handled'].payload)
    BY <2>1, <2>2 DEF CommandsInOrder
  <2>7. \A i \in 1 .. QueuedCount' : QueuedInOrder(i)'
    BY <2>3, <2>5
  <2> QED BY <2>4, <2>6, <2>7 DEF CommandsInOrder
<1> QED BY Steps, <1>2, <1>3, <1>4, <1>5, <1>6, <1>7

LEMMA InitCommandsInOrder == Init => CommandsInOrder
<1> SUFFICES ASSUME Init PROVE CommandsInOrder
  OBVIOUS
<1>1. /\ g_actuator_queue = << >> /\ moved = 0 /\ app = "receive"
      /\ count = [c \in Counter |-> 0] /\ accepted = << >>
  BY DEF Init, NoCounts
<1>2. Handled = 0
  BY <1>1, Names DEF Handled
<1>3. CommandsTaken = 0 /\ QueuedCount = 0
  BY <1>1, <1>2, EmptySeq DEF CommandsTaken, QueuedCount
<1>4. CommandCount(accepted, 0) = 0
  <2>1. {k \in 1 .. 0 : IsLed(accepted[k])} = {}
    OBVIOUS
  <2> QED BY <2>1, FS_EmptySet DEF CommandCount
<1> QED BY <1>1, <1>3, <1>4 DEF CommandsInOrder

\* The answers are those given and the one task_app is about to give.
LEMMA AnswersOut ==
  ASSUME Answering
  PROVE  /\ Answers \in Seq(Answer)
         /\ app = "send" => /\ Len(Answers) = GivenCount + 1
                            /\ \A k \in 1 .. GivenCount : Answers[k] = Given[k]
                            /\ Answers[GivenCount + 1] = reply
         /\ app # "send" => Answers = Given /\ Len(Answers) = GivenCount
<1>1. Given \in Seq(Answer) /\ reply \in Answer
  BY Facts
<1>2. CASE app = "send"
  <2>1. Answers = Given \o <<reply>>
    BY <1>2 DEF Answers, Given
  <2>2. Answers = Append(Given, reply)
    BY <1>1, <2>1, AppendIsConcat
  <2>3. /\ Append(Given, reply) \in Seq(Answer)
        /\ Len(Given) + 1 = Len(Append(Given, reply))
        /\ \A k \in 1 .. Len(Given) : Append(Given, reply)[k] = Given[k]
        /\ Append(Given, reply)[Len(Given) + 1] = reply
    BY <1>1, Appended
  <2> QED BY <1>2, <2>2, <2>3 DEF GivenCount
<1>3. CASE app # "send"
  <2>1. Answers = Given \o << >>
    BY <1>3 DEF Answers, Given
  <2>2. Answers = Given
    BY <1>1, <2>1, ConcatEmptySeq
  <2> QED BY <1>1, <1>3, <2>2 DEF GivenCount
<1> QED BY <1>2, <1>3

\* The answers given reach no further than the messages served.
LEMMA AnswersAreServed ==
  ASSUME Answering
  PROVE  Len(Answers) \in Nat /\ Len(Answers) <= CommandsTaken
<1> DEFINE length == Len(Answers)
<1>0. GivenCount \in Nat /\ Handled \in Nat /\ CommandsTaken \in Nat
  BY Facts, CommandsTakenIsNatural
<1>1. /\ app \in {"receive", "command", "read counters", "send"}
      /\ app = "receive" => Handled = GivenCount
      /\ app # "receive" => Handled = GivenCount + 1
  BY Facts
<1>2. /\ app # "command" => CommandsTaken = Handled
      /\ app = "command" => CommandsTaken + 1 = Handled
  BY CommandsTakenIsNatural
<1>3. /\ app = "send" => length = GivenCount + 1
      /\ app # "send" => length = GivenCount
  BY AnswersOut
<1> SUFFICES length \in Nat /\ length <= CommandsTaken
  OBVIOUS
<1> HIDE DEF length
<1>4. CASE app = "send"
  <2>1. length = GivenCount + 1 /\ Handled = GivenCount + 1 /\ CommandsTaken = Handled
    BY <1>1, <1>2, <1>3, <1>4
  <2> QED BY <1>0, <2>1
<1>5. CASE app = "receive"
  <2>1. length = GivenCount /\ Handled = GivenCount /\ CommandsTaken = Handled
    BY <1>1, <1>2, <1>3, <1>5
  <2> QED BY <1>0, <2>1
<1>6. CASE app = "command"
  <2>1. length = GivenCount /\ Handled = GivenCount + 1 /\ CommandsTaken + 1 = Handled
    BY <1>1, <1>2, <1>3, <1>6
  <2> QED BY <1>0, <2>1
<1>7. CASE app = "read counters"
  <2>1. length = GivenCount /\ Handled = GivenCount + 1 /\ CommandsTaken = Handled
    BY <1>1, <1>2, <1>3, <1>7
  <2> QED BY <1>0, <2>1
<1> QED BY <1>1, <1>4, <1>5, <1>6, <1>7

\* "cmd=ok" is the answer to an LED command and to nothing else.
LEMMA OnlyCommandsAreAcknowledged ==
  ASSUME NEW m, Service!AnswerTo(m)[2] = "cmd=ok"
  PROVE  IsLed(m)
BY DEF Service!AnswerTo, Service!IsLedCommand, IsLed

LEMMA AcknowledgedCommands ==
  Answering /\ CommandsInOrder => AckNeverPrecedesCommand
<1> SUFFICES ASSUME Answering, CommandsInOrder PROVE AckNeverPrecedesCommand
  OBVIOUS
<1> DEFINE Acked == {k \in DOMAIN Answers : Answers[k].payload = "cmd=ok"}
           Led   == {k \in 1 .. CommandsTaken : IsLed(accepted[k])}
<1>1. Len(Answers) \in Nat /\ Len(Answers) <= CommandsTaken /\ CommandsTaken \in Nat
  BY AnswersAreServed, CommandsTakenIsNatural
<1>2. DOMAIN Answers = 1 .. Len(Answers)
  BY AnswersOut, LenProperties
<1>3. \A k \in DOMAIN Answers :
         <<Answers[k].type, Answers[k].payload>> = Service!AnswerTo(accepted[k])
  BY AnsweredMeansMatched DEF Answering, AnswersMatchRequests
<1>4. Acked \subseteq Led
  <2> SUFFICES ASSUME NEW k \in DOMAIN Answers, Answers[k].payload = "cmd=ok"
               PROVE  k \in Led
    OBVIOUS
  <2>1. k \in 1 .. CommandsTaken
    BY <1>1, <1>2
  <2>2. Service!AnswerTo(accepted[k])[2] = "cmd=ok"
    BY <1>3
  <2> QED BY <2>1, <2>2, OnlyCommandsAreAcknowledged
<1>5. IsFiniteSet(Led)
  <2>1. IsFiniteSet(1 .. CommandsTaken)
    BY <1>1, FS_Interval
  <2> QED BY <2>1, FS_Subset
<1>6. Cardinality(Acked) <= Cardinality(Led)
  BY <1>4, <1>5, FS_Subset
<1>7. Cardinality(Led) = moved + Len(g_actuator_queue)
  BY DEF CommandsInOrder, CommandCount, QueuedCount
<1> HIDE DEF Led
<1> QED BY <1>6, <1>7 DEF AckNeverPrecedesCommand

\* No "cmd=ok" is given for a command that task_actuators was not handed, for
\* any requests, any lengths of the queues and any order of the tasks.
THEOREM AcksAreEarned == Spec => []AckNeverPrecedesCommand
<1> DEFINE IInv == Answering /\ CommandsInOrder
<1>1. Init => IInv
  BY AnsweringHolds, InitCommandsInOrder
<1>2. IInv /\ [Next]_vars => IInv'
  BY AnsweringKept, CommandsKept
<1>3. IInv => AckNeverPrecedesCommand
  BY AcknowledgedCommands
<1> QED BY <1>1, <1>2, <1>3, PTL DEF Spec

-----------------------------------------------------------------------------
(* The pipeline implements Board: the steps of the parser that deliver a    *)
(* message are its Receive, the sending of a frame its Answer, the moving   *)
(* of the LED its MoveLed, and every other step leaves it where it was.     *)

\* Board's view of the line.
Shown(w) == [k \in DOMAIN w |-> Pair(w[k])]
Lit      == IF pc13 = 0 THEN "on" ELSE "off"

LEMMA ShownIsSequence ==
  ASSUME NEW w \in Seq(Answer)
  PROVE  /\ Shown(w) \in Seq(ReplyType \X ReplyText) /\ Len(Shown(w)) = Len(w)
         /\ \A k \in 1 .. Len(w) : Shown(w)[k] = Pair(w[k])
<1>1. \A b \in Answer : Pair(b) \in ReplyType \X ReplyText
  BY DEF Pair, Answer
<1>2. /\ Len(w) \in Nat /\ DOMAIN w = 1 .. Len(w)
      /\ \A k \in 1 .. Len(w) : w[k] \in Answer
  BY LenProperties, ElementOfSeq
<1>3. \A k \in 1 .. Len(w) : Pair(w[k]) \in ReplyType \X ReplyText
  BY <1>1, <1>2
<1>4. Shown(w) = [k \in 1 .. Len(w) |-> Pair(w[k])]
  BY <1>2 DEF Shown
<1>5. Shown(w) \in [1 .. Len(w) -> ReplyType \X ReplyText]
  BY <1>3, <1>4
<1>6. ASSUME NEW n \in Nat, NEW T, NEW f \in [1 .. n -> T]
      PROVE  f \in Seq(T) /\ Len(f) = n
  OBVIOUS
<1>7. Shown(w) \in Seq(ReplyType \X ReplyText) /\ Len(Shown(w)) = Len(w)
  BY <1>2, <1>5, <1>6
<1> QED BY <1>4, <1>7

LEMMA ShownGrows ==
  ASSUME NEW w \in Seq(Answer), NEW a \in Answer
  PROVE  Shown(Append(w, a)) = Append(Shown(w), Pair(a))
<1> DEFINE T == ReplyType \X ReplyText
           v == Append(w, a)
           s == Append(Shown(w), Pair(a))
<1>1. /\ v \in Seq(Answer) /\ Len(w) \in Nat /\ Len(w) + 1 = Len(v)
      /\ \A i \in 1 .. Len(w) : v[i] = w[i]
      /\ v[Len(w) + 1] = a
  BY Appended
<1>2. /\ Shown(w) \in Seq(T) /\ Len(Shown(w)) = Len(w)
      /\ \A k \in 1 .. Len(w) : Shown(w)[k] = Pair(w[k])
  BY ShownIsSequence
<1>3. /\ Shown(v) \in Seq(T) /\ Len(Shown(v)) = Len(v)
      /\ \A k \in 1 .. Len(v) : Shown(v)[k] = Pair(v[k])
  BY <1>1, ShownIsSequence
<1>4. Pair(a) \in T
  BY DEF Pair, Answer
<1> HIDE DEF T
<1>5. /\ s \in Seq(T) /\ Len(Shown(w)) + 1 = Len(s)
      /\ \A i \in 1 .. Len(Shown(w)) : s[i] = Shown(w)[i]
      /\ s[Len(Shown(w)) + 1] = Pair(a)
  BY <1>2, <1>4, Appended
<1> HIDE DEF s, v
<1>6. Len(Shown(v)) = Len(s)
  BY <1>1, <1>2, <1>3, <1>5
<1>7. \A i \in 1 .. Len(Shown(v)) : Shown(v)[i] = s[i]
  <2> SUFFICES ASSUME NEW i \in 1 .. Len(v)
               PROVE  Shown(v)[i] = s[i]
    BY <1>3
  <2>1. CASE i = Len(w) + 1
    BY <1>1, <1>2, <1>3, <1>5, <2>1
  <2>2. CASE i # Len(w) + 1
    <3>1. i \in 1 .. Len(w)
      BY <1>1, <2>2
    <3>2. Shown(v)[i] = Pair(w[i])
      BY <1>1, <1>3, <3>1
    <3> QED BY <1>2, <1>5, <3>1, <3>2
  <2> QED BY <2>1, <2>2
<1>8. Shown(v) = s
  BY <1>3, <1>5, <1>6, <1>7, SeqEqual
<1> QED BY <1>8 DEF s, v

\* A frame that has been sent is the next answer.
LEMMA SendingAnswers ==
  ASSUME Answering, TxSend
  PROVE  Service!Answer
<1>1. /\ sending # << >> /\ wire' = wire \o sending
      /\ UNCHANGED <<accepted, pc13, moved>>
  BY DEF TxSend, upstream, parsing, actuation
<1>2. /\ wire \in Seq(Answer) /\ sending \in Seq(Answer) /\ Len(sending) <= 1
      /\ g_uart_tx_queue \in Seq(Answer)
  BY DEF Answering, TypeOK, TransmissionOK
<1> DEFINE a == sending[1]
           n == Len(wire)
<1>3. n \in Nat /\ Len(sending) = 1
  <2>1. n \in Nat /\ Len(sending) \in Nat
    BY <1>2, LenProperties
  <2>2. Len(sending) \in Nat \ {0}
    BY <1>1, <1>2, EmptySeq
  <2> DEFINE l == Len(sending)
  <2>3. l <= 1 /\ l \in Nat \ {0}
    BY <1>2, <2>2
  <2> HIDE DEF l
  <2>4. l = 1
    BY <2>3
  <2> QED BY <2>1, <2>4 DEF l
<1>4. a \in Answer
  BY <1>2, <1>3, ElementOfSeq
<1>5. /\ wire \o sending \in Seq(Answer) /\ Len(wire \o sending) = n + 1
      /\ \A i \in 1 .. n + 1 : (wire \o sending)[i] = IF i <= n THEN wire[i] ELSE sending[i - n]
  <2>1. /\ wire \o sending \in Seq(Answer) /\ Len(wire \o sending) = n + Len(sending)
        /\ \A i \in 1 .. n + Len(sending) :
             (wire \o sending)[i] = IF i <= n THEN wire[i] ELSE sending[i - n]
    BY <1>2, ConcatProperties
  <2> QED BY <1>3, <2>1
<1>6. (wire \o sending)[n + 1] = a
  <2>1. n + 1 \in 1 .. n + 1 /\ ~(n + 1 <= n) /\ (n + 1) - n = 1
    BY <1>3
  <2> QED BY <1>5, <2>1
<1>7. wire' = Append(wire, a)
  <2>1. /\ Append(wire, a) \in Seq(Answer) /\ n + 1 = Len(Append(wire, a))
        /\ \A i \in 1 .. n : Append(wire, a)[i] = wire[i]
        /\ Append(wire, a)[n + 1] = a
    BY <1>2, <1>4, Appended
  <2>2. \A i \in 1 .. n + 1 : (i \in 1 .. n /\ i <= n) \/ i = n + 1
    BY <1>3
  <2>3. \A i \in 1 .. n + 1 : (wire \o sending)[i] = Append(wire, a)[i]
    BY <1>5, <1>6, <2>1, <2>2
  <2>4. wire \o sending = Append(wire, a)
    BY <1>5, <2>1, <2>3, SeqEqual
  <2> QED BY <1>1, <2>4
<1>8. n + 1 <= GivenCount /\ Given[n + 1] = a
  <2>1. /\ Len(Given) = (n + 1) + Len(g_uart_tx_queue)
        /\ \A i \in 1 .. (n + 1) + Len(g_uart_tx_queue) :
             Given[i] = IF i <= n + 1 THEN (wire \o sending)[i] ELSE g_uart_tx_queue[i - (n + 1)]
    BY <1>2, <1>5, ConcatProperties DEF Given
  <2>2. Len(g_uart_tx_queue) \in Nat
    BY <1>2, LenProperties
  <2>3. n + 1 \in 1 .. (n + 1) + Len(g_uart_tx_queue) /\ n + 1 <= n + 1
    BY <1>3, <2>2
  <2>4. Given[n + 1] = a
    BY <1>6, <2>1, <2>3
  <2>5. n + 1 <= (n + 1) + Len(g_uart_tx_queue)
    BY <1>3, <2>2
  <2> QED BY <2>1, <2>4, <2>5 DEF GivenCount
<1> HIDE DEF a, n
<1>9. Pair(a) = Service!AnswerTo(accepted[n + 1]) /\ n < AcceptedCount
  <2>1. GivenCount \in Nat /\ Handled \in Nat /\ AcceptedCount \in Nat
    BY Facts
  <2>2. n + 1 \in 1 .. GivenCount
    BY <1>3, <1>8, <2>1
  <2>3. Pair(Given[n + 1]) = Service!AnswerTo(accepted[n + 1])
    BY <2>2 DEF Answering, AnsweredSoFar
  <2>4. GivenCount <= Handled /\ Handled <= AcceptedCount
    <3>1. app = "receive" => Handled = GivenCount
      BY Facts
    <3>2. app # "receive" => Handled = GivenCount + 1
      BY Facts
    <3>3. Handled <= AcceptedCount
      BY Facts
    <3> QED BY <2>1, <3>1, <3>2, <3>3
  <2>5. n < AcceptedCount
    BY <1>3, <1>8, <2>1, <2>4
  <2> QED BY <1>8, <2>3, <2>5
<1>10. /\ Shown(wire)' = Append(Shown(wire), Service!AnswerTo(accepted[Len(Shown(wire)) + 1]))
       /\ Len(Shown(wire)) < Len(accepted)
  <2>1. Shown(Append(wire, a)) = Append(Shown(wire), Pair(a))
    BY <1>2, <1>4, ShownGrows
  <2>2. Len(Shown(wire)) = n
    BY <1>2, ShownIsSequence DEF n
  <2>3. Shown(wire)' = Shown(Append(wire, a))
    BY <1>7 DEF Shown
  <2> QED BY <1>9, <2>1, <2>2, <2>3 DEF AcceptedCount
<1> QED BY <1>1, <1>10 DEF Service!Answer, Shown, Pair

\* Board counts as this module does.
LEMMA SameCardinality == \A S : Service!Cardinality(S) = Cardinality(S)
BY DEF Service!Cardinality, Cardinality

\* A command that is applied is the next LED command.
LEMMA ApplyingMovesLed ==
  ASSUME Answering, CommandsInOrder, ApplyCommand
  PROVE  Service!MoveLed
<1> DEFINE action == Head(g_actuator_queue)
<1>1. /\ g_actuator_queue # << >> /\ UNCHANGED <<accepted, wire>> /\ moved' = moved + 1
      /\ actuators_apply_command(action)
  BY DEF ApplyCommand, ActuatorsReady, upstream, parsing, transmission
<1>2. /\ g_actuator_queue \in Seq(Action) /\ pc13 \in {0, 1} /\ moved \in Nat
  BY DEF Answering, TypeOK, ActuationOK
<1>3. 1 \in 1 .. QueuedCount /\ action = g_actuator_queue[1]
  <2>1. Len(g_actuator_queue) \in Nat \ {0}
    BY <1>1, <1>2, EmptySeq
  <2> QED BY <1>1, <1>2, <2>1, HeadTailProperties DEF QueuedCount
<1> HIDE DEF action
<1>4. PICK n \in 1 .. CommandsTaken : /\ IsLed(accepted[n]) /\ CommandCount(accepted, n) = moved + 1
                               /\ g_actuator_queue[1] = build_led_command(accepted[n].payload)
  BY <1>3 DEF CommandsInOrder, QueuedInOrder
<1>5. n \in DOMAIN accepted
  <2>1. DOMAIN accepted = 1 .. AcceptedCount
    BY LenProperties DEF Answering, TypeOK, ParsingOK, AcceptedCount
  <2>2. /\ CommandsTaken \in Nat /\ CommandsTaken <= Handled /\ Handled <= AcceptedCount
        /\ Handled \in Nat /\ AcceptedCount \in Nat
    BY Facts, CommandsTakenIsNatural
  <2> QED BY <2>1, <2>2
<1>6. Lit' = Service!After(accepted[n].payload)
  <2> DEFINE p == accepted[n].payload
  <2>1. p \in {"led=on", "led=off", "led=toggle"} /\ action = build_led_command(p)
    BY <1>3, <1>4 DEF IsLed, Service!IsLedCommand
  <2>2. CASE p = "led=on"
    <3>1. action = "on"
      BY <2>1, <2>2 DEF build_led_command
    <3>2. pc13' = 0
      BY <1>1, <3>1 DEF actuators_apply_command
    <3> QED BY <2>2, <3>2 DEF Lit, Service!After
  <2>3. CASE p = "led=off"
    <3>1. action = "off"
      BY <2>1, <2>3 DEF build_led_command
    <3>2. pc13' = 1
      BY <1>1, <3>1 DEF actuators_apply_command
    <3> QED BY <2>3, <3>2 DEF Lit, Service!After
  <2>4. CASE p = "led=toggle"
    <3>1. action = "toggle"
      BY <2>1, <2>4 DEF build_led_command
    <3>2. pc13' = 1 - pc13
      BY <1>1, <3>1 DEF actuators_apply_command
    <3>3. Service!After(p) = IF Lit = "on" THEN "off" ELSE "on"
      BY <2>4 DEF Lit, Service!After
    <3>4. CASE pc13 = 0
      BY <3>2, <3>3, <3>4 DEF Lit
    <3>5. CASE pc13 = 1
      BY <3>2, <3>3, <3>5 DEF Lit
    <3> QED BY <1>2, <3>4, <3>5
  <2> QED BY <2>1, <2>2, <2>3, <2>4
<1>7. Cardinality(Service!LedCommands(n)) = moved + 1 /\ Service!IsLedCommand(accepted[n])
  BY <1>4 DEF Service!LedCommands, CommandCount, IsLed
<1>8. [k \in DOMAIN wire |-> <<wire[k].type, wire[k].payload>>]'
        = [k \in DOMAIN wire |-> <<wire[k].type, wire[k].payload>>]
  BY <1>1
<1>9. (IF pc13 = 0 THEN "on" ELSE "off")' = Service!After(accepted[n].payload)
  BY <1>6 DEF Lit
<1> QED BY <1>1, <1>5, <1>7, <1>8, <1>9, SameCardinality DEF Service!MoveLed

LEMMA InitOfService == Init => Service!Init
<1> SUFFICES ASSUME Init PROVE Service!Init
  OBVIOUS
<1>1. accepted = << >> /\ wire = << >> /\ pc13 = 1 /\ moved = 0
  BY DEF Init
<1>2. Shown(<< >>) = << >>
  <2>1. << >> \in Seq(Answer) /\ Len(<< >>) = 0
    BY EmptySeq
  <2>2. Shown(<< >>) \in Seq(ReplyType \X ReplyText) /\ Len(Shown(<< >>)) = 0
    BY <2>1, ShownIsSequence
  <2> QED BY <2>2, EmptySeq
<1> QED BY <1>1, <1>2 DEF Service!Init, Shown, Pair

\* A step of the pipeline is a step of Board, or leaves Board where it was.
LEMMA StepsOfService ==
  ASSUME Answering, CommandsInOrder, [Next]_vars
  PROVE  [Service!Next]_(Service!vars)
<1>1. CASE TxSend
  BY <1>1, SendingAnswers DEF Service!Next
<1>2. CASE ApplyCommand
  BY <1>2, ApplyingMovesLed DEF Service!Next
<1>3. CASE ~TxSend /\ ~ApplyCommand
  <2>1. wire' = wire
    <3>1. CASE \/ StartScheduler \/ usart1_isr \/ RxReceive \/ RxSend
               \/ ParserReceive \/ ParserSend \/ IdleTask \/ UNCHANGED vars
      BY <3>1 DEF StartScheduler, usart1_isr, RxReceive, RxSend, ParserReceive, ParserSend, IdleTask,
                  vars, downstream, transmission
    <3>2. CASE AppReceive \/ ReadCounter \/ SendCommand \/ SendReply \/ TxReceive
      BY <3>2 DEF AppReceive, ReadCounter, SendCommand, SendReply, TxReceive, transmission
    <3> QED BY <1>3, <3>1, <3>2 DEF Next
  <2>2. [k \in DOMAIN wire |-> <<wire[k].type, wire[k].payload>>]'
          = [k \in DOMAIN wire |-> <<wire[k].type, wire[k].payload>>]
    BY <2>1
  <2>3. CASE Quiet
    <3>1. UNCHANGED <<accepted, pc13, moved>>
      BY <2>3 DEF Quiet, actuation
    <3> QED BY <2>2, <3>1 DEF Service!vars
  <2>4. ASSUME NEW m \in Request, Accepts(m)
        PROVE  [Service!Next]_(Service!vars)
    <3>1. UNCHANGED <<pc13, moved>> /\ accepted' = Append(accepted, m)
      BY <2>4 DEF Accepts, actuation
    <3>2. Service!Receive
      BY <2>2, <3>1 DEF Service!Receive
    <3> QED BY <3>2 DEF Service!Next
  <2>5. CASE AppReceive \/ ReadCounter \/ SendCommand \/ SendReply
    <3>1. UNCHANGED <<accepted, pc13, moved>>
      BY <2>5 DEF AppReceive, ReadCounter, SendCommand, SendReply, upstream, parsing, actuation
    <3> QED BY <2>2, <3>1 DEF Service!vars
  <2> QED BY <1>3, <2>3, <2>4, <2>5, Steps
<1> QED BY <1>1, <1>2, <1>3

\* Without its fairness, the service of Board is implemented: what the firmware
\* sends and does with the LED is always something Board allows.
THEOREM ImplementsBoard == Spec => Service!Safety
<1> DEFINE IInv == Answering /\ CommandsInOrder
<1>1. Init => IInv /\ Service!Init
  BY AnsweringHolds, InitCommandsInOrder, InitOfService
<1>2. IInv /\ [Next]_vars => IInv'
  BY AnsweringKept, CommandsKept
<1>3. IInv /\ [Next]_vars => [Service!Next]_(Service!vars)
  BY StepsOfService
<1> QED BY <1>1, <1>2, <1>3, PTL DEF Spec, Service!Safety

-----------------------------------------------------------------------------
(* The reports.  A report was true when it was made, and no counter goes    *)
(* back; the one task_app is making is true as far as it has come.          *)

\* The errors among the first n answers of a sequence.
ErrorCount(s, n) == Cardinality({k \in 1 .. n : s[k].type = "ERR"})

\* What ReportsAreCoherent says of the k-th answer.
Coherent(s, k) == s[k].type = "STS" =>
  /\ s[k].counts["rx"] = k /\ s[k].counts["ae"] = ErrorCount(s, k - 1)
  /\ k <= s[k].counts["pm"]
  /\ \A j \in 1 .. k - 1 : s[j].type = "STS" =>
       \A c \in Counter : s[j].counts[c] <= s[k].counts[c]

ReportsGiven ==
  \A k \in 1 .. GivenCount :
    /\ Coherent(Given, k)
    /\ Given[k].type = "STS" => \A c \in Counter : Given[k].counts[c] <= count[c]

\* The counters task_app has read so far.
Read == Counter \ unread

ReportInTheMaking ==
  app \in {"read counters", "send"} /\ reply.type = "STS" =>
    /\ reply.counts["rx"] = Handled /\ reply.counts["ae"] = count["ae"]
    /\ "pm" \in Read => Handled <= reply.counts["pm"]
    /\ \A c \in Read : reply.counts[c] <= count[c]
    /\ \A j \in 1 .. GivenCount : Given[j].type = "STS" =>
         \A c \in Read : Given[j].counts[c] <= reply.counts[c]

ReadInOrder ==
  /\ "rx" \in Read /\ "ae" \in Read
  /\ app # "read counters" => unread = {}

Counts ==
  /\ count["pm"] = AcceptedCount
  /\ count["ae"] = ErrorCount(Given, GivenCount)

Reporting == ReportsGiven /\ ReportInTheMaking /\ ReadInOrder /\ Counts

LEMMA NextError ==
  ASSUME NEW s, NEW n \in Nat
  PROVE  /\ ErrorCount(s, n) \in Nat
         /\ s[n + 1].type = "ERR" => ErrorCount(s, n + 1) = ErrorCount(s, n) + 1
         /\ s[n + 1].type # "ERR" => ErrorCount(s, n + 1) = ErrorCount(s, n)
<1> DEFINE S == {k \in Nat : s[k].type = "ERR"}
<1>1. \A i \in Nat : {k \in 1 .. i : k \in S} = {k \in 1 .. i : s[k].type = "ERR"}
  OBVIOUS
<1>2. n + 1 \in Nat /\ (n + 1 \in S <=> s[n + 1].type = "ERR")
  OBVIOUS
<1> HIDE DEF S
<1>3. /\ Cardinality({k \in 1 .. n : k \in S}) \in Nat
      /\ n + 1 \in S => Cardinality({k \in 1 .. n + 1 : k \in S})
                          = Cardinality({k \in 1 .. n : k \in S}) + 1
      /\ n + 1 \notin S => {k \in 1 .. n + 1 : k \in S} = {k \in 1 .. n : k \in S}
  BY CountUpTo
<1>4. /\ {k \in 1 .. n : k \in S} = {k \in 1 .. n : s[k].type = "ERR"}
      /\ {k \in 1 .. n + 1 : k \in S} = {k \in 1 .. n + 1 : s[k].type = "ERR"}
  BY <1>1, <1>2
<1> QED BY <1>2, <1>3, <1>4 DEF ErrorCount

\* Only the first n answers count.
LEMMA SameErrors ==
  ASSUME NEW s, NEW t, NEW n \in Nat, \A k \in 1 .. n : s[k] = t[k]
  PROVE  ErrorCount(s, n) = ErrorCount(t, n)
<1>1. {k \in 1 .. n : s[k].type = "ERR"} = {k \in 1 .. n : t[k].type = "ERR"}
  OBVIOUS
<1> QED BY <1>1 DEF ErrorCount

LEMMA StaysCoherent ==
  ASSUME NEW s, NEW t, NEW n \in Nat, \A i \in 1 .. n : s[i] = t[i],
         NEW k \in 1 .. n, Coherent(s, k)
  PROVE  Coherent(t, k)
<1>1. k - 1 \in Nat /\ \A i \in 1 .. k - 1 : i \in 1 .. n
  OBVIOUS
<1>2. s[k] = t[k] /\ \A i \in 1 .. k - 1 : s[i] = t[i]
  BY <1>1
<1>3. ErrorCount(s, k - 1) = ErrorCount(t, k - 1)
  BY <1>1, <1>2, SameErrors
<1> QED BY <1>2, <1>3 DEF Coherent

\* The report task_app is about to send is coherent with those given.
LEMMA NextReport ==
  ASSUME Answering, Reporting, app = "send",
         NEW t, \A i \in 1 .. GivenCount : t[i] = Given[i], t[GivenCount + 1] = reply
  PROVE  /\ Coherent(t, GivenCount + 1)
         /\ reply.type = "STS" => \A c \in Counter : reply.counts[c] <= count[c]
<1>1. GivenCount \in Nat /\ Handled = GivenCount + 1
  BY Facts
<1>2. Read = Counter /\ "pm" \in Counter
  BY Names DEF Reporting, ReadInOrder, Read
<1> SUFFICES ASSUME reply.type = "STS"
             PROVE  /\ Coherent(t, GivenCount + 1)
                    /\ \A c \in Counter : reply.counts[c] <= count[c]
  BY DEF Coherent
<1>3. /\ reply.counts["rx"] = Handled /\ reply.counts["ae"] = count["ae"]
      /\ Handled <= reply.counts["pm"]
      /\ \A c \in Counter : reply.counts[c] <= count[c]
      /\ \A j \in 1 .. GivenCount : Given[j].type = "STS" =>
           \A c \in Counter : Given[j].counts[c] <= reply.counts[c]
  BY <1>2 DEF Reporting, ReportInTheMaking
<1>4. count["ae"] = ErrorCount(t, GivenCount)
  <2>1. count["ae"] = ErrorCount(Given, GivenCount)
    BY DEF Reporting, Counts
  <2>2. ErrorCount(Given, GivenCount) = ErrorCount(t, GivenCount)
    BY <1>1, SameErrors
  <2> QED BY <2>1, <2>2
<1>5. (GivenCount + 1) - 1 = GivenCount
  BY <1>1
<1>6. \A j \in 1 .. GivenCount : t[j].type = "STS" =>
        \A c \in Counter : t[j].counts[c] <= t[GivenCount + 1].counts[c]
  BY <1>3
<1> QED BY <1>1, <1>3, <1>4, <1>5, <1>6 DEF Coherent

\* Every counter only grows, and only SendReply gives an answer.
LEMMA CountersGrow ==
  ASSUME Answering, [Next]_vars
  PROVE  /\ Grows
         /\ SendReply \/ Given' = Given
<1>0. count \in [Counter -> Nat] /\ count' \in [Counter -> Nat]
  BY AnsweringKept, NextTypeOK DEF Answering, TypeOK, CountersOK
<1>1. CASE Quiet \/ \E m \in Request : Accepts(m)
  BY <1>1 DEF Quiet, Accepts
<1>2. CASE AppReceive
  <2>1. count' = [count EXCEPT !["rx"] = @ + 1]
    BY <1>2 DEF AppReceive, Increment
  <2>2. Grows
    BY <1>0, <2>1, CountingGrows, Names
  <2> QED BY <1>2, <2>2, NextMessage
<1>3. CASE ReadCounter \/ SendCommand \/ ApplyCommand
  <2>1. UNCHANGED <<count, transmission>>
    BY <1>3 DEF ReadCounter, SendCommand, ApplyCommand
  <2>2. Given' = Given
    BY <2>1 DEF Given, transmission
  <2>3. Grows
    BY <1>0, <2>1 DEF Grows
  <2> QED BY <2>2, <2>3
<1>4. CASE SendReply
  <2>1. count' = count \/ count' = [count EXCEPT !["ae"] = @ + 1]
    BY <1>4 DEF SendReply, Increment
  <2>2. CASE count' = count
    BY <1>0, <1>4, <2>2 DEF Grows
  <2>3. CASE count' = [count EXCEPT !["ae"] = @ + 1]
    BY <1>0, <1>4, <2>3, CountingGrows, Names
  <2> QED BY <2>1, <2>2, <2>3
<1> QED BY <1>1, <1>2, <1>3, <1>4, Steps

LEMMA InitReporting == Init => Reporting
<1> SUFFICES ASSUME Init PROVE Reporting
  OBVIOUS
<1>1. /\ wire = << >> /\ sending = << >> /\ g_uart_tx_queue = << >> /\ app = "receive"
      /\ count = [c \in Counter |-> 0] /\ accepted = << >> /\ unread = {}
  BY DEF Init, NoCounts
<1>2. Given = << >>
  BY <1>1, ConcatEmptySeq, EmptySeq DEF Given
<1>3. GivenCount = 0 /\ AcceptedCount = 0
  BY <1>1, <1>2, EmptySeq DEF GivenCount, AcceptedCount
<1>4. count["pm"] = 0 /\ count["ae"] = 0
  BY <1>1, Names
<1>5. ErrorCount(Given, 0) = 0
  <2>1. {k \in 1 .. 0 : Given[k].type = "ERR"} = {}
    OBVIOUS
  <2> QED BY <2>1, FS_EmptySet DEF ErrorCount
<1>6. Counts
  BY <1>3, <1>4, <1>5 DEF Counts
<1>7. ReadInOrder /\ ReportInTheMaking
  BY <1>1, Names DEF ReadInOrder, ReportInTheMaking, Read
<1>8. ReportsGiven
  BY <1>3 DEF ReportsGiven
<1> QED BY <1>6, <1>7, <1>8 DEF Reporting

LEMMA CountsKept ==
  ASSUME Answering, Reporting, [Next]_vars
  PROVE  Counts'
<1>0. /\ count \in [Counter -> Nat] /\ GivenCount \in Nat
      /\ Given \in Seq(Answer) /\ reply \in Answer /\ accepted \in Seq(Request)
  BY Facts
<1>1. count["pm"] = AcceptedCount /\ count["ae"] = ErrorCount(Given, GivenCount)
  BY DEF Reporting, Counts
<1>2. CASE Quiet
  BY <1>1, <1>2 DEF Quiet, Counts, GivenCount, AcceptedCount
<1>3. ASSUME NEW m \in Request, Accepts(m)
      PROVE  Counts'
  <2>1. AcceptedCount' = AcceptedCount + 1
    BY <1>0, <1>3, Appended DEF Accepts, AcceptedCount
  <2> QED BY <1>1, <1>3, <2>1 DEF Accepts, Counts, GivenCount
<1>4. CASE AppReceive \/ ReadCounter \/ SendCommand \/ ApplyCommand
  <2>1. /\ accepted' = accepted
        /\ count' = count \/ count' = [count EXCEPT !["rx"] = @ + 1]
    BY <1>4 DEF AppReceive, ReadCounter, SendCommand, ApplyCommand, Increment, upstream, parsing
  <2>2. count'["pm"] = count["pm"] /\ count'["ae"] = count["ae"]
    BY <1>0, <2>1, Names
  <2>3. Given' = Given
    <3>1. CASE AppReceive
      BY <3>1, NextMessage
    <3>2. CASE ReadCounter \/ SendCommand \/ ApplyCommand
      BY <3>2 DEF ReadCounter, SendCommand, ApplyCommand, transmission, Given
    <3> QED BY <1>4, <3>1, <3>2
  <2> QED BY <1>1, <2>1, <2>2, <2>3 DEF Counts, GivenCount, AcceptedCount
<1>5. CASE SendReply
  <2>1. /\ accepted' = accepted
        /\ \/ reply.type = "ERR" /\ count' = [count EXCEPT !["ae"] = @ + 1]
           \/ reply.type # "ERR" /\ count' = count
    BY <1>5 DEF SendReply, Increment, upstream, parsing
  <2>2. Given' = Append(Given, reply)
    BY <1>5, QueuedReplyIsGiven DEF Answering
  <2>3. /\ GivenCount' = GivenCount + 1 /\ Given'[GivenCount + 1] = reply
        /\ \A k \in 1 .. GivenCount : Given'[k] = Given[k]
    BY <1>0, <2>2, Appended DEF GivenCount
  <2>4. ErrorCount(Given', GivenCount) = count["ae"]
    BY <1>0, <1>1, <2>3, SameErrors
  <2>5. count'["pm"] = AcceptedCount'
    BY <1>0, <1>1, <2>1, Names DEF AcceptedCount
  <2>6. CASE reply.type = "ERR"
    <3>1. ErrorCount(Given', GivenCount + 1) = count["ae"] + 1
      BY <1>0, <2>3, <2>4, <2>6, NextError
    <3>2. count'["ae"] = count["ae"] + 1
      BY <1>0, <2>1, <2>6, Names
    <3> QED BY <2>3, <2>5, <3>1, <3>2 DEF Counts
  <2>7. CASE reply.type # "ERR"
    <3>1. ErrorCount(Given', GivenCount + 1) = count["ae"]
      BY <1>0, <2>3, <2>4, <2>7, NextError
    <3>2. count'["ae"] = count["ae"]
      BY <2>1, <2>7
    <3> QED BY <2>3, <2>5, <3>1, <3>2 DEF Counts
  <2> QED BY <2>6, <2>7
<1> QED BY <1>2, <1>3, <1>4, <1>5, Steps

\* A report that was coherent stays so, and the one being sent joins them.
LEMMA ReportsGivenKept ==
  ASSUME Answering, Reporting, [Next]_vars
  PROVE  ReportsGiven'
<1>0. /\ count \in [Counter -> Nat] /\ count' \in [Counter -> Nat]
      /\ GivenCount \in Nat /\ Given \in Seq(Answer) /\ reply \in Answer
  BY Facts, AnsweringKept, NextTypeOK DEF Answering, TypeOK, CountersOK
<1>1. \A k \in 1 .. GivenCount : Given[k] \in Answer
  BY <1>0, ElementOfSeq DEF GivenCount
<1>2. ASSUME NEW a \in Answer, \A c \in Counter : a.counts[c] <= count[c]
      PROVE  \A c \in Counter : a.counts[c] <= count'[c]
  <2> SUFFICES ASSUME NEW c \in Counter PROVE a.counts[c] <= count'[c]
    OBVIOUS
  <2>1. a.counts[c] \in Nat /\ count[c] \in Nat /\ count'[c] \in Nat
    BY <1>0 DEF Answer
  <2>2. a.counts[c] <= count[c] /\ count[c] <= count'[c]
    BY <1>2, CountersGrow DEF Grows
  <2> QED BY <2>1, <2>2
<1>3. CASE Given' = Given
  <2>1. GivenCount' = GivenCount
    BY <1>3 DEF GivenCount
  <2>2. \A k \in 1 .. GivenCount :
          /\ Coherent(Given, k)
          /\ Given[k].type = "STS" => \A c \in Counter : Given[k].counts[c] <= count'[c]
    BY <1>1, <1>2 DEF Reporting, ReportsGiven
  <2> QED BY <1>3, <2>1, <2>2 DEF ReportsGiven
<1>4. CASE SendReply
  <2>1. app = "send" /\ Given' = Append(Given, reply)
    BY <1>4, QueuedReplyIsGiven DEF Answering, SendReply
  <2>2. /\ GivenCount' = GivenCount + 1 /\ Given'[GivenCount + 1] = reply
        /\ \A k \in 1 .. GivenCount : Given'[k] = Given[k]
    BY <1>0, <2>1, Appended DEF GivenCount
  <2>3. /\ Coherent(Given', GivenCount + 1)
        /\ reply.type = "STS" => \A c \in Counter : reply.counts[c] <= count[c]
    BY <2>1, <2>2, NextReport
  <2>4. ASSUME NEW k \in 1 .. GivenCount + 1
        PROVE  /\ Coherent(Given', k)
               /\ Given'[k].type = "STS" => \A c \in Counter : Given'[k].counts[c] <= count'[c]
    <3>1. CASE k = GivenCount + 1
      BY <1>0, <1>2, <2>2, <2>3, <3>1
    <3>2. CASE k # GivenCount + 1
      <4>1. k \in 1 .. GivenCount
        BY <1>0, <3>2
      <4>2. /\ Coherent(Given, k)
            /\ Given[k].type = "STS" => \A c \in Counter : Given[k].counts[c] <= count[c]
        BY <4>1 DEF Reporting, ReportsGiven
      <4>3. Coherent(Given', k)
        BY <1>0, <2>2, <4>1, <4>2, StaysCoherent
      <4>4. Given'[k] = Given[k] /\ Given[k] \in Answer
        BY <1>1, <2>2, <4>1
      <4>5. Given[k].type = "STS" => \A c \in Counter : Given[k].counts[c] <= count'[c]
        BY <1>2, <4>2, <4>4
      <4> QED BY <4>3, <4>4, <4>5
    <3> QED BY <3>1, <3>2
  <2> QED BY <2>2, <2>4 DEF ReportsGiven
<1> QED BY <1>3, <1>4, CountersGrow

\* What task_app does with "status?", and that nothing else begins a report.
LEMMA HandlingOfReports ==
  ASSUME NEW m \in Request, app_handle_message(m)
  PROVE  \/ app' # "read counters" /\ unread' = unread /\ (app' = "send" => reply'.type # "STS")
         \/ app_build_status_message
<1>1. CASE m.type # "CMD" /\ send_simple_message("ERR", "code=unexpected_type")
  BY <1>1 DEF send_simple_message, Reply
<1>2. CASE app' = "command" /\ UNCHANGED <<reply, unread>>
  BY <1>2
<1>3. CASE m.type = "CMD" /\ m.payload = "ping" /\ send_simple_message("ACK", "pong=1")
  BY <1>3 DEF send_simple_message, Reply
<1>4. CASE app_build_status_message
  BY <1>4
<1>5. CASE send_simple_message("ERR", "code=unknown_cmd")
  BY <1>5 DEF send_simple_message, Reply
<1> QED BY <1>1, <1>2, <1>3, <1>4, <1>5 DEF app_handle_message

\* A new report: rx and ae are read, the other five counters are not.
LEMMA NewReport ==
  ASSUME Answering, AppReceive, app_build_status_message
  PROVE  /\ app' = "read counters" /\ reply'.type = "STS"
         /\ reply'.counts["rx"] = count'["rx"] /\ reply'.counts["ae"] = count'["ae"]
         /\ Read' = {"rx", "ae"}
<1>0. count \in [Counter -> Nat]
  BY Facts
<1>1. /\ app' = "read counters" /\ unread' = Counter \ {"rx", "ae"}
      /\ reply' = [Reply("STS", "counters") EXCEPT
                    !.counts["rx"] = count["rx"] + 1, !.counts["ae"] = count["ae"]]
  BY DEF app_build_status_message
<1>2. count' = [count EXCEPT !["rx"] = @ + 1]
  BY DEF AppReceive, Increment
<1>3. count'["rx"] = count["rx"] + 1 /\ count'["ae"] = count["ae"]
  BY <1>0, <1>2, Names
<1>4. reply'.type = "STS"
  BY <1>1 DEF Reply
<1>5. reply'.counts = [NoCounts EXCEPT !["rx"] = count["rx"] + 1, !["ae"] = count["ae"]]
  BY <1>1 DEF Reply
<1>6. reply'.counts["rx"] = count["rx"] + 1 /\ reply'.counts["ae"] = count["ae"]
  BY <1>5, Names DEF NoCounts
<1>7. Read' = {"rx", "ae"}
  BY <1>1, Names DEF Read
<1> QED BY <1>1, <1>3, <1>4, <1>6, <1>7

LEMMA ReadInOrderKept ==
  ASSUME Answering, Reporting, [Next]_vars
  PROVE  ReadInOrder'
<1>0. /\ "rx" \in Read /\ "ae" \in Read
      /\ app # "read counters" => unread = {}
  BY DEF Reporting, ReadInOrder
<1>1. CASE Quiet \/ (\E m \in Request : Accepts(m)) \/ ApplyCommand
  <2>1. app' = app /\ unread' = unread
    BY <1>1 DEF Quiet, Accepts, ApplyCommand, application
  <2> QED BY <1>0, <2>1 DEF ReadInOrder, Read
<1>2. CASE SendCommand \/ SendReply
  <2>1. app # "read counters" /\ unread' = unread
    BY <1>2 DEF SendCommand, SendReply
  <2> QED BY <1>0, <2>1 DEF ReadInOrder, Read
<1>3. CASE ReadCounter
  <2>1. PICK c \in unread : unread' = unread \ {c}
    BY <1>3 DEF ReadCounter
  <2>2. app' # "read counters" => unread' = {}
    BY <1>3 DEF ReadCounter
  <2> QED BY <1>0, <2>1, <2>2 DEF ReadInOrder, Read
<1>4. CASE AppReceive
  <2>1. app = "receive" /\ Head(g_app_queue) \in Request /\ app_handle_message(Head(g_app_queue))
    BY <1>4, NextMessage
  <2>2. CASE unread' = unread
    BY <1>0, <2>1, <2>2 DEF ReadInOrder, Read
  <2>3. CASE app_build_status_message
    BY <1>4, <2>3, NewReport DEF ReadInOrder
  <2> QED BY <2>1, <2>2, <2>3, HandlingOfReports
<1> QED BY <1>1, <1>2, <1>3, <1>4, Steps

\* The reports given so far say nothing beyond the counters as they are.
LEMMA ReportsAreBehind ==
  ASSUME Answering, Reporting, NEW j \in 1 .. GivenCount, Given[j].type = "STS"
  PROVE  /\ Given[j] \in Answer /\ Given[j].counts["rx"] = j
         /\ \A c \in Counter : Given[j].counts[c] <= count[c]
<1>1. Given[j] \in Answer
  BY Facts, ElementOfSeq DEF GivenCount
<1>2. /\ Coherent(Given, j)
      /\ \A c \in Counter : Given[j].counts[c] <= count[c]
  BY DEF Reporting, ReportsGiven
<1> QED BY <1>1, <1>2 DEF Coherent

LEMMA Transitivity ==
  ASSUME NEW x \in Nat, NEW y \in Nat, NEW z \in Nat, x <= y, y <= z
  PROVE  x <= z
OBVIOUS

LEMMA ReportInTheMakingKept ==
  ASSUME Answering, Reporting, [Next]_vars
  PROVE  ReportInTheMaking'
<1>0. /\ count \in [Counter -> Nat] /\ count' \in [Counter -> Nat]
      /\ GivenCount \in Nat /\ Given \in Seq(Answer) /\ reply \in Answer
      /\ Handled \in Nat /\ AcceptedCount \in Nat /\ Handled <= AcceptedCount
      /\ unread \subseteq Counter
  BY Facts, AnsweringKept, NextTypeOK DEF Answering, TypeOK, CountersOK
<1>1. CASE Quiet \/ (\E m \in Request : Accepts(m)) \/ ApplyCommand
  <2>1. /\ app' = app /\ unread' = unread /\ reply' = reply
        /\ count'["rx"] = count["rx"] /\ count'["ae"] = count["ae"] /\ Given' = Given
    <3>1. CASE Quiet \/ (\E m \in Request : Accepts(m))
      BY <3>1 DEF Quiet, Accepts, application
    <3>2. CASE ApplyCommand
      BY <3>2 DEF ApplyCommand, application, transmission, Given
    <3> QED BY <1>1, <3>1, <3>2
  <2>2. Read' = Read /\ Handled' = Handled /\ GivenCount' = GivenCount
    BY <2>1 DEF Read, Handled, GivenCount
  <2> SUFFICES ASSUME app \in {"read counters", "send"}, reply.type = "STS"
               PROVE  ReportInTheMaking'
    BY <2>1 DEF ReportInTheMaking
  <2>3. /\ reply.counts["rx"] = Handled /\ reply.counts["ae"] = count["ae"]
        /\ "pm" \in Read => Handled <= reply.counts["pm"]
        /\ \A c \in Read : reply.counts[c] <= count[c]
        /\ \A j \in 1 .. GivenCount : Given[j].type = "STS" =>
             \A c \in Read : Given[j].counts[c] <= reply.counts[c]
    BY DEF Reporting, ReportInTheMaking
  <2>4. \A c \in Read : reply.counts[c] <= count'[c]
    <3> SUFFICES ASSUME NEW c \in Read PROVE reply.counts[c] <= count'[c]
      OBVIOUS
    <3>1. c \in Counter
      BY DEF Read
    <3>2. reply.counts[c] \in Nat /\ count[c] \in Nat /\ count'[c] \in Nat
      BY <1>0, <3>1 DEF Answer
    <3>3. reply.counts[c] <= count[c]
      BY <2>3
    <3>4. count[c] <= count'[c]
      BY <3>1, CountersGrow DEF Grows
    <3> QED BY <3>2, <3>3, <3>4, Transitivity
  <2> QED BY <2>1, <2>2, <2>3, <2>4 DEF ReportInTheMaking
<1>2. CASE SendCommand \/ SendReply
  <2>1. app' = "receive" \/ reply' = Reply("ACK", "cmd=ok")
    BY <1>2 DEF SendCommand, SendReply
  <2>2. Reply("ACK", "cmd=ok").type # "STS"
    BY DEF Reply
  <2>3. ~(app' \in {"read counters", "send"} /\ reply'.type = "STS")
    BY <2>1, <2>2
  <2> QED BY <2>3 DEF ReportInTheMaking
<1>3. CASE ReadCounter
  <2>1. PICK c \in unread : /\ reply' = [reply EXCEPT !.counts[c] = count[c]]
                            /\ unread' = unread \ {c}
    BY <1>3 DEF ReadCounter
  <2>2. /\ app = "read counters" /\ UNCHANGED <<count, transmission>>
    BY <1>3 DEF ReadCounter
  <2>3. /\ Given' = Given /\ Handled' = Handled /\ GivenCount' = GivenCount
    BY <2>2 DEF Given, transmission, Handled, GivenCount
  <2>4. reply.type = "STS"
    BY <2>2 DEF Answering, AnsweredSoFar, Pair
  <2>5. /\ reply.counts["rx"] = Handled /\ reply.counts["ae"] = count["ae"]
        /\ "pm" \in Read => Handled <= reply.counts["pm"]
        /\ \A d \in Read : reply.counts[d] <= count[d]
        /\ \A j \in 1 .. GivenCount : Given[j].type = "STS" =>
             \A d \in Read : Given[j].counts[d] <= reply.counts[d]
    BY <2>2, <2>4 DEF Reporting, ReportInTheMaking
  <2>6. c \in Counter /\ c \notin Read /\ c # "rx" /\ c # "ae" /\ Read' = Read \union {c}
    BY <1>0, <2>1 DEF Reporting, ReadInOrder, Read
  <2>7. /\ reply'.counts[c] = count[c]
        /\ \A d \in Counter : d # c => reply'.counts[d] = reply.counts[d]
    BY <1>0, <2>1, <2>6 DEF Answer
  <2>8. \A d \in Read : d # c /\ d \in Counter
    BY <2>6 DEF Read
  <2>9. reply'.counts["rx"] = Handled /\ reply'.counts["ae"] = count["ae"]
    BY <2>5, <2>6, <2>7, Names
  <2>10. "pm" \in Read' => Handled <= reply'.counts["pm"]
    <3>1. CASE c = "pm"
      <4>1. reply'.counts["pm"] = AcceptedCount
        BY <2>7, <3>1 DEF Reporting, Counts
      <4> QED BY <1>0, <4>1
    <3>2. CASE c # "pm"
      BY <2>5, <2>6, <2>7, <3>2, Names
    <3> QED BY <3>1, <3>2
  <2>11. \A d \in Read' : reply'.counts[d] <= count'[d]
    <3> SUFFICES ASSUME NEW d \in Read' PROVE reply'.counts[d] <= count[d]
      BY <2>2
    <3>1. CASE d = c
      <4>1. count[c] \in Nat
        BY <1>0, <2>6
      <4> QED BY <2>7, <3>1, <4>1
    <3>2. CASE d # c
      BY <2>5, <2>6, <2>7, <2>8, <3>2
    <3> QED BY <3>1, <3>2
  <2>12. ASSUME NEW j \in 1 .. GivenCount, Given[j].type = "STS", NEW d \in Read'
         PROVE  Given[j].counts[d] <= reply'.counts[d]
    <3>1. CASE d = c
      BY <2>6, <2>7, <2>12, <3>1, ReportsAreBehind
    <3>2. CASE d # c
      BY <2>5, <2>6, <2>7, <2>8, <2>12, <3>2
    <3> QED BY <3>1, <3>2
  <2> QED BY <2>2, <2>3, <2>9, <2>10, <2>11, <2>12 DEF ReportInTheMaking
<1>4. CASE AppReceive
  <2>1. /\ Head(g_app_queue) \in Request /\ app_handle_message(Head(g_app_queue))
        /\ Handled' = Handled + 1 /\ app = "receive" /\ Given' = Given
    BY <1>4, NextMessage
  <2>2. GivenCount' = GivenCount /\ Handled = GivenCount
    BY <2>1, Facts DEF GivenCount
  <2>3. CASE app' # "read counters" /\ (app' = "send" => reply'.type # "STS")
    BY <2>3 DEF ReportInTheMaking
  <2>4. CASE app_build_status_message
    <3>1. /\ app' = "read counters" /\ reply'.type = "STS"
          /\ reply'.counts["rx"] = count'["rx"] /\ reply'.counts["ae"] = count'["ae"]
          /\ Read' = {"rx", "ae"}
      BY <1>4, <2>4, NewReport
    <3>2. reply'.counts["rx"] = Handled' /\ "pm" \notin Read'
      BY <3>1 DEF Handled
    <3>3. \A c \in Read' : reply'.counts[c] <= count'[c]
      <4>1. count'["rx"] \in Nat /\ count'["ae"] \in Nat
        BY <1>0, Names
      <4>2. count'["rx"] <= count'["rx"] /\ count'["ae"] <= count'["ae"]
        BY <4>1
      <4> QED BY <3>1, <4>2, Zenon
    <3>4. ASSUME NEW j \in 1 .. GivenCount, Given[j].type = "STS", NEW c \in Read'
          PROVE  Given[j].counts[c] <= reply'.counts[c]
      <4>1. c \in Counter /\ reply'.counts[c] = count'[c]
        BY <3>1, Names
      <4>2. Given[j].counts[c] \in Nat /\ count[c] \in Nat /\ count'[c] \in Nat
        <5>1. PICK g : g = Given[j]
          OBVIOUS
        <5>2. g \in Answer
          BY <3>4, <5>1, ReportsAreBehind
        <5>3. g.counts \in [Counter -> Nat]
          BY <5>2 DEF Answer
        <5>4. g.counts[c] \in Nat
          BY <4>1, <5>3
        <5>5. count[c] \in Nat /\ count'[c] \in Nat
          BY <1>0, <4>1
        <5> QED BY <5>1, <5>4, <5>5, Zenon
      <4>3. Given[j].counts[c] <= count[c] /\ count[c] <= count'[c]
        BY <3>4, <4>1, ReportsAreBehind, CountersGrow DEF Grows
      <4> QED BY <4>1, <4>2, <4>3
    <3> QED BY <2>1, <2>2, <3>1, <3>2, <3>3, <3>4 DEF ReportInTheMaking
  <2> QED BY <2>1, <2>3, <2>4, HandlingOfReports
<1> QED BY <1>1, <1>2, <1>3, <1>4, Steps

LEMMA ReportingIsCoherent ==
  Answering /\ Reporting => ReportsAreCoherent
<1> SUFFICES ASSUME Answering, Reporting PROVE ReportsAreCoherent
  OBVIOUS
<1>0. GivenCount \in Nat /\ Given \in Seq(Answer) /\ DOMAIN Answers = 1 .. Len(Answers)
  BY Facts, AnswersOut, LenProperties
<1>1. \A k \in DOMAIN Answers : Coherent(Answers, k)
  <2>1. CASE app = "send"
    <3>1. /\ Len(Answers) = GivenCount + 1
          /\ \A k \in 1 .. GivenCount : Answers[k] = Given[k]
          /\ Answers[GivenCount + 1] = reply
      BY <2>1, AnswersOut
    <3>2. Coherent(Answers, GivenCount + 1)
      BY <2>1, <3>1, NextReport
    <3>3. \A k \in 1 .. GivenCount : Coherent(Answers, k)
      BY <1>0, <3>1, StaysCoherent DEF Reporting, ReportsGiven
    <3>4. \A k \in 1 .. GivenCount + 1 : k \in 1 .. GivenCount \/ k = GivenCount + 1
      BY <1>0
    <3> QED BY <1>0, <3>1, <3>2, <3>3, <3>4
  <2>2. CASE app # "send"
    BY <1>0, <2>2, AnswersOut DEF Reporting, ReportsGiven
  <2> QED BY <2>1, <2>2
<1>2. ASSUME NEW k \in DOMAIN Answers, Answers[k].type = "STS"
      PROVE  Answers[k].counts["rx"] <= Answers[k].counts["pm"]
  BY <1>1, <1>2 DEF Coherent
<1> QED BY <1>1, <1>2 DEF ReportsAreCoherent, Coherent, ErrorCount

\* The reports are coherent among themselves and with the answers around them,
\* whichever order the counters are read in and whatever runs meanwhile.
THEOREM CoherentReports == Spec => []ReportsAreCoherent
<1> DEFINE IInv == Answering /\ Reporting
<1>1. Init => IInv
  BY AnsweringHolds, InitReporting
<1>2. IInv /\ [Next]_vars => IInv'
  BY AnsweringKept, CountsKept, ReportsGivenKept, ReadInOrderKept, ReportInTheMakingKept
     DEF Reporting
<1>3. IInv => ReportsAreCoherent
  BY ReportingIsCoherent
<1> QED BY <1>1, <1>2, <1>3, PTL DEF Spec
=============================================================================
