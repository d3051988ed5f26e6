--------------------------- MODULE TelemetryProofs ---------------------------
(***************************************************************************)
(* Proofs about the board with task_telemetry restored: two tasks write to *)
(* one queue, for all queue lengths, any set of requests, any number of    *)
(* bytes and of periods.                                                   *)
(*                                                                         *)
(* The answers no longer have the places of the messages they answer.  The *)
(* invariants count them instead, and likewise the numbered reports.       *)
(***************************************************************************)
EXTENDS Telemetry, PipelineProofs

\* What task_telemetry sends.
Report  == [type : {"DAT"}, payload : {"data"}, readings : [temp : Nat, seq : Nat]]
Message == Answer \union Report \union {app_build_status}

ClockOK ==
  /\ now \in Nat /\ last_wake \in Nat /\ counter \in Nat
  /\ telemetry \in {"delay", "send data", "send status"}
  /\ telemetry # "delay" => draft \in Message

BoardOK == StoresOK /\ OrderKept /\ TransmissionOf(Message) /\ ClockOK

TelemetryStep == Wake \/ SendData \/ SendStatus

\* What the steps of the clock and of the task leave alone.
Apart == UNCHANGED <<upstream, count, g_app_queue, application, actuation>>

LEMMA TelemetryStepsApart ==
  Tick \/ TelemetryStep => Apart
<1>1. CASE Tick \/ Wake
  BY <1>1 DEF Tick, Wake, Apart, vars, downstream
<1>2. CASE SendData \/ SendStatus
  <2>1. SendDraft
    BY <1>2, Zenon DEF SendData, SendStatus
  <2> QED BY <2>1 DEF SendDraft, Apart
<1> QED BY <1>1, <1>2 DEF TelemetryStep

\* The steps of task_telemetry, as far as its own variables are concerned.
Looped == telemetry' = "delay" /\ counter' = counter + 1 /\ last_wake' = last_wake + 1

LEMMA SendDataSteps ==
  ASSUME SendData
  PROVE  /\ telemetry = "send data" /\ SendDraft /\ now' = now
         /\ \/ Looped
            \/ /\ telemetry' = "send status" /\ draft' = app_build_status
               /\ UNCHANGED <<last_wake, counter>>
<1>1. \/ EndOfLoop
      \/ /\ telemetry' = "send status" /\ draft' = app_build_status
         /\ UNCHANGED <<last_wake, counter>>
  BY Zenon DEF SendData
<1>2. telemetry = "send data" /\ SendDraft
  BY DEF SendData
<1>3. now' = now
  BY <1>2 DEF SendDraft
<1> QED BY <1>1, <1>2, <1>3 DEF EndOfLoop, vTaskDelayUntil, Looped

LEMMA SendStatusSteps ==
  ASSUME SendStatus
  PROVE  telemetry = "send status" /\ SendDraft /\ now' = now /\ Looped
BY DEF SendStatus, SendDraft, EndOfLoop, vTaskDelayUntil, Looped

LEMMA WakeSteps ==
  ASSUME Wake
  PROVE  /\ telemetry = "delay" /\ telemetry' = "send data"
         /\ draft' = app_build_telemetry_message(counter)
         /\ UNCHANGED <<vars, now, last_wake, counter>>
BY DEF Wake

\* A report is a message that answers nothing.
LEMMA ReportsAreMessages ==
  /\ \A n \in Nat : /\ app_build_telemetry_message(n) \in Message
                    /\ app_build_telemetry_message(n).payload = "data"
                    /\ app_build_telemetry_message(n).readings.seq = n
  /\ app_build_status \in Message /\ app_build_status.payload = "periodic"
  /\ "data" \notin ReplyText /\ "periodic" \notin ReplyText /\ "data" # "periodic"
<1>1. ASSUME NEW n \in Nat
      PROVE  /\ app_build_telemetry_message(n) \in Report
             /\ app_build_telemetry_message(n).payload = "data"
             /\ app_build_telemetry_message(n).readings.seq = n
  <2>1. 20 + (n % 10) \in Nat
    OBVIOUS
  <2> QED BY <2>1 DEF app_build_telemetry_message, sensors_build_telemetry_payload, Report
<1>2. app_build_status \in Message
  BY DEF Message
<1>3. app_build_status.payload = "periodic"
  BY DEF app_build_status, Reply
<1>4. "data" \notin ReplyText /\ "periodic" \notin ReplyText /\ "data" # "periodic"
  BY DEF ReplyText
<1>5. Report \subseteq Message
  BY DEF Message
<1> QED BY <1>1, <1>2, <1>3, <1>4, <1>5

LEMMA AnswersAreMessages ==
  ASSUME NEW a \in Answer
  PROVE  a \in Message /\ a.payload \in ReplyText
BY DEF Answer, Message

-----------------------------------------------------------------------------
(* Types.                                                                   *)

LEMMA InitBoardOK == TelemetryInit => BoardOK
<1> SUFFICES ASSUME TelemetryInit PROVE BoardOK
  OBVIOUS
<1>1. StoresOK /\ OrderKept /\ TypeOK
  BY InitTypeOK, InitOrderKept, TypeMeansStores DEF TelemetryInit
<1>2. TransmissionOf(Message)
  <2>1. g_uart_tx_queue = << >> /\ sending = << >> /\ wire = << >>
    BY DEF TelemetryInit, Init
  <2> QED BY <2>1, EmptyQueue, Lengths DEF TransmissionOf
<1>3. ClockOK
  BY DEF TelemetryInit, ClockOK
<1> QED BY <1>1, <1>2, <1>3 DEF BoardOK

LEMMA StoresApart ==
  ASSUME StoresOK, OrderKept, Apart
  PROVE  StoresOK' /\ OrderKept'
<1> USE DEF Apart, upstream, application, actuation, reception, parsing
<1>1. CountersOK' /\ ReceptionOK' /\ ParsingOK' /\ AppQueueOK'
  BY DEF StoresOK, CountersOK, ReceptionOK, ParsingOK, AppQueueOK
<1>2. ApplicationOK' /\ ActuationOK'
  BY DEF StoresOK, ApplicationOK, ActuationOK
<1>3. OrderKept'
  BY DEF OrderKept, MessagesKeepTheirOrder
<1> QED BY <1>1, <1>2, <1>3 DEF StoresOK

\* A message is sent as the queue has room for it.
LEMMA DraftSent ==
  ASSUME TransmissionOf(Message), draft \in Message, SendDraft
  PROVE  /\ TransmissionOf(Message)'
         /\ Given \in Seq(Message) /\ Given' = Append(Given, draft)
<1>1. /\ g_uart_tx_queue' = Append(g_uart_tx_queue, draft)
      /\ Len(g_uart_tx_queue) < UartTxQueueLength
      /\ sending' = sending /\ wire' = wire
  BY DEF SendDraft
<1>2. /\ Append(g_uart_tx_queue, draft) \in Seq(Message)
      /\ Len(Append(g_uart_tx_queue, draft)) = Len(g_uart_tx_queue) + 1
      /\ Len(g_uart_tx_queue) \in Nat
  BY AppendProperties, LenProperties DEF TransmissionOf
<1>3. TransmissionOf(Message)'
  BY <1>1, <1>2, Lengths DEF TransmissionOf
<1>4. Given \in Seq(Message) /\ Given' = Append(Given, draft)
  BY <1>1, QueuedIsGiven
<1> QED BY <1>3, <1>4

LEMMA BoardKept == BoardOK /\ [TelemetryNext]_telemetryVars => BoardOK'
<1> SUFFICES ASSUME BoardOK, [TelemetryNext]_telemetryVars
             PROVE  BoardOK'
  OBVIOUS
<1>0. /\ StoresOK /\ OrderKept /\ TransmissionOf(Message) /\ ClockOK
      /\ Answer \subseteq Message /\ ApplicationOK
  BY DEF BoardOK, StoresOK, Message
<1>1. CASE [Next]_vars /\ UNCHANGED <<now, clock>>
  <2>1. StoresOK' /\ OrderKept' /\ TransmissionOf(Message)'
    BY <1>0, <1>1, StoresKept, OrderIsKept, TransmissionOfKept
  <2>2. UNCHANGED <<now, telemetry, last_wake, counter, draft>>
    BY <1>1 DEF clock
  <2>3. ClockOK'
    BY <1>0, <2>2 DEF ClockOK
  <2> QED BY <2>1, <2>3 DEF BoardOK
<1>2. CASE Tick
  <2>1. StoresOK' /\ OrderKept'
    BY <1>0, <1>2, TelemetryStepsApart, StoresApart
  <2>2. TransmissionOf(Message)'
    BY <1>0, <1>2 DEF Tick, vars, downstream, transmission, TransmissionOf
  <2>3. now' = now + 1 /\ UNCHANGED clock
    BY <1>2 DEF Tick
  <2>4. /\ telemetry' = telemetry /\ last_wake' = last_wake /\ counter' = counter
        /\ draft' = draft
    BY <2>3 DEF clock
  <2>5. ClockOK'
    <3>1. now' \in Nat
      <4>1. now \in Nat
        BY <1>0 DEF ClockOK
      <4>2. now' = now + 1
        BY <2>3
      <4> QED BY <4>1, <4>2
    <3> QED BY <1>0, <2>4, <3>1 DEF ClockOK
  <2> QED BY <2>1, <2>2, <2>5 DEF BoardOK
<1>3. CASE TelemetryStep
  <2>1. StoresOK' /\ OrderKept'
    BY <1>0, <1>3, TelemetryStepsApart, StoresApart
  <2>2. CASE Wake
    <3>1. TransmissionOf(Message)'
      BY <1>0, <2>2 DEF Wake, vars, downstream, transmission, TransmissionOf
    <3>2. app_build_telemetry_message(counter) \in Message
      BY <1>0, ReportsAreMessages DEF ClockOK
    <3>3. /\ telemetry' = "send data" /\ draft' \in Message
          /\ now' = now /\ last_wake' = last_wake /\ counter' = counter
      <4>1. /\ telemetry' = "send data" /\ draft' = app_build_telemetry_message(counter)
            /\ UNCHANGED <<vars, now, last_wake, counter>>
        BY <2>2, WakeSteps
      <4>2. draft' \in Message
        BY <3>2, <4>1, Zenon
      <4> QED BY <4>1, <4>2
    <3>4. ClockOK'
      BY <1>0, <3>3 DEF ClockOK
    <3> QED BY <2>1, <3>1, <3>4 DEF BoardOK
  <2>3. CASE SendData \/ SendStatus
    <3>1. /\ SendDraft /\ telemetry # "delay" /\ now' = now
          /\ \/ Looped
             \/ /\ telemetry' = "send status" /\ draft' = app_build_status
                /\ UNCHANGED <<last_wake, counter>>
      BY <2>3, SendDataSteps, SendStatusSteps
    <3>2. TransmissionOf(Message)'
      BY <1>0, <3>1, DraftSent DEF ClockOK
    <3>3. app_build_status \in Message
      BY ReportsAreMessages
    <3>4. ClockOK'
      <4>1. CASE Looped
        <5>1. /\ telemetry' = "delay" /\ counter' = counter + 1
              /\ last_wake' = last_wake + 1 /\ now' = now
          BY <3>1, <4>1 DEF Looped
        <5>2. now \in Nat /\ last_wake \in Nat /\ counter \in Nat
          BY <1>0 DEF ClockOK
        <5> QED BY <5>1, <5>2 DEF ClockOK
      <4>2. CASE /\ telemetry' = "send status" /\ draft' = app_build_status
                 /\ UNCHANGED <<last_wake, counter>>
        <5>1. draft' \in Message
          BY <3>3, <4>2, Zenon
        <5> QED BY <1>0, <3>1, <4>2, <5>1 DEF ClockOK
      <4> QED BY <3>1, <4>1, <4>2
    <3> QED BY <2>1, <3>2, <3>4 DEF BoardOK
  <2> QED BY <1>3, <2>2, <2>3 DEF TelemetryStep
<1> QED BY <1>1, <1>2, <1>3 DEF TelemetryNext, TelemetryStep, telemetryVars

-----------------------------------------------------------------------------
(* Counting.                                                                *)

LEMMA CountNext ==
  ASSUME NEW s, NEW n \in Nat, NEW texts
  PROVE  /\ Count(s, n, texts) \in Nat
         /\ s[n + 1].payload \in texts => Count(s, n + 1, texts) = Count(s, n, texts) + 1
         /\ s[n + 1].payload \notin texts => Count(s, n + 1, texts) = Count(s, n, texts)
<1> DEFINE S == {k \in Nat : s[k].payload \in texts}
<1>1. \A i \in Nat : {k \in 1 .. i : k \in S} = {k \in 1 .. i : s[k].payload \in texts}
  OBVIOUS
<1>2. n + 1 \in Nat /\ (n + 1 \in S <=> s[n + 1].payload \in texts)
  OBVIOUS
<1> HIDE DEF S
<1>3. /\ Cardinality({k \in 1 .. n : k \in S}) \in Nat
      /\ n + 1 \in S => Cardinality({k \in 1 .. n + 1 : k \in S})
                          = Cardinality({k \in 1 .. n : k \in S}) + 1
      /\ n + 1 \notin S => {k \in 1 .. n + 1 : k \in S} = {k \in 1 .. n : k \in S}
  BY CountUpTo
<1>4. /\ {k \in 1 .. n : k \in S} = {k \in 1 .. n : s[k].payload \in texts}
      /\ {k \in 1 .. n + 1 : k \in S} = {k \in 1 .. n + 1 : s[k].payload \in texts}
  BY <1>1, <1>2
<1> QED BY <1>2, <1>3, <1>4 DEF Count

\* Only the first n messages count.
LEMMA CountSame ==
  ASSUME NEW s, NEW t, NEW n \in Nat, NEW texts, \A k \in 1 .. n : s[k] = t[k]
  PROVE  Count(s, n, texts) = Count(t, n, texts)
<1>1. {k \in 1 .. n : s[k].payload \in texts} = {k \in 1 .. n : t[k].payload \in texts}
  OBVIOUS
<1> QED BY <1>1 DEF Count

LEMMA CountNone ==
  ASSUME NEW s, NEW texts
  PROVE  Count(s, 0, texts) = 0
<1>1. {k \in 1 .. 0 : s[k].payload \in texts} = {}
  OBVIOUS
<1> QED BY <1>1, FS_EmptySet DEF Count

\* Those given so far, by what they carry.
Among(k, texts) == Count(Given, k, texts)

\* A message that joins them comes last and disturbs no earlier count.
LEMMA OneMore ==
  ASSUME Given \in Seq(Message), NEW m \in Message, Given' = Append(Given, m), NEW texts
  PROVE  /\ GivenCount \in Nat /\ GivenCount' = GivenCount + 1
         /\ \A k \in 1 .. GivenCount : Given'[k] = Given[k]
         /\ Given'[GivenCount + 1] = m
         /\ \A k \in 0 .. GivenCount : Among(k, texts)' = Among(k, texts)
         /\ m.payload \in texts =>
              Among(GivenCount, texts)' = Among(GivenCount, texts) + 1
         /\ m.payload \notin texts =>
              Among(GivenCount, texts)' = Among(GivenCount, texts)
<1>1. /\ Len(Given) \in Nat /\ Len(Given) + 1 = Len(Append(Given, m))
      /\ \A i \in 1 .. Len(Given) : Append(Given, m)[i] = Given[i]
      /\ Append(Given, m)[Len(Given) + 1] = m
  BY Appended
<1>2. /\ GivenCount \in Nat /\ GivenCount' = GivenCount + 1
      /\ \A k \in 1 .. GivenCount : Given'[k] = Given[k]
      /\ Given'[GivenCount + 1] = m
  BY <1>1 DEF GivenCount
<1>3. ASSUME NEW k \in 0 .. GivenCount
      PROVE  Count(Given', k, texts) = Count(Given, k, texts)
  <2>1. GivenCount \in Nat
    BY <1>2
  <2>2. k \in Nat /\ \A i \in 1 .. k : i \in 1 .. GivenCount
    BY <2>1
  <2>3. \A i \in 1 .. k : Given'[i] = Given[i]
    BY <1>2, <2>2, Zenon
  <2>4. k \in Nat
    BY <2>2
  <2>5. PICK new : new = Given'
    OBVIOUS
  <2>6. \A i \in 1 .. k : new[i] = Given[i]
    BY <2>3, <2>5, Zenon
  <2>7. Count(new, k, texts) = Count(Given, k, texts)
    <3>1. PICK old : old = Given
      OBVIOUS
    <3>2. \A i \in 1 .. k : new[i] = old[i]
      BY <2>6, <3>1, Zenon
    <3>3. Count(new, k, texts) = Count(old, k, texts)
      BY <2>4, <3>2, CountSame
    <3> QED BY <3>1, <3>3, Zenon
  <2> QED BY <2>5, <2>7, Zenon
<1>4. GivenCount \in 0 .. GivenCount
  <2>1. GivenCount \in Nat
    BY <1>2
  <2> QED BY <2>1
<1>5. /\ m.payload \in texts =>
           Count(Given', GivenCount + 1, texts) = Count(Given', GivenCount, texts) + 1
      /\ m.payload \notin texts =>
           Count(Given', GivenCount + 1, texts) = Count(Given', GivenCount, texts)
  BY <1>2, CountNext
<1>6. Count(Given', GivenCount, texts) = Count(Given, GivenCount, texts)
  BY <1>3, <1>4
<1> QED BY <1>2, <1>3, <1>5, <1>6 DEF Among

-----------------------------------------------------------------------------
(* The reports.  task_telemetry counts in a variable of its own what it has *)
(* sent; the invariant says that the queue and the line agree with it.      *)

Data == {"data"}

Numbered ==
  \A k \in 1 .. GivenCount :
    Given[k].payload = "data" => Given[k].readings.seq = Among(k - 1, Data)

NumberedSoFar ==
  /\ Numbered
  /\ telemetry \in {"delay", "send data"} => Among(GivenCount, Data) = counter
  /\ telemetry = "send data" => draft.payload = "data" /\ draft.readings.seq = counter
  /\ telemetry = "send status" =>
       Among(GivenCount, Data) = counter + 1 /\ draft.payload = "periodic"

(* The answers.                                                             *)

\* What task_app is at work on is the last message it counted.
AtWork ==
  /\ app = "send" => Pair(reply) = Service!AnswerTo(accepted[Handled])
  /\ app = "command" => Service!AnswerTo(accepted[Handled]) = <<"ACK", "cmd=ok">>
  /\ app = "read counters" =>
       /\ Service!AnswerTo(accepted[Handled]) = <<"STS", "counters">>
       /\ Pair(reply) = <<"STS", "counters">>

EachAnswered ==
  \A k \in 1 .. GivenCount :
    Given[k].payload \in ReplyText =>
      Pair(Given[k]) = Service!AnswerTo(accepted[Among(k, ReplyText)])

AnsweredBesides ==
  /\ app = "receive" => Handled = Among(GivenCount, ReplyText)
  /\ app # "receive" => Handled = Among(GivenCount, ReplyText) + 1
  /\ EachAnswered
  /\ AtWork

Besides == BoardOK /\ NumberedSoFar /\ AnsweredBesides

LEMMA BoardFacts ==
  ASSUME BoardOK
  PROVE  /\ count \in [Counter -> Nat] /\ Handled \in Nat
         /\ accepted \in Seq(Request) /\ AcceptedCount \in Nat /\ Handled <= AcceptedCount
         /\ Given \in Seq(Message) /\ GivenCount \in Nat
         /\ app \in {"receive", "command", "read counters", "send"}
         /\ reply \in Answer /\ reply \in Message /\ reply.payload \in ReplyText
         /\ counter \in Nat
<1>1. /\ count \in [Counter -> Nat] /\ Handled \in Nat
      /\ accepted \in Seq(Request) /\ AcceptedCount \in Nat
      /\ Handled <= AcceptedCount
      /\ app \in {"receive", "command", "read counters", "send"}
      /\ reply \in Answer
  BY Names, LenProperties DEF BoardOK, StoresOK, CountersOK, ParsingOK, ApplicationOK, OrderKept,
                              AcceptedCount, Handled
<1>2. Given \in Seq(Message) /\ GivenCount \in Nat
  <2>1. /\ wire \in Seq(Message) /\ sending \in Seq(Message)
        /\ g_uart_tx_queue \in Seq(Message)
    BY DEF BoardOK, TransmissionOf
  <2>2. wire \o sending \in Seq(Message)
    BY <2>1, ConcatProperties
  <2>3. Given \in Seq(Message)
    BY <2>1, <2>2, ConcatProperties DEF Given
  <2> QED BY <2>3, LenProperties DEF GivenCount
<1>3. counter \in Nat
  BY DEF BoardOK, ClockOK
<1> QED BY <1>1, <1>2, <1>3, AnswersAreMessages

\* The firmware's own steps send nothing but the reply of task_app.
LEMMA NextGives ==
  ASSUME BoardOK, [Next]_vars
  PROVE  Given' = Given \/ (SendReply /\ Given' = Append(Given, reply))
<1>1. TransmissionOf(Message) /\ count \in [Counter -> Nat] /\ reply \in Message
  BY BoardFacts DEF BoardOK
<1>2. \/ Quiet \/ \E m \in Request : Accepts(m)
      \/ AppReceive \/ ReadCounter \/ SendCommand \/ SendReply \/ ApplyCommand
  BY <1>1, StepsOfTheBoard
<1>3. CASE Quiet \/ \E m \in Request : Accepts(m)
  BY <1>3 DEF Quiet, Accepts
<1>4. CASE AppReceive \/ ReadCounter \/ SendCommand \/ ApplyCommand
  <2>1. UNCHANGED transmission
    BY <1>4 DEF AppReceive, ReadCounter, SendCommand, ApplyCommand
  <2> QED BY <2>1 DEF transmission, Given
<1>5. CASE SendReply
  <2>1. /\ UNCHANGED <<wire, sending>>
        /\ g_uart_tx_queue' = Append(g_uart_tx_queue, reply)
    BY <1>5 DEF SendReply
  <2> QED BY <1>1, <1>5, <2>1, QueuedIsGiven
<1> QED BY <1>2, <1>3, <1>4, <1>5

\* So do the steps of task_telemetry with its draft.
LEMMA TelemetryGives ==
  ASSUME BoardOK, Tick \/ Wake
  PROVE  Given' = Given
BY DEF Tick, Wake, vars, downstream, transmission, Given

-----------------------------------------------------------------------------
(* The reports keep their numbers.                                          *)

LEMMA NumberedExtends ==
  ASSUME Numbered, Given \in Seq(Message), NEW m \in Message, Given' = Append(Given, m),
         m.payload = "data" => m.readings.seq = Among(GivenCount, Data)
  PROVE  Numbered'
<1>1. /\ GivenCount \in Nat /\ GivenCount' = GivenCount + 1
      /\ \A k \in 1 .. GivenCount : Given'[k] = Given[k]
      /\ Given'[GivenCount + 1] = m
      /\ \A k \in 0 .. GivenCount : Among(k, Data)' = Among(k, Data)
  BY OneMore
<1>2. SUFFICES ASSUME NEW k \in 1 .. GivenCount + 1, Given'[k].payload = "data"
               PROVE  Given'[k].readings.seq = Among(k - 1, Data)'
  BY <1>1 DEF Numbered
<1>3. k - 1 \in 0 .. GivenCount /\ (k \in 1 .. GivenCount \/ k = GivenCount + 1)
  BY <1>1
<1>4. Among(k - 1, Data)' = Among(k - 1, Data)
  BY <1>1, <1>3
<1>5. CASE k \in 1 .. GivenCount
  BY <1>1, <1>2, <1>4, <1>5 DEF Numbered
<1>6. CASE k = GivenCount + 1
  <2>1. k - 1 = GivenCount
    BY <1>1, <1>6
  <2> QED BY <1>1, <1>2, <1>4, <1>6, <2>1
<1> QED BY <1>3, <1>5, <1>6

LEMMA NumberedUndisturbed ==
  ASSUME NumberedSoFar, Given' = Given, UNCHANGED <<telemetry, counter, draft>>
  PROVE  NumberedSoFar'
BY DEF NumberedSoFar, Numbered, GivenCount, Among

LEMMA NumbersKept ==
  BoardOK /\ NumberedSoFar /\ [TelemetryNext]_telemetryVars => NumberedSoFar'
<1> SUFFICES ASSUME BoardOK, NumberedSoFar, [TelemetryNext]_telemetryVars
             PROVE  NumberedSoFar'
  OBVIOUS
<1>0. /\ Given \in Seq(Message) /\ GivenCount \in Nat /\ counter \in Nat
      /\ reply \in Message /\ reply.payload \in ReplyText
      /\ telemetry \in {"delay", "send data", "send status"}
      /\ telemetry # "delay" => draft \in Message
      /\ TransmissionOf(Message)
  BY BoardFacts DEF BoardOK, ClockOK
<1>1. CASE [Next]_vars /\ UNCHANGED <<now, clock>>
  <2>1. UNCHANGED <<telemetry, counter, draft>>
    BY <1>1 DEF clock
  <2>2. CASE Given' = Given
    BY <2>1, <2>2, NumberedUndisturbed
  <2>3. CASE Given' = Append(Given, reply)
    <3>1. reply.payload \notin Data /\ reply.payload # "data"
      BY <1>0, ReportsAreMessages DEF Data
    <3>2. Numbered'
      BY <1>0, <2>3, <3>1, NumberedExtends DEF NumberedSoFar
    <3>3. Among(GivenCount, Data)' = Among(GivenCount, Data)
      BY <1>0, <2>3, <3>1, OneMore
    <3> QED BY <2>1, <3>2, <3>3 DEF NumberedSoFar
  <2> QED BY <1>1, <2>2, <2>3, NextGives
<1>2. CASE Tick
  <2>1. UNCHANGED <<telemetry, counter, draft>>
    BY <1>2 DEF Tick, clock
  <2> QED BY <1>2, <2>1, TelemetryGives, NumberedUndisturbed
<1>3. CASE Wake
  <2>1. /\ telemetry = "delay" /\ telemetry' = "send data" /\ counter' = counter
        /\ draft' = app_build_telemetry_message(counter)
    BY <1>3, WakeSteps
  <2>2. draft'.payload = "data" /\ draft'.readings.seq = counter
    BY <1>0, <2>1, ReportsAreMessages, Zenon
  <2>3. Given' = Given
    BY <1>3, TelemetryGives
  <2>4. Numbered' /\ Among(GivenCount, Data)' = Among(GivenCount, Data)
    BY <2>3 DEF NumberedSoFar, Numbered, GivenCount, Among
  <2>5. Among(GivenCount, Data) = counter
    BY <2>1 DEF NumberedSoFar
  <2> QED BY <2>1, <2>2, <2>4, <2>5 DEF NumberedSoFar
<1>4. CASE SendData
  <2>1. /\ telemetry = "send data" /\ SendDraft
        /\ \/ Looped
           \/ /\ telemetry' = "send status" /\ draft' = app_build_status
              /\ UNCHANGED <<last_wake, counter>>
    BY <1>4, SendDataSteps
  <2>2. /\ draft.payload = "data" /\ draft.readings.seq = counter
        /\ Among(GivenCount, Data) = counter
    BY <2>1 DEF NumberedSoFar
  <2>3. draft \in Message /\ draft.payload \in Data
    BY <1>0, <2>1, <2>2 DEF Data
  <2>4. Given' = Append(Given, draft)
    BY <1>0, <2>1, <2>3, DraftSent
  <2>5. Numbered'
    BY <1>0, <2>2, <2>3, <2>4, NumberedExtends DEF NumberedSoFar
  <2>6. Among(GivenCount, Data)' = counter + 1
    BY <1>0, <2>2, <2>3, <2>4, OneMore
  <2>7. CASE Looped
    BY <2>5, <2>6, <2>7 DEF Looped, NumberedSoFar
  <2>8. CASE /\ telemetry' = "send status" /\ draft' = app_build_status
             /\ UNCHANGED <<last_wake, counter>>
    <3>1. draft'.payload = "periodic"
      BY <2>8, ReportsAreMessages, Zenon
    <3> QED BY <2>5, <2>6, <2>8, <3>1 DEF NumberedSoFar
  <2> QED BY <2>1, <2>7, <2>8
<1>5. CASE SendStatus
  <2>1. telemetry = "send status" /\ SendDraft /\ Looped
    BY <1>5, SendStatusSteps
  <2>2. draft.payload = "periodic" /\ Among(GivenCount, Data) = counter + 1
    BY <2>1 DEF NumberedSoFar
  <2>3. draft \in Message /\ draft.payload \notin Data /\ draft.payload # "data"
    BY <1>0, <2>1, <2>2 DEF Data
  <2>4. Given' = Append(Given, draft)
    BY <1>0, <2>1, <2>3, DraftSent
  <2>5. Numbered'
    BY <1>0, <2>3, <2>4, NumberedExtends DEF NumberedSoFar
  <2>6. Among(GivenCount, Data)' = counter + 1
    BY <1>0, <2>2, <2>3, <2>4, OneMore
  <2> QED BY <2>1, <2>5, <2>6 DEF Looped, NumberedSoFar
<1> QED BY <1>1, <1>2, <1>3, <1>4, <1>5 DEF TelemetryNext, telemetryVars

-----------------------------------------------------------------------------
(* The answers keep their order.                                            *)

\* The place of an answer among the answers.
LEMMA PlaceOfAnswer ==
  ASSUME NEW s, NEW n \in Nat, NEW k \in 1 .. n, NEW texts, s[k].payload \in texts
  PROVE  /\ Count(s, k, texts) \in 1 .. Count(s, n, texts)
         /\ Count(s, n, texts) \in Nat
<1>1. PICK m \in Nat : k = m + 1
  <2>1. k - 1 \in Nat /\ k = (k - 1) + 1
    OBVIOUS
  <2> QED BY <2>1
<1>2. Count(s, m, texts) \in Nat /\ Count(s, n, texts) \in Nat /\ Count(s, k, texts) \in Nat
  BY CountNext
<1>3. Count(s, k, texts) = Count(s, m, texts) + 1
  BY <1>1, CountNext
<1>4. Count(s, k, texts) <= Count(s, n, texts)
  <2> DEFINE S == {j \in 1 .. n : s[j].payload \in texts}
             T == {j \in 1 .. k : s[j].payload \in texts}
  <2>1. IsFiniteSet(1 .. n) /\ S \in SUBSET (1 .. n)
    BY FS_Interval
  <2>2. IsFiniteSet(S)
    BY <2>1, FS_Subset
  <2>3. T \in SUBSET S
    OBVIOUS
  <2> HIDE DEF S, T
  <2>4. Cardinality(T) <= Cardinality(S)
    BY <2>2, <2>3, FS_Subset
  <2> QED BY <2>4 DEF S, T, Count
<1> QED BY <1>2, <1>3, <1>4

\* What is true of the answers stays true while none is given and the messages
\* delivered only grow.
LEMMA AnsweredUndisturbed ==
  ASSUME AnsweredBesides, Handled \in Nat, GivenCount \in Nat,
         Given' = Given, Handled' = Handled, app' = app, reply' = reply,
         \A k \in 1 .. Handled : accepted'[k] = accepted[k]
  PROVE  AnsweredBesides'
<1>1. GivenCount' = GivenCount /\ \A k : Among(k, ReplyText)' = Among(k, ReplyText)
  BY DEF GivenCount, Among
<1>2. Among(GivenCount, ReplyText) \in Nat
  BY CountNext DEF Among
<1>3. /\ app = "receive" => Handled = Among(GivenCount, ReplyText)
      /\ app # "receive" => Handled = Among(GivenCount, ReplyText) + 1
  BY DEF AnsweredBesides
<1>4. Among(GivenCount, ReplyText) <= Handled
  <2>1. CASE app = "receive"
    BY <1>2, <1>3, <2>1
  <2>2. CASE app # "receive"
    <3>1. Handled = Among(GivenCount, ReplyText) + 1
      BY <1>3, <2>2
    <3> QED BY <1>2, <3>1
  <2> QED BY <2>1, <2>2
<1>5. app # "receive" => accepted'[Handled] = accepted[Handled]
  <2> SUFFICES ASSUME app # "receive" PROVE Handled \in 1 .. Handled
    OBVIOUS
  <2>1. Handled = Among(GivenCount, ReplyText) + 1
    BY <1>3
  <2> QED BY <1>2, <2>1
<1>6. EachAnswered'
  <2> SUFFICES ASSUME NEW k \in 1 .. GivenCount, Given[k].payload \in ReplyText
               PROVE  Pair(Given[k]) = Service!AnswerTo(accepted'[Among(k, ReplyText)])
    BY <1>1 DEF EachAnswered
  <2>1. Among(k, ReplyText) \in 1 .. Among(GivenCount, ReplyText)
    BY PlaceOfAnswer DEF Among
  <2>2. Among(k, ReplyText) \in 1 .. Handled
    BY <1>2, <1>4, <2>1
  <2>3. accepted'[Among(k, ReplyText)] = accepted[Among(k, ReplyText)]
    BY <2>2
  <2> QED BY <2>3 DEF AnsweredBesides, EachAnswered
<1>7. AtWork'
  BY <1>5 DEF AnsweredBesides, AtWork, Handled
<1> QED BY <1>1, <1>3, <1>6, <1>7 DEF AnsweredBesides

\* A message joins those given.
LEMMA EachAnsweredExtends ==
  ASSUME EachAnswered, Given \in Seq(Message), NEW m \in Message, Given' = Append(Given, m),
         accepted' = accepted,
         m.payload \in ReplyText =>
           Pair(m) = Service!AnswerTo(accepted[Among(GivenCount, ReplyText) + 1])
  PROVE  EachAnswered'
<1>1. /\ GivenCount \in Nat /\ GivenCount' = GivenCount + 1
      /\ \A k \in 1 .. GivenCount : Given'[k] = Given[k]
      /\ Given'[GivenCount + 1] = m
      /\ \A k \in 0 .. GivenCount : Among(k, ReplyText)' = Among(k, ReplyText)
      /\ m.payload \in ReplyText =>
           Among(GivenCount, ReplyText)' = Among(GivenCount, ReplyText) + 1
  BY OneMore
<1>2. SUFFICES ASSUME NEW k \in 1 .. GivenCount + 1, Given'[k].payload \in ReplyText
               PROVE  Pair(Given'[k]) = Service!AnswerTo(accepted'[Among(k, ReplyText)'])
  BY <1>1 DEF EachAnswered
<1>3. CASE k \in 1 .. GivenCount
  <2>1. k \in 0 .. GivenCount
    BY <1>1, <1>3
  <2>2. Among(k, ReplyText)' = Among(k, ReplyText)
    BY <1>1, <2>1
  <2> QED BY <1>1, <1>2, <1>3, <2>2 DEF EachAnswered
<1>4. CASE k = GivenCount + 1
  <2>1. m.payload \in ReplyText
    BY <1>1, <1>2, <1>4
  <2>2. Among(k, ReplyText)' = Among(GivenCount, ReplyText) + 1
    BY <1>1, <1>4, <2>1
  <2> QED BY <1>1, <1>4, <2>1, <2>2
<1>5. k \in 1 .. GivenCount \/ k = GivenCount + 1
  <2>1. GivenCount \in Nat
    BY <1>1
  <2> QED BY <2>1
<1> QED BY <1>3, <1>4, <1>5

\* A report of task_telemetry changes nothing for the answers.
LEMMA ReportChangesNoAnswer ==
  ASSUME AnsweredBesides, Given \in Seq(Message), draft \in Message,
         draft.payload \notin ReplyText, Given' = Append(Given, draft), Apart
  PROVE  AnsweredBesides'
<1>1. UNCHANGED <<count, accepted, app, reply>>
  BY DEF Apart, upstream, parsing, application
<1>2. Among(GivenCount, ReplyText)' = Among(GivenCount, ReplyText)
  BY OneMore
<1>3. EachAnswered'
  BY <1>1, EachAnsweredExtends DEF AnsweredBesides
<1> QED BY <1>1, <1>2, <1>3 DEF AnsweredBesides, AtWork, Handled

LEMMA AnswersStand ==
  BoardOK /\ AnsweredBesides /\ [Next]_vars => AnsweredBesides'
<1> SUFFICES ASSUME BoardOK, AnsweredBesides, [Next]_vars
             PROVE  AnsweredBesides'
  OBVIOUS
<1>0. /\ count \in [Counter -> Nat] /\ Handled \in Nat
      /\ accepted \in Seq(Request) /\ AcceptedCount \in Nat /\ Handled <= AcceptedCount
      /\ Given \in Seq(Message) /\ GivenCount \in Nat
      /\ app \in {"receive", "command", "read counters", "send"}
      /\ reply \in Answer /\ reply \in Message /\ reply.payload \in ReplyText
      /\ StoresOK /\ OrderKept /\ TransmissionOf(Message)
  BY BoardFacts DEF BoardOK
<1>1. \/ Quiet \/ \E m \in Request : Accepts(m)
      \/ AppReceive \/ ReadCounter \/ SendCommand \/ SendReply \/ ApplyCommand
  BY <1>0, StepsOfTheBoard
<1>2. CASE Quiet
  <2>1. /\ Given' = Given /\ app' = app /\ reply' = reply /\ accepted' = accepted
        /\ Handled' = Handled
    BY <1>2 DEF Quiet, application, Handled
  <2> QED BY <1>0, <2>1, AnsweredUndisturbed
<1>3. ASSUME NEW m \in Request, Accepts(m)
      PROVE  AnsweredBesides'
  <2>1. /\ Given' = Given /\ app' = app /\ reply' = reply /\ accepted' = Append(accepted, m)
        /\ Handled' = Handled
    BY <1>3 DEF Accepts, application, Handled
  <2>2. \A k \in 1 .. Len(accepted) : Append(accepted, m)[k] = accepted[k]
    <3>1. accepted \in Seq(Request)
      BY <1>0
    <3> QED BY <3>1, Appended
  <2>3. \A k \in 1 .. Handled : k \in 1 .. AcceptedCount
    <3>1. Handled \in Nat /\ AcceptedCount \in Nat /\ Handled <= AcceptedCount
      BY <1>0
    <3> QED BY <3>1
  <2>4. \A k \in 1 .. Handled : accepted'[k] = accepted[k]
    BY <2>1, <2>2, <2>3 DEF AcceptedCount
  <2> QED BY <1>0, <2>1, <2>4, AnsweredUndisturbed
<1>4. CASE ApplyCommand
  <2>1. /\ UNCHANGED <<count, accepted, app, reply, transmission>>
    BY <1>4 DEF ApplyCommand, upstream, parsing, application
  <2>2. Given' = Given /\ Handled' = Handled
    BY <2>1 DEF Given, transmission, Handled
  <2> QED BY <1>0, <2>1, <2>2, AnsweredUndisturbed
<1>5. CASE AppReceive
  <2>0. /\ Head(g_app_queue) \in Request /\ app_handle_message(Head(g_app_queue))
        /\ accepted[Handled + 1] = Head(g_app_queue)
        /\ Handled' = Handled + 1 /\ app = "receive" /\ Given' = Given
        /\ UNCHANGED <<accepted, actuation>>
    BY <1>0, <1>5, FirstInLine, Zenon
  <2>1. PICK m \in Request :
               /\ app_handle_message(m) /\ accepted[Handled + 1] = m
               /\ Handled' = Handled + 1 /\ app = "receive" /\ Given' = Given
               /\ accepted' = accepted
    BY <2>0, Zenon
  <2>2. \/ app' = "send" /\ Pair(reply') = Service!AnswerTo(m)
        \/ app' = "command" /\ Service!AnswerTo(m) = <<"ACK", "cmd=ok">>
        \/ /\ app' = "read counters" /\ Service!AnswerTo(m) = <<"STS", "counters">>
           /\ Pair(reply') = <<"STS", "counters">>
    BY <2>1, HandlingLeadsToTheAnswer
  <2>3. app' # "receive" /\ accepted'[Handled'] = m
    BY <2>1, <2>2
  <2>4. AtWork'
    BY <2>2, <2>3 DEF AtWork
  <2>5. EachAnswered' /\ Among(GivenCount, ReplyText)' = Among(GivenCount, ReplyText)
    BY <2>1 DEF AnsweredBesides, EachAnswered, GivenCount, Among
  <2>6. Handled = Among(GivenCount, ReplyText)
    BY <2>1 DEF AnsweredBesides
  <2> QED BY <2>1, <2>3, <2>4, <2>5, <2>6 DEF AnsweredBesides
<1>6. CASE SendCommand
  <2>1. /\ app = "command" /\ app' = "send" /\ reply' = Reply("ACK", "cmd=ok")
        /\ UNCHANGED <<count, accepted, transmission>>
    BY <1>6 DEF SendCommand, upstream, parsing, transmission
  <2>2. Given' = Given /\ Handled' = Handled
    BY <2>1 DEF Given, transmission, Handled
  <2>3. Pair(reply') = <<"ACK", "cmd=ok">>
    BY <2>1 DEF Pair, Reply
  <2>4. AtWork'
    BY <2>1, <2>2, <2>3 DEF AnsweredBesides, AtWork
  <2>5. EachAnswered' /\ Among(GivenCount, ReplyText)' = Among(GivenCount, ReplyText)
    BY <2>1, <2>2 DEF AnsweredBesides, EachAnswered, GivenCount, Among
  <2> QED BY <2>1, <2>2, <2>4, <2>5 DEF AnsweredBesides
<1>7. CASE ReadCounter
  <2>1. /\ app = "read counters" /\ app' \in {"read counters", "send"}
        /\ UNCHANGED <<count, accepted, transmission>>
        /\ \E c \in unread : reply' = [reply EXCEPT !.counts[c] = count[c]]
    BY <1>7 DEF ReadCounter, upstream, parsing
  <2>2. Given' = Given /\ Handled' = Handled
    BY <2>1 DEF Given, transmission, Handled
  <2>3. Pair(reply') = Pair(reply)
    BY <1>0, <2>1 DEF Pair, Answer
  <2>4. AtWork'
    BY <2>1, <2>2, <2>3 DEF AnsweredBesides, AtWork
  <2>5. EachAnswered' /\ Among(GivenCount, ReplyText)' = Among(GivenCount, ReplyText)
    BY <2>1, <2>2 DEF AnsweredBesides, EachAnswered, GivenCount, Among
  <2> QED BY <2>1, <2>2, <2>4, <2>5 DEF AnsweredBesides
<1>8. CASE SendReply
  <2>1. /\ app = "send" /\ app' = "receive" /\ accepted' = accepted
        /\ count' = count \/ count' = [count EXCEPT !["ae"] = @ + 1]
    BY <1>8 DEF SendReply, Increment, upstream, parsing
  <2>2. Handled' = Handled
    BY <1>0, <2>1, Names DEF Handled
  <2>3. Given' = Append(Given, reply)
    <3>1. /\ UNCHANGED <<wire, sending>>
          /\ g_uart_tx_queue' = Append(g_uart_tx_queue, reply)
      BY <1>8 DEF SendReply
    <3> QED BY <1>0, <3>1, QueuedIsGiven
  <2>4. /\ Handled = Among(GivenCount, ReplyText) + 1
        /\ Pair(reply) = Service!AnswerTo(accepted[Handled])
    BY <2>1 DEF AnsweredBesides, AtWork
  <2>5. Pair(reply) = Service!AnswerTo(accepted[Among(GivenCount, ReplyText) + 1])
    BY <2>4
  <2>6. EachAnswered'
    BY <1>0, <2>1, <2>3, <2>5, EachAnsweredExtends DEF AnsweredBesides
  <2>7. Among(GivenCount, ReplyText)' = Among(GivenCount, ReplyText) + 1
    BY <1>0, <2>3, OneMore
  <2>8. AtWork'
    BY <2>1 DEF AtWork
  <2> QED BY <2>1, <2>2, <2>4, <2>6, <2>7, <2>8 DEF AnsweredBesides
<1> QED BY <1>1, <1>2, <1>3, <1>4, <1>5, <1>6, <1>7, <1>8

LEMMA AnswersStandBesides ==
  BoardOK /\ NumberedSoFar /\ AnsweredBesides /\ [TelemetryNext]_telemetryVars
    => AnsweredBesides'
<1> SUFFICES ASSUME BoardOK, NumberedSoFar, AnsweredBesides, [TelemetryNext]_telemetryVars
             PROVE  AnsweredBesides'
  OBVIOUS
<1>0. /\ Given \in Seq(Message) /\ GivenCount \in Nat /\ Handled \in Nat
      /\ telemetry # "delay" => draft \in Message
      /\ TransmissionOf(Message)
  BY BoardFacts DEF BoardOK, ClockOK
<1>1. CASE [Next]_vars
  BY <1>1, AnswersStand
<1>2. CASE Tick \/ Wake
  <2>1. Given' = Given
    BY <1>2, TelemetryGives
  <2>2. Apart
    BY <1>2, TelemetryStepsApart DEF TelemetryStep
  <2>3. app' = app /\ reply' = reply /\ accepted' = accepted /\ Handled' = Handled
    BY <2>2 DEF Apart, upstream, parsing, application, Handled
  <2> QED BY <1>0, <2>1, <2>3, AnsweredUndisturbed
<1>3. CASE SendData \/ SendStatus
  <2>1. SendDraft /\ telemetry \in {"send data", "send status"}
    BY <1>3, SendDataSteps, SendStatusSteps
  <2>2. draft.payload \in {"data", "periodic"} /\ draft \in Message
    BY <1>0, <2>1 DEF NumberedSoFar
  <2>3. draft.payload \notin ReplyText
    BY <2>2, ReportsAreMessages
  <2>4. Given' = Append(Given, draft)
    BY <1>0, <2>1, <2>2, DraftSent
  <2>5. Apart
    BY <1>3, TelemetryStepsApart DEF TelemetryStep
  <2> QED BY <1>0, <2>2, <2>3, <2>4, <2>5, ReportChangesNoAnswer
<1> QED BY <1>1, <1>2, <1>3 DEF TelemetryNext, telemetryVars

-----------------------------------------------------------------------------
(* The invariant, and what it says of the line.                             *)

LEMMA InitBesides == TelemetryInit => Besides
<1> SUFFICES ASSUME TelemetryInit PROVE Besides
  OBVIOUS
<1>1. BoardOK
  BY InitBoardOK
<1>2. /\ wire = << >> /\ sending = << >> /\ g_uart_tx_queue = << >> /\ app = "receive"
      /\ count = [c \in Counter |-> 0]
  BY DEF TelemetryInit, Init, NoCounts
<1>3. Given = << >>
  BY <1>2, ConcatEmptySeq, EmptySeq DEF Given
<1>4. Handled = 0 /\ GivenCount = 0
  BY <1>2, <1>3, Names, EmptySeq DEF Handled, GivenCount
<1>5. \A texts : Among(GivenCount, texts) = 0
  BY <1>4, CountNone DEF Among
<1>6. \A k \in 1 .. GivenCount : FALSE
  BY <1>4
<1>7. NumberedSoFar
  <2>1. telemetry = "delay" /\ counter = 0
    BY DEF TelemetryInit
  <2> QED BY <1>5, <1>6, <2>1 DEF NumberedSoFar, Numbered
<1>8. AnsweredBesides
  BY <1>2, <1>4, <1>5, <1>6 DEF AnsweredBesides, EachAnswered, AtWork
<1> QED BY <1>1, <1>7, <1>8 DEF Besides

LEMMA BesidesKept == Besides /\ [TelemetryNext]_telemetryVars => Besides'
BY BoardKept, NumbersKept, AnswersStandBesides DEF Besides

LEMMA BesidesHolds == TelemetrySpec => []Besides
BY InitBesides, BesidesKept, PTL DEF TelemetrySpec

\* The line has seen the first messages of those given.
LEMMA LineComesFirst ==
  ASSUME BoardOK
  PROVE  /\ Len(wire) \in Nat /\ Len(wire) <= GivenCount
         /\ \A k \in 1 .. Len(wire) : wire[k] = Given[k]
<1>1. /\ wire \in Seq(Message) /\ sending \in Seq(Message)
      /\ g_uart_tx_queue \in Seq(Message)
  BY DEF BoardOK, TransmissionOf
<1>2. PICK rest : rest = sending \o g_uart_tx_queue
  OBVIOUS
<1>3. rest \in Seq(Message)
  BY <1>1, <1>2, ConcatProperties
<1>4. Given = wire \o rest
  BY <1>1, <1>2, ConcatAssociative DEF Given
<1>5. Len(wire) \in Nat /\ Len(rest) \in Nat
  BY <1>1, <1>3, LenProperties
<1>6. /\ Len(wire \o rest) = Len(wire) + Len(rest)
      /\ \A k \in 1 .. Len(wire) + Len(rest) :
           (wire \o rest)[k] = IF k <= Len(wire) THEN wire[k] ELSE rest[k - Len(wire)]
  BY <1>1, <1>3, ConcatProperties
<1> QED BY <1>4, <1>5, <1>6 DEF GivenCount

LEMMA NumberedMeansNoGaps == BoardOK /\ NumberedSoFar => SequenceHasNoGaps
<1> SUFFICES ASSUME BoardOK, NumberedSoFar PROVE SequenceHasNoGaps
  OBVIOUS
<1>1. /\ Len(wire) \in Nat /\ Len(wire) <= GivenCount /\ GivenCount \in Nat
      /\ \A k \in 1 .. Len(wire) : wire[k] = Given[k]
  BY LineComesFirst, BoardFacts
<1>2. DOMAIN wire = 1 .. Len(wire)
  <2>1. wire \in Seq(Message)
    BY DEF BoardOK, TransmissionOf
  <2> QED BY <2>1, LenProperties
<1>3. SUFFICES ASSUME NEW k \in 1 .. Len(wire), wire[k].payload = "data"
               PROVE  wire[k].readings.seq = Count(wire, k - 1, {"data"})
  BY <1>2 DEF SequenceHasNoGaps
<1>4. k \in 1 .. GivenCount /\ wire[k] = Given[k]
  BY <1>1
<1>5. Count(wire, k - 1, {"data"}) = Count(Given, k - 1, {"data"})
  <2>1. k - 1 \in Nat /\ \A i \in 1 .. k - 1 : i \in 1 .. Len(wire)
    BY <1>1
  <2>2. \A i \in 1 .. k - 1 : wire[i] = Given[i]
    BY <1>1, <2>1, Zenon
  <2> QED BY <2>1, <2>2, CountSame
<1>6. Given[k].readings.seq = Count(Given, k - 1, {"data"})
  BY <1>3, <1>4 DEF NumberedSoFar, Numbered, Among, Data
<1> QED BY <1>4, <1>5, <1>6

LEMMA BesidesMeansSurvival == BoardOK /\ AnsweredBesides => AnswersSurviveTelemetry
<1> SUFFICES ASSUME BoardOK, AnsweredBesides PROVE AnswersSurviveTelemetry
  OBVIOUS
<1>0. /\ Handled \in Nat /\ Given \in Seq(Message) /\ GivenCount \in Nat
      /\ app \in {"receive", "command", "read counters", "send"}
      /\ reply \in Message /\ reply.payload \in ReplyText
      /\ app = "receive" => Handled = Among(GivenCount, ReplyText)
      /\ app # "receive" => Handled = Among(GivenCount, ReplyText) + 1
      /\ EachAnswered /\ AtWork
  BY BoardFacts DEF AnsweredBesides
<1>1. GivenCount \in Nat /\ Among(GivenCount, ReplyText) \in Nat
  <2>1. GivenCount \in Nat
    BY <1>0
  <2> QED BY <2>1, CountNext DEF Among
<1>2. CASE app = "send"
  <2>1. Answers = Append(Given, reply)
    <3>1. Answers = Given \o <<reply>>
      BY <1>2 DEF Answers, Given
    <3>2. Given \in Seq(Message) /\ reply \in Message
      BY <1>0
    <3> QED BY <3>1, <3>2, AppendIsConcat
  <2>2. /\ DOMAIN Answers = 1 .. GivenCount + 1 /\ Len(Answers) = GivenCount + 1
        /\ \A k \in 1 .. GivenCount : Answers[k] = Given[k]
        /\ Answers[GivenCount + 1] = reply
    <3>1. Given \in Seq(Message) /\ reply \in Message
      BY <1>0
    <3>2. /\ Append(Given, reply) \in Seq(Message)
          /\ Len(Given) + 1 = Len(Append(Given, reply))
          /\ \A k \in 1 .. Len(Given) : Append(Given, reply)[k] = Given[k]
          /\ Append(Given, reply)[Len(Given) + 1] = reply
      BY <3>1, Appended
    <3> QED BY <2>1, <3>2, LenProperties DEF GivenCount
  <2>3. ASSUME NEW k \in 0 .. GivenCount
        PROVE  Count(Answers, k, ReplyText) = Among(k, ReplyText)
    <3>1. k \in Nat /\ \A i \in 1 .. k : i \in 1 .. GivenCount
      BY <1>1
    <3>2. \A i \in 1 .. k : Answers[i] = Given[i]
      BY <2>2, <3>1, Zenon
    <3> QED BY <3>1, <3>2, CountSame DEF Among
  <2>4. Count(Answers, GivenCount + 1, ReplyText) = Handled
    <3>1. Count(Answers, GivenCount, ReplyText) = Among(GivenCount, ReplyText)
      <4>1. GivenCount \in 0 .. GivenCount
        BY <1>1
      <4> QED BY <2>3, <4>1
    <3>2. Count(Answers, GivenCount + 1, ReplyText) = Count(Answers, GivenCount, ReplyText) + 1
      BY <1>0, <2>2, CountNext
    <3> QED BY <1>0, <1>2, <3>1, <3>2
  <2>5. ASSUME NEW k \in 1 .. GivenCount + 1, Answers[k].payload \in ReplyText
        PROVE  Pair(Answers[k]) = Service!AnswerTo(accepted[Count(Answers, k, ReplyText)])
    <3>1. CASE k \in 1 .. GivenCount
      <4>1. k \in 0 .. GivenCount
        BY <1>1, <3>1
      <4>2. Count(Answers, k, ReplyText) = Among(k, ReplyText) /\ Answers[k] = Given[k]
        BY <2>2, <2>3, <3>1, <4>1
      <4> QED BY <1>0, <2>5, <3>1, <4>2 DEF EachAnswered
    <3>2. CASE k = GivenCount + 1
      <4>1. Answers[k] = reply /\ Count(Answers, k, ReplyText) = Handled
        BY <2>2, <2>4, <3>2
      <4>2. Pair(reply) = Service!AnswerTo(accepted[Handled])
        BY <1>0, <1>2 DEF AtWork
      <4> QED BY <4>1, <4>2
    <3>3. k \in 1 .. GivenCount \/ k = GivenCount + 1
      <4>1. GivenCount \in Nat
        BY <1>0
      <4> QED BY <4>1
    <3> QED BY <3>1, <3>2, <3>3
  <2>6. Handled = count.rx - (IF app \in {"command", "read counters"} THEN 1 ELSE 0)
    BY <1>0, <1>2 DEF Handled
  <2> QED BY <2>2, <2>4, <2>5, <2>6 DEF AnswersSurviveTelemetry, Pair
<1>3. CASE app # "send"
  <2>1. Answers = Given
    <3>1. Answers = Given \o << >>
      BY <1>3 DEF Answers, Given
    <3> QED BY <1>0, <3>1, ConcatEmptySeq
  <2>2. DOMAIN Given = 1 .. GivenCount
    <3>1. Given \in Seq(Message)
      BY <1>0
    <3> QED BY <3>1, LenProperties DEF GivenCount
  <2>3. Among(GivenCount, ReplyText)
          = Handled - (IF app \in {"command", "read counters"} THEN 1 ELSE 0)
    <3>1. CASE app = "receive"
      BY <1>0, <3>1
    <3>2. CASE app \in {"command", "read counters"}
      <4>1. Handled = Among(GivenCount, ReplyText) + 1
        BY <1>0, <3>2
      <4>2. Among(GivenCount, ReplyText) = Handled - 1
        BY <1>1, <4>1
      <4> QED BY <3>2, <4>2
    <3> QED BY <1>0, <1>3, <3>1, <3>2
  <2>4. \A k \in 1 .. GivenCount :
          Given[k].payload \in ReplyText =>
            Pair(Given[k]) = Service!AnswerTo(accepted[Count(Given, k, ReplyText)])
    BY <1>0 DEF EachAnswered, Among
  <2> QED BY <2>1, <2>2, <2>3, <2>4
      DEF AnswersSurviveTelemetry, Pair, Among, Handled, GivenCount
<1> QED BY <1>2, <1>3

\* The reports are numbered without a gap whatever task_app sends between them,
\* for any period of the status and any number of reports.
THEOREM NumbersWithoutGaps == TelemetrySpec => []SequenceHasNoGaps
<1>1. Besides => SequenceHasNoGaps
  BY NumberedMeansNoGaps DEF Besides
<1> QED BY <1>1, BesidesHolds, PTL

\* With the reports of task_telemetry taken out, the k-th answer still answers
\* the k-th message the parser delivered.
THEOREM AnswersSurvive == TelemetrySpec => []AnswersSurviveTelemetry
<1>1. Besides => AnswersSurviveTelemetry
  BY BesidesMeansSurvival DEF Besides
<1> QED BY <1>1, BesidesHolds, PTL

\* The periodic reports cost no byte of reception: one is still lost only after
\* the whole chain from the interrupt to the application has filled up.
THEOREM LossIsStillBackpressure ==
  ASSUME FastReception
  PROVE  TelemetrySpec => LossNeedsAStalledApplication
<1>1. Besides /\ [TelemetryNext]_telemetryVars => [count'.qd > count.qd => Full]_vars
  <2> SUFFICES ASSUME Besides, [TelemetryNext]_telemetryVars
               PROVE  [count'.qd > count.qd => Full]_vars
    OBVIOUS
  <2>1. StoresOK /\ count.qd \in Nat
    BY Names DEF Besides, BoardOK, StoresOK, CountersOK
  <2>2. CASE Next
    BY <2>1, <2>2, LossMeansFull
  <2>3. CASE Tick \/ TelemetryStep
    <3>1. count' = count
      BY <2>3, TelemetryStepsApart DEF Apart
    <3> QED BY <2>1, <3>1
  <2>4. CASE UNCHANGED telemetryVars
    BY <2>4 DEF telemetryVars
  <2> QED BY <2>2, <2>3, <2>4 DEF TelemetryNext, TelemetryStep
<1> QED BY <1>1, BesidesHolds, PTL DEF TelemetrySpec, LossNeedsAStalledApplication, Full
=============================================================================
