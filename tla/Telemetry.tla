------------------------------ MODULE Telemetry ------------------------------
(***************************************************************************)
(* firmware/app/tasks.c, task_telemetry, with app_build_telemetry_message  *)
(* (app.c) and sensors.c: the task that reports every period, beside       *)
(* task_app on the transmission queue.  The line of tasks_start that       *)
(* creates it is commented out: TelemetryCreated is FALSE of the firmware, *)
(* and TRUE of the board with that line restored.                          *)
(*                                                                         *)
(* The unit of time is TELEMETRY_PERIOD_MS, counted from the first         *)
(* instruction of the task.                                                *)
(***************************************************************************)
EXTENDS Pipeline

CONSTANTS TelemetryCreated,  \* tasks_start creates task_telemetry
          StatusEvery,       \* STATUS_PERIOD_MS / TELEMETRY_PERIOD_MS
          MaxPeriods         \* bound: periods that elapse

ASSUME TelemetryAssumption ==
  TelemetryCreated \in BOOLEAN /\ StatusEvery \in Nat \ {0} /\ MaxPeriods \in Nat

VARIABLES now,                        \* the tick count, in periods
          telemetry,                  \* where the task is
          last_wake, counter, draft   \* its local variables

clock         == <<telemetry, last_wake, counter, draft>>
telemetryVars == <<vars, now, clock>>

sensors_build_telemetry_payload(sequence) == [temp |-> 20 + (sequence % 10), seq |-> sequence]

app_build_telemetry_message(sequence) ==
  [type |-> "DAT", payload |-> "data",
   readings |-> sensors_build_telemetry_payload(sequence)]

TelemetryInit ==
  /\ Init
  /\ now = 0
  /\ telemetry = "delay" /\ last_wake = 0 /\ counter = 0
  /\ draft = NoReply

Tick == running /\ now < MaxPeriods /\ now' = now + 1 /\ UNCHANGED <<vars, clock>>

-----------------------------------------------------------------------------
(* task_telemetry, cut at its blocking calls like the other tasks. *)

\* vTaskDelayUntil: the next wake-up is one period after the last one was due.
vTaskDelayUntil == last_wake' = last_wake + 1

EndOfLoop ==
  /\ telemetry' = "delay"
  /\ counter' = counter + 1
  /\ vTaskDelayUntil

\* A task that was not created never gets here.
Wake ==
  /\ TelemetryCreated
  /\ Priority2
  /\ telemetry = "delay" /\ now >= last_wake
  /\ telemetry' = "send data"
  /\ draft' = app_build_telemetry_message(counter)
  /\ UNCHANGED <<vars, now, last_wake, counter>>

\* Mutant: xQueueOverwrite, so that the line always carries the latest data.
OverwritingSend ==
  /\ Priority2
  /\ g_uart_tx_queue' = IF Len(g_uart_tx_queue) < UartTxQueueLength
                        THEN Append(g_uart_tx_queue, draft)
                        ELSE [g_uart_tx_queue EXCEPT ![Len(g_uart_tx_queue)] = draft]
  /\ UNCHANGED <<upstream, count, g_app_queue, application, actuation, sending, wire, now>>

\* xQueueSend to g_uart_tx_queue with portMAX_DELAY.
SendDraft ==
  /\ Priority2 /\ Len(g_uart_tx_queue) < UartTxQueueLength
  /\ g_uart_tx_queue' = Append(g_uart_tx_queue, draft)
  /\ UNCHANGED <<upstream, count, g_app_queue, application, actuation, sending, wire, now>>

\* An STS of its own account looks like an answer on the line; its payload has
\* another name here for the properties only, and its counters are left out.
app_build_status == Reply("STS", "periodic")

SendData ==
  /\ telemetry = "send data"
  /\ SendDraft
  /\ \/ /\ counter % StatusEvery # 0
        /\ EndOfLoop
        /\ draft' = NoReply
     \/ /\ counter % StatusEvery = 0
        /\ telemetry' = "send status" /\ draft' = app_build_status
        /\ UNCHANGED <<last_wake, counter>>

SendStatus ==
  /\ telemetry = "send status"
  /\ SendDraft
  /\ EndOfLoop
  /\ draft' = NoReply

-----------------------------------------------------------------------------

TelemetryNext ==
  \/ Next /\ UNCHANGED <<now, clock>>
  \/ Tick
  \/ Wake \/ SendData \/ SendStatus

\* Time goes on, and the task, if there is one, shares priority 2 like the others.
TelemetrySpec ==
  /\ TelemetryInit /\ [][TelemetryNext]_telemetryVars
  /\ Fairness
  /\ WF_telemetryVars(Tick)
  /\ WF_telemetryVars(Wake \/ SendData \/ SendStatus)

-----------------------------------------------------------------------------
(* Properties. *)

\* How many of the first n messages of s carry one of these texts.
Count(s, n, texts) == Cardinality({j \in 1 .. n : s[j].payload \in texts})

\* The reports are numbered without a gap, whatever else is on the line.
SequenceHasNoGaps ==
  \A k \in DOMAIN wire :
    wire[k].payload = "data" => wire[k].readings.seq = Count(wire, k - 1, {"data"})

\* Two tasks write to one queue: with the periodic reports taken out, the k-th
\* answer still answers the k-th message the parser delivered.
AnswersSurviveTelemetry ==
  /\ Count(Answers, Len(Answers), ReplyText)
       = count.rx - (IF app \in {"command", "read counters"} THEN 1 ELSE 0)
  /\ \A k \in DOMAIN Answers :
       Answers[k].payload \in ReplyText =>
         <<Answers[k].type, Answers[k].payload>>
           = Service!AnswerTo(accepted[Count(Answers, k, ReplyText)])
=============================================================================
