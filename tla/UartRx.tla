------------------------------- MODULE UartRx -------------------------------
(***************************************************************************)
(* firmware/drivers/uart_comm.c: the receiver of USART1 and its interrupt, *)
(* with the two bits of the status register the handler meets, from the    *)
(* moment uart_comm_init enables the interrupt.                            *)
(*                                                                         *)
(* RXNE: the data register holds a byte that was not read.  ORE: a byte    *)
(* arrived meanwhile and was lost.  Either of them raises the interrupt.   *)
(* Reading the data register clears RXNE; it clears ORE only if the status *)
(* register was read since ORE was set.                                    *)
(*                                                                         *)
(* main and the tasks run when the interrupt does not.  The n-th byte of   *)
(* the line is n.                                                          *)
(***************************************************************************)
EXTENDS Integers

CONSTANTS UartRxIsrQueueLength,
          MaxBytes                 \* bound: bytes that arrive

ASSUME UartRxAssumption == UartRxIsrQueueLength \in Nat \ {0} /\ MaxBytes \in Nat

VARIABLES
  phase,           \* "boot", then "masked" from the first xQueueCreate, then "running"
  arrived, lost,   \* bytes on the line so far, and those the hardware lost
  dr, rxne, ore,   \* data register and the bits of the status register
  late,            \* the byte in dr waited while interrupts were masked
  isr, saw_ore,    \* where the handler is, and ORE when it read the status register
  irq, qd,         \* g_uart_rx_irq_count and g_uart_rx_drop_count
  queue, early,    \* bytes queued, and bytes read when there was no queue
  taken, newest    \* bytes taken by task_uart_rx, and the last byte the handler read

line     == <<arrived, lost>>
register == <<dr, rxne, ore, late>>
handler  == <<isr, saw_ore, irq, qd, early, newest>>
vars     == <<phase, line, register, handler, queue, taken>>

Init ==
  /\ phase = "boot"
  /\ arrived = 0 /\ lost = 0
  /\ dr = 0 /\ rxne = FALSE /\ ore = FALSE /\ late = FALSE
  /\ isr = "out" /\ saw_ore = FALSE
  /\ irq = 0 /\ qd = 0 /\ queue = 0 /\ early = 0 /\ taken = 0 /\ newest = 0

Pending  == phase # "masked" /\ (rxne \/ ore)
Free     == isr = "out" /\ ~Pending

-----------------------------------------------------------------------------
(* The receiver.  A byte takes 87 microseconds: the handler reads it before *)
(* the next one unless it had to wait for interrupts to be enabled.         *)

Arrive ==
  /\ arrived < MaxBytes
  /\ rxne => phase = "masked" \/ late
  /\ arrived' = arrived + 1
  /\ \/ /\ rxne
        /\ ore' = TRUE /\ lost' = lost + 1
        /\ UNCHANGED <<dr, rxne, late>>
     \/ /\ ~rxne
        /\ dr' = arrived + 1 /\ rxne' = TRUE /\ late' = (phase = "masked")
        /\ UNCHANGED <<ore, lost>>
  /\ UNCHANGED <<phase, handler, queue, taken>>

-----------------------------------------------------------------------------
(* usart1_isr. *)

\* Mutant: the handler reads the data register whatever the flag says.
FlagNotTested ==
  /\ isr = "out" /\ Pending
  /\ isr' = "receive" /\ saw_ore' = ore
  /\ UNCHANGED <<phase, line, register, irq, qd, early, newest, queue, taken>>

\* Mutant: the data register is read before the status register.
DataReadFirst ==
  /\ isr = "out" /\ Pending
  /\ rxne
  /\ isr' = "receive" /\ saw_ore' = FALSE
  /\ UNCHANGED <<phase, line, register, irq, qd, early, newest, queue, taken>>

\* Mutant: the handler returns at once when there is no queue.
QueueTestedFirst ==
  /\ isr = "out" /\ Pending /\ rxne
  /\ isr' = IF phase = "running" THEN "receive" ELSE "out"
  /\ saw_ore' = (isr' = "receive" /\ ore)
  /\ UNCHANGED <<phase, line, register, irq, qd, early, newest, queue, taken>>

\* usart_get_flag.
TestFlag ==
  /\ isr = "out" /\ Pending
  /\ rxne
  /\ isr' = "receive" /\ saw_ore' = ore
  /\ UNCHANGED <<phase, line, register, irq, qd, early, newest, queue, taken>>

\* With ORE alone the handler returns, and the interrupt is still pending.
ReturnAtOnce == isr = "out" /\ Pending /\ ~rxne /\ UNCHANGED vars

\* Mutant: the result of xQueueSendFromISR is not looked at.
FullQueueIgnored ==
  /\ isr = "receive"
  /\ isr' = "out" /\ saw_ore' = FALSE
  /\ rxne' = FALSE /\ late' = FALSE /\ ore' = (ore /\ ~saw_ore)
  /\ irq' = irq + 1 /\ newest' = dr
  /\ \/ phase = "boot" /\ early' = early + 1 /\ UNCHANGED <<queue, qd>>
     \/ phase = "running" /\ queue' = queue + 1 /\ UNCHANGED <<qd, early>>
  /\ UNCHANGED <<phase, line, dr, taken>>

\* usart_recv, and the byte to the queue.
Receive ==
  /\ isr = "receive"
  /\ isr' = "out" /\ saw_ore' = FALSE
  /\ rxne' = FALSE /\ late' = FALSE /\ ore' = (ore /\ ~saw_ore)
  /\ irq' = irq + 1 /\ newest' = dr
  /\ \/ phase = "boot" /\ early' = early + 1 /\ UNCHANGED <<queue, qd>>
     \/ /\ phase = "running" /\ queue < UartRxIsrQueueLength
        /\ queue' = queue + 1 /\ UNCHANGED <<qd, early>>
     \/ /\ phase = "running" /\ queue = UartRxIsrQueueLength
        /\ qd' = qd + 1 /\ UNCHANGED <<queue, early>>
  /\ UNCHANGED <<phase, line, dr, taken>>

-----------------------------------------------------------------------------
(* main and the tasks. *)

\* tasks_start: xQueueCreate leaves interrupts masked until the first task runs.
CreateQueues ==
  /\ phase = "boot" /\ Free
  /\ phase' = "masked"
  /\ UNCHANGED <<line, register, handler, queue, taken>>

StartScheduler ==
  /\ phase = "masked"
  /\ phase' = "running"
  /\ UNCHANGED <<line, register, handler, queue, taken>>

task_uart_rx ==
  /\ phase = "running" /\ Free
  /\ queue > 0
  /\ queue' = queue - 1 /\ taken' = taken + 1
  /\ UNCHANGED <<phase, line, register, handler>>

Sleep == phase = "running" /\ Free /\ queue = 0 /\ UNCHANGED vars

Next ==
  \/ Arrive
  \/ TestFlag \/ ReturnAtOnce \/ Receive
  \/ CreateQueues \/ StartScheduler \/ task_uart_rx \/ Sleep

\* The processor does not stop.  The line owes nothing.
Spec ==
  /\ Init /\ [][Next]_vars
  /\ WF_vars(TestFlag \/ Receive)
  /\ WF_vars(CreateQueues) /\ WF_vars(StartScheduler) /\ WF_vars(task_uart_rx)

-----------------------------------------------------------------------------
(* Properties. *)

FlagsOK ==
  /\ phase \in {"boot", "masked", "running"} /\ isr \in {"out", "receive"}
  /\ rxne \in BOOLEAN /\ ore \in BOOLEAN /\ late \in BOOLEAN /\ saw_ore \in BOOLEAN

NumbersOK ==
  /\ arrived \in Nat /\ lost \in Nat /\ dr \in Nat
  /\ irq \in Nat /\ qd \in Nat /\ early \in Nat /\ taken \in Nat /\ newest \in Nat
  /\ queue \in 0 .. UartRxIsrQueueLength

TypeOK == FlagsOK /\ NumbersOK

\* However interrupts, overruns and masking fall, the handler never reads a
\* byte it has read before, nor an older one.
NoByteIsReadTwice == [][irq' # irq => dr > newest]_vars

\* Every byte of the line has one fate: lost by the hardware, which no counter
\* shows, waiting in the data register, forgotten at boot, dropped and counted
\* in qd, queued, or taken; and irq counts exactly those that were read.
EveryByteHasOneFate ==
  /\ arrived = lost + (IF rxne THEN 1 ELSE 0) + irq
  /\ irq = early + qd + queue + taken

\* The interrupt is enabled long before it has a queue, and whatever arrives in
\* between main reaches the scheduler.
TheSchedulerStarts == <>(phase = "running")

\* An overrun can leave the interrupt pending with nothing to read, and it is
\* taken over and over; a host that goes on sending ends that.
NextByteEndsTheStorm ==
  WF_vars(Arrive) => (Pending /\ ~rxne /\ arrived < MaxBytes ~> ~ore)

\* docs/FRAME_GENERATION_AND_PARSING.md, 799: the interrupt is soon over, and
\* the processor goes back to the tasks.
InterruptIsShort == []<>Free
=============================================================================
