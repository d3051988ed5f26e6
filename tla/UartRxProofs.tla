---------------------------- MODULE UartRxProofs ----------------------------
(***************************************************************************)
(* Proofs about the receiver of USART1 and its interrupt, for any length   *)
(* of the queue and any number of bytes.                                   *)
(***************************************************************************)
EXTENDS UartRx, TLAPS

\* Every byte that arrived, split by the flag that says whether one waits.
Fates ==
  /\ rxne => arrived = lost + 1 + irq
  /\ ~rxne => arrived = lost + irq
  /\ irq = early + qd + queue + taken

\* The handler reads only when there is a byte to read, and bytes are numbered
\* in the order in which they enter the data register.
Order ==
  /\ isr = "receive" => rxne
  /\ rxne => dr > newest /\ dr <= arrived
  /\ newest <= arrived

Inv == TypeOK /\ Fates /\ Order

LEMMA InitInv == Init => Inv
<1> SUFFICES ASSUME Init PROVE Inv
  OBVIOUS
<1>1. FlagsOK
  BY Zenon DEF Init, FlagsOK
<1>2. NumbersOK
  BY UartRxAssumption DEF Init, NumbersOK
<1>3. Fates /\ Order
  BY DEF Init, Fates, Order
<1> QED BY <1>1, <1>2, <1>3 DEF Inv, TypeOK

-----------------------------------------------------------------------------

LEMMA NextFlagsOK ==
  ASSUME FlagsOK, [Next]_vars
  PROVE  FlagsOK'
<1>1. CASE Arrive
  BY <1>1, Zenon DEF Arrive, FlagsOK, handler
<1>2. CASE TestFlag
  BY <1>2, Zenon DEF TestFlag, FlagsOK, line, register
<1>3. CASE Receive
  BY <1>3, Zenon DEF Receive, FlagsOK, line
<1>4. CASE CreateQueues
  BY <1>4, Zenon DEF CreateQueues, FlagsOK, line, register, handler
<1>5. CASE StartScheduler
  BY <1>5, Zenon DEF StartScheduler, FlagsOK, line, register, handler
<1>6. CASE task_uart_rx
  BY <1>6, Zenon DEF task_uart_rx, FlagsOK, line, register, handler
<1>7. CASE UNCHANGED vars
  BY <1>7, Zenon DEF vars, FlagsOK, line, register, handler
<1> QED BY <1>1, <1>2, <1>3, <1>4, <1>5, <1>6, <1>7 DEF Next, ReturnAtOnce, Sleep

LEMMA NextNumbersOK ==
  ASSUME NumbersOK, [Next]_vars
  PROVE  NumbersOK'
<1>1. CASE Arrive
  BY <1>1, UartRxAssumption DEF Arrive, NumbersOK, handler
<1>2. CASE TestFlag
  BY <1>2, UartRxAssumption DEF TestFlag, NumbersOK, line, register
<1>3. CASE Receive
  BY <1>3, UartRxAssumption DEF Receive, NumbersOK, line
<1>4. CASE CreateQueues
  BY <1>4, UartRxAssumption DEF CreateQueues, NumbersOK, line, register, handler
<1>5. CASE StartScheduler
  BY <1>5, UartRxAssumption DEF StartScheduler, NumbersOK, line, register, handler
<1>6. CASE task_uart_rx
  BY <1>6, UartRxAssumption DEF task_uart_rx, NumbersOK, line, register, handler
<1>7. CASE UNCHANGED vars
  BY <1>7 DEF vars, NumbersOK, line, register, handler
<1> QED BY <1>1, <1>2, <1>3, <1>4, <1>5, <1>6, <1>7 DEF Next, ReturnAtOnce, Sleep

\* A byte leaves one place and enters one other.
LEMMA NextFates ==
  ASSUME NumbersOK, Order, Fates, [Next]_vars
  PROVE  Fates'
<1>1. CASE Arrive
  BY <1>1 DEF Arrive, NumbersOK, Fates, handler
<1>2. CASE TestFlag
  BY <1>2 DEF TestFlag, Fates, line, register
<1>3. CASE Receive
  BY <1>3 DEF Receive, NumbersOK, Order, Fates, line
<1>4. CASE CreateQueues
  BY <1>4 DEF CreateQueues, Fates, line, register, handler
<1>5. CASE StartScheduler
  BY <1>5 DEF StartScheduler, Fates, line, register, handler
<1>6. CASE task_uart_rx
  BY <1>6 DEF task_uart_rx, NumbersOK, Fates, line, register, handler
<1>7. CASE UNCHANGED vars
  BY <1>7 DEF vars, Fates, line, register, handler
<1> QED BY <1>1, <1>2, <1>3, <1>4, <1>5, <1>6, <1>7 DEF Next, ReturnAtOnce, Sleep

\* Only TestFlag enters the handler, and it asks for the flag; only Arrive
\* changes the data register, and only when it is empty.
LEMMA NextOrder ==
  ASSUME NumbersOK, Order, [Next]_vars
  PROVE  Order'
<1>1. CASE Arrive
  BY <1>1 DEF Arrive, NumbersOK, Order, handler
<1>2. CASE TestFlag
  BY <1>2 DEF TestFlag, Order, line, register
<1>3. CASE Receive
  BY <1>3 DEF Receive, NumbersOK, Order, line
<1>4. CASE CreateQueues
  BY <1>4 DEF CreateQueues, Order, line, register, handler
<1>5. CASE StartScheduler
  BY <1>5 DEF StartScheduler, Order, line, register, handler
<1>6. CASE task_uart_rx
  BY <1>6 DEF task_uart_rx, Order, line, register, handler
<1>7. CASE UNCHANGED vars
  BY <1>7 DEF vars, Order, line, register, handler
<1> QED BY <1>1, <1>2, <1>3, <1>4, <1>5, <1>6, <1>7 DEF Next, ReturnAtOnce, Sleep

LEMMA Invariance == Spec => []Inv
<1>1. Inv /\ [Next]_vars => Inv'
  BY NextFlagsOK, NextNumbersOK, NextFates, NextOrder DEF Inv, TypeOK
<1> QED BY InitInv, <1>1, PTL DEF Spec

-----------------------------------------------------------------------------

\* The registers, the counters and the queue keep their types, and the queue
\* its length (uart_comm.c, 84).
THEOREM TypeCorrect == Spec => []TypeOK
<1>1. Inv => TypeOK
  BY DEF Inv
<1> QED BY Invariance, <1>1, PTL

\* Every byte of the line is lost by the hardware, waiting, forgotten at boot,
\* dropped and counted, queued or taken, and is so once (uart_comm.c, 72-90).
THEOREM OneFate == Spec => []EveryByteHasOneFate
<1>1. Inv => EveryByteHasOneFate
  <2> SUFFICES ASSUME Inv PROVE EveryByteHasOneFate
    OBVIOUS
  <2>1. CASE rxne
    BY <2>1 DEF Inv, TypeOK, NumbersOK, Fates, EveryByteHasOneFate
  <2>2. CASE ~rxne
    BY <2>2 DEF Inv, TypeOK, NumbersOK, Fates, EveryByteHasOneFate
  <2> QED BY <2>1, <2>2
<1> QED BY Invariance, <1>1, PTL

\* Each byte the handler reads is newer than the last (uart_comm.c, 77-81).
THEOREM NeverTwice == Spec => NoByteIsReadTwice
<1>1. Inv /\ [Next]_vars => [irq' # irq => dr > newest]_vars
  <2> SUFFICES ASSUME Inv, [Next]_vars, irq' # irq
               PROVE  dr > newest
    OBVIOUS
  <2>1. Receive
    BY DEF Next, vars, Arrive, TestFlag, ReturnAtOnce, CreateQueues, StartScheduler,
           task_uart_rx, Sleep, handler
  <2> QED BY <2>1 DEF Inv, Order, Receive
<1> QED BY Invariance, <1>1, PTL DEF Spec, NoByteIsReadTwice
=============================================================================
