------------------------------ MODULE Startup ------------------------------
(***************************************************************************)
(* firmware/app/tasks.c, tasks_start, against the heap of FreeRTOSConfig.h: *)
(* five queues whose creation is asserted, then tasks whose creation is    *)
(* not, then the scheduler, which needs one task more.                     *)
(*                                                                         *)
(* heap_4.c has one free block here, since nothing but the stack of a task *)
(* without a control block is ever given back: free is its size.           *)
(***************************************************************************)
EXTENDS Integers, Sequences

CONSTANTS
  HeapSizes,            \* values of configTOTAL_HEAP_SIZE
  QueueHeader, TCB,     \* sizeof(Queue_t) and sizeof(TCB_t) of the kernel
  MessageSizes,         \* sizeof(protocol_message_t): the enum has 1 or 4 bytes
  EnoughHeap            \* the configTOTAL_HEAP_SIZE from which on nothing is short

ASSUME StartupAssumption ==
  /\ HeapSizes \subseteq Nat /\ MessageSizes \subseteq Nat
  /\ QueueHeader \in Nat /\ TCB \in Nat /\ EnoughHeap \in Nat

VARIABLES
  heap, message,        \* of this build
  telemetry,            \* the line that creates task_telemetry is restored
  stage, free,
  queues, tasks         \* for each creation so far, whether it succeeded

build == <<heap, message, telemetry>>
vars  == <<build, stage, free, queues, tasks>>

Word       == 4
Alignment  == 8
HeapStruct == 8

\* tasks_start, in the order of its calls; 32 is sizeof(actuator_command_t).
QueueBytes == <<64 * 1, 64 * 1, 8 * message, 8 * message, 8 * 32>>

\* Mutant: xTaskCreate is given bytes, and takes them for words.
DepthInBytes ==
  <<640, 768, 768>> \o (IF telemetry THEN <<768>> ELSE << >>) \o <<640, 768>>

StackDepth ==
  <<160, 192, 192>> \o (IF telemetry THEN <<192>> ELSE << >>) \o <<160, 192>>

configMINIMAL_STACK_SIZE == 128

\* prvHeapInit, for an array that begins offset bytes after a multiple of 8.
FirstFreeBlock(offset) ==
  LET first == ((offset + Alignment - 1) \div Alignment) * Alignment
      last  == ((offset + heap - HeapStruct) \div Alignment) * Alignment
  IN  last - first

Init ==
  /\ heap \in HeapSizes /\ message \in MessageSizes /\ telemetry \in BOOLEAN
  /\ \E offset \in 0 .. Alignment - 1 : free = FirstFreeBlock(offset)
  /\ stage = "queues" /\ queues = << >> /\ tasks = << >>

-----------------------------------------------------------------------------
(* pvPortMalloc. *)

Block(bytes) == ((bytes + HeapStruct + Alignment - 1) \div Alignment) * Alignment

Fits(bytes, room) == Block(bytes) <= room

\* What is left of room; a remainder too small for a block goes with the block.
Rest(bytes, room) ==
  IF room - Block(bytes) > 2 * HeapStruct THEN room - Block(bytes) ELSE 0

-----------------------------------------------------------------------------

xQueueCreate ==
  LET bytes == QueueHeader + QueueBytes[Len(queues) + 1]
  IN  /\ stage = "queues" /\ Len(queues) < Len(QueueBytes)
      /\ queues' = Append(queues, Fits(bytes, free))
      /\ free' = IF Fits(bytes, free) THEN Rest(bytes, free) ELSE free
      /\ UNCHANGED <<build, stage, tasks>>

\* configASSERT disables interrupts and loops.
AssertQueues ==
  /\ stage = "queues" /\ Len(queues) = Len(QueueBytes)
  /\ stage' = IF \A k \in DOMAIN queues : queues[k] THEN "tasks" ELSE "halted"
  /\ UNCHANGED <<build, free, queues, tasks>>

\* prvCreateTask: the stack, then the control block, or the stack is freed.
TaskFits(depth) ==
  Fits(Word * depth, free) /\ Fits(TCB, Rest(Word * depth, free))

AfterTask(depth) == Rest(TCB, Rest(Word * depth, free))

\* The result is not looked at.
xTaskCreate ==
  LET depth == StackDepth[Len(tasks) + 1]
  IN  /\ stage = "tasks" /\ Len(tasks) < Len(StackDepth)
      /\ tasks' = Append(tasks, TaskFits(depth))
      /\ free' = IF TaskFits(depth) THEN AfterTask(depth) ELSE free
      /\ UNCHANGED <<build, stage, queues>>

\* vTaskStartScheduler creates the idle task, and asserts that it could.
vTaskStartScheduler ==
  /\ stage = "tasks" /\ Len(tasks) = Len(StackDepth)
  /\ \/ /\ TaskFits(configMINIMAL_STACK_SIZE)
        /\ stage' = "running" /\ free' = AfterTask(configMINIMAL_STACK_SIZE)
     \/ /\ ~TaskFits(configMINIMAL_STACK_SIZE)
        /\ stage' = "halted" /\ UNCHANGED free
  /\ UNCHANGED <<build, queues, tasks>>

Next == xQueueCreate \/ AssertQueues \/ xTaskCreate \/ vTaskStartScheduler

Spec == Init /\ [][Next]_vars /\ WF_vars(Next)

-----------------------------------------------------------------------------
(* Properties. *)

Whole == \A k \in DOMAIN tasks : tasks[k]

\* From EnoughHeap on, which leaves a good part of the 10 KiB of the firmware to
\* spare, every creation that nobody checks succeeds and the scheduler starts:
\* with task_telemetry or without, wherever the linker puts the heap.
FirmwareStartsWhole ==
  heap >= EnoughHeap ~> stage = "running" /\ Len(tasks) = Len(StackDepth) /\ Whole
=============================================================================
