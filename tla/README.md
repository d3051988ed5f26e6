# Verification of the Blue Pill UART firmware

This directory holds TLA+ specifications of the firmware under `firmware/` (an
STM32F103 "Blue Pill" that answers text commands over USART1 under FreeRTOS) and
of the threads of the ROS 2 bridge beside it,
the TLC runs that check small instances of them, and proofs that TLAPS checks
for every value of their constants. `PROJECT.json` lists the runs, the mutants
that show each property can fail, the source lines every definition stands for,
the hazards the properties were chosen for, and the theorems.

## The system

A host sends frames `@LL:TTT:PAYLOAD:CC\n`. The board answers each valid one.

```
USART1 ISR -> task_uart_rx -> task_parser -> task_app -> task_uart_tx -> USART1
                                                 \-> task_actuators -> PC13
```

| Part | State | Operations | Talks to |
|---|---|---|---|
| Frame codec (`protocol.c`) | none | encode, decode a body, validate a frame, checksum | called by the parser and by task_uart_tx |
| Incremental parser (`parser.c`) | `parser_t`: state, LL, CC, body and its index | `parser_consume_byte` | called by task_parser |
| Tasks (`tasks.c`) | five queues, three counters, locals of each task | five loops around blocking queue calls | each other, by queues only |
| Application (`app.c`) | two counters | `app_handle_message`, `app_build_status_message` | queues of the actuators and of transmission; reads the counters of the others |
| Actuators (`actuators.c`) | the pin | `actuators_apply_command` | called by task_actuators |
| UART driver (`uart_comm.c`) | queue handle, two counters | the interrupt, sending bytes | the interrupt's queue |
| Boot (`main.c`, `tasks_start`) | the heap | enable the interrupt, create five queues and the tasks, start the scheduler | everything above |
| Telemetry and sensors | a sequence number, the last wake-up | periodic DAT and STS | would feed the transmission queue; the task is not created |
| ROS 2 bridge (Python) | port, stop event, reader thread | open, close, read | the line; its codec is a stub, so no topic is ever published |

What is hard in it, and what makes each part correct:

- **Parser.** It resynchronises by itself on a line that loses and damages bytes.
  It must stay inside its buffers whatever LL says, accept exactly the frames
  the batch validator accepts, be done with any frame within a bounded number of
  bytes, and lose no frame because the one before it was bad.
- **Pipeline.** Six actors, five queues, two priorities, every hand-over waits for
  ever. No byte may go uncounted, no message or answer may be lost, doubled or
  overtaken, an acknowledgement must be backed by a command, a report must make
  sense although its counters move while they are read, the tasks must not wait
  in a circle, and bytes may be dropped only when there is no room anywhere.
- **Line.** One damaged byte must cost a bounded part of the stream and must not
  turn into a message nobody sent.
- **Reception.** The interrupt is enabled before it has a queue and before there is a
  scheduler, an overrun raises it with nothing to read, and for a while interrupts
  are masked. No byte may be read twice, each must be accounted for, and the boot
  must come to its end.
- **Boot.** `xTaskCreate` can fail and nobody looks. A host that writes too early
  loses bytes to the missing queue and to overrun; it may lose the requests those
  bytes were of, and nothing else.
- **Report.** Seven counters that grow share 48 characters: what survives the cut?
- **Telemetry.** The documents promise periodic reports and the task is not created.
  Were it restored, a second sender would write to a queue that may be full: no
  answer may be displaced.
- **Bridge.** Threads that set, test, use and close a port without a lock. A late
  reader must not close its successor's port, and the bridge must not go deaf.

The full list, line by line, is under `hazards` in `PROJECT.json`.

## Modules

| Module | Models | Extends or uses |
|---|---|---|
| `Protocol` | `protocol.{h,c}` as pure operators over sequences of bytes | |
| `Parser` | `parser.{h,c}`, one action per `case` of the switch | `Protocol` |
| `ParserProofs` | theorems about `Parser` and the codec | `Parser` |
| `Link` | task_uart_tx's bytes, a line that damages one byte or cuts one frame short, the parser at the other end | `Parser` |
| `LinkProofs` | theorem about `Link` | `Link`, `ParserProofs` |
| `Board` | abstract specification: what the board promises to its host | |
| `Pipeline` | interrupt, five tasks, five queues, application, LED | `Board` (refinement) |
| `PipelineProofs` | theorems about `Pipeline`: bytes, order, answers, waiting, loss, LED commands, reports, the refinement of `Board` | `Pipeline` |
| `System` | host, `Pipeline` and `Parser` together, byte by byte | `Pipeline`, `Parser` |
| `SystemProofs` | theorems about `System` | `System`, `PipelineProofs`, `ParserProofs` (instance) |
| `Telemetry` | `task_telemetry` and `sensors.c` beside the other tasks | `Pipeline` |
| `TelemetryProofs` | theorems about `Telemetry` | `Telemetry`, `PipelineProofs` |
| `Report` | the text of a status report and its cut | |
| `ReportProofs` | theorems about `Report` | `Report` |
| `UartRx` | the receiver of USART1 and `usart1_isr`, with RXNE and ORE | |
| `UartRxProofs` | theorems about `UartRx` | `UartRx` |
| `Startup` | `tasks_start` against the heap | |
| `Bridge` | `serial_bridge_node.py`, one access to a shared attribute at a time | |
| `BridgeProofs` | theorems about `Bridge` | `Bridge` |
| `MCParser`, `MCLink`, `MCPipeline`, `MCSystem`, `MCTelemetry`, `MCReport` | the instances TLC checks | |

Names are those of the C code wherever TLA+ allows it. Operators whose comment
begins with "Mutant:" are plausible mistakes in the definition that follows
them; nothing but `PROJECT.json` refers to them.

### Protocol and Parser

A byte is its code, a buffer with its index is one sequence, a function that
returns false yields `NoMessage` or `NoFrame`. The widths of the type and of the
payload are constants. `CString` is what `strlen` and `strcmp` see of a buffer;
it matters, because the parser counts bytes and `protocol_validate_frame` calls
`strlen`. The checksum is written bit by bit as a parity, which needs no
recursion and so can be used under the proofs; an assumption of `MCLink`
compares the encoder with four frames of the host tests.

`Parser` has the fields of `parser_t`, the argument and the result of the last
call, and one history variable, `window`: the bytes since the `@` of the frame
being read. `parser_reset` clears `body[0]` and the index only; the sequence
`body` is what the index delimits, and no step of the code reads past it, so the
remains of earlier frames are not in the model. `BodyInBounds` compares the index
and its terminator with the size of the array, PROTOCOL_MAX_BODY_SIZE + 1, and not
with the length the line announced. `AgreesWithValidateFrame` compares the parser with
the validator told how many bytes there are (`ValidateBytes`): the function of the
code measures its argument with `strlen`, and what that changes is `parser_nul`.

### Link

`task_uart_tx` puts a frame on the line with `\r\n` for `\n`
(`UART_TX_CRLF_FOR_TERMINAL`) once the line is empty. `Damage`, which is
external, alters one byte, loses one, or loses the rest of a frame (a sender that
gives up: the parser has no timeout). `traffic` says what is sent in a behaviour,
and how much. Frames go from a sender running this
encoder to a receiver running this parser, which is either direction. `start` is a
history variable: the number of bytes, `\r` left out, sent before each frame.

### Pipeline and Board

A task is always at one of its blocking calls; an action takes it from one to
the next.

| Code | Actions |
|---|---|
| `tasks_start` | `StartScheduler` |
| `usart1_isr` | `usart1_isr`: no queue yet, room, full |
| `task_uart_rx` | `RxReceive`, `RxSend` |
| `task_parser` | `ParserReceive`, `ParserSend` |
| `task_app`, `app_handle_message` | `AppReceive`, `SendCommand`, `ReadCounter`, `SendReply` |
| `task_actuators` | `ApplyCommand` |
| `task_uart_tx` | `TxReceive`, `TxSend` |
| the idle task | `IdleTask` |

Why the cuts are fine enough: tasks share nothing but queues and counters. Only
task_app reads the counters of others, and it runs at priority 2, when the two
tasks of priority 3 are blocked in a queue call and the interrupt is not
running; so a counter is never seen half-way through another action. Between two
of its own reads anything may run, and `ReadCounter` reads one at a time in any
order (C leaves the order of the arguments of `snprintf` open).

Priorities are guards: `Priority2` requires that neither task of priority 3 can
proceed. Tasks of equal priority share it in time slices, so any of them may
take the next step. `usart_send_blocking` spins, so task_uart_tx stays ready
while it sends.

Abstractions. Bytes are indistinguishable and a byte queue is a number. A call of
`parser_consume_byte` returns any of its three results: an over-approximation,
and what it really returns is `Parser`'s matter, and `System` puts the two together. `protocol_encode_frame` accepts
every message task_app sends (48 bytes of payload make 60 bytes of frame in a
buffer of 64). A report has its counters; its text is `Report`. The 2^32 wrap of the
counters is not modelled.

Boot. `uart_comm_init` enables the interrupt long before `tasks_start` gives it a
queue; those bytes are the first disjunct of `usart1_isr`. From the first
`xQueueCreate` until the first task runs the kernel leaves interrupts of this
priority masked (`configMAX_SYSCALL_INTERRUPT_PRIORITY` is 5 << 4 and the USART
has 0x50), so `tasks_start` is one step here, where only bytes the interrupt has
counted exist. What waits or is lost in the hardware meanwhile is in `System`, for
the frames it is of, and in `UartRx`, register by register; what the creations take
from the heap is in `Startup`.

`Board` knows no queues: requests come in, each is answered once and in order
from a table, LED commands move the LED in order, and an answer and the movement
it acknowledges are independent. `Service` instantiates it on the accepted
messages, the line and the pin; `ServiceIsProvided` says that `Pipeline`,
fairness included, implements it. The table in `Board` is written apart from
`app_handle_message`, so the refinement compares the two. `Board`, and the
properties about acknowledgements and reports, count commands, errors and answers
with the cardinality of a set of places: of the n-th command one can then say at
which place it is, which a proof needs and a filtered sequence hides.

### System

`inflight` holds the bytes that are in the interrupt's queue, in the hands of
task_uart_rx and in the parser's queue, in order: three FIFO stores in a row, of
which `Pipeline` keeps the lengths. `ByteArrives` is `usart1_isr` with a byte of
the frame being written; `task_parser` is `ParserReceive` with
`parser_consume_byte` deciding which of its results comes out. The hosts are
those of `Hosts`: `run_bluepill` of `scripts/uart_link_check.py`, with its frames,
written one after the other without waiting, and one that does not wait for the
board to be up.

Boot is three stretches. Before `CreateQueues` a byte reaches the interrupt, which
has no queue and forgets it. From there to `StartTasks` interrupts are masked: one
byte waits in the data register (`ByteWaits`, `late`), and until the handler has read
it (`ReadLate`) every other is overrun (`ByteIsLost`). That may be after the scheduler
has started, when the first task runs before the handler, and the handler may find
nothing more: `UartRx` has the registers, and `isr_storm` what can go wrong there.
`touched` is a history variable: how many requests, from the first, were begun
when a byte was last forgotten or lost. One loss costs nothing: if the byte that
waits is an `@` and the only byte lost of the next frame is its own `@`, the one
stands in for the other, and that request is served.

### Telemetry

`tasks_start` has the line that creates `task_telemetry` commented out.
`TelemetryCreated` says whether it is restored. `Wake`, `SendData` and `SendStatus` are
the stretches between the blocking calls of the task, `Tick` the passage of one
period. Without the task none of the first three is ever enabled, so their fairness
assumes nothing of the firmware as it is. `telemetry` is about the board with the line
restored; the theorems hold of both. That the reports come every period is not a
property here, since the firmware sends none. Its
reports have names of their own (`"data"`, `"periodic"`) for the properties, which
count them (`Count`): the k-th message on the line is compared with the request
whose number is that of the answers among the first k messages.

### Report

A text is the place where each value ends. `app_build_status_message` gives what
is left of each of the seven values in the first 48 characters: all of it, its
leading digits, or nothing. The counters grow together: with requests (`Serve`),
bytes that break a frame (`Refuse`), bytes that are dropped (`Drop`), bytes the
interrupt has counted and the parser has not read (`Queue`: they wait, or came before
there was a queue) and bytes that neither end a frame nor break one (`Pass`), the last
two in runs of the lengths in `Run`. `Digits` is the number of
powers of ten a value has reached. The counters count modulo `Limit`, 2^32 in the
firmware; TLC's integers end earlier, so the run has 2 * 10^9, of as many digits, and
the theorems hold for both.

### UartRx

The handler is two steps, the read of the status register and that of the data
register, with the line free to deliver a byte in between. `phase` goes from
"boot" (interrupt enabled, no queue) over "masked" (from the first `xQueueCreate`)
to "running". Reading the data register clears ORE only if the status register
was read since ORE was set, as the reference manual of the chip has it.

### Startup

Heap, size of a message, presence of task_telemetry and alignment of the heap are
chosen at the start. The creations follow in the order of `tasks_start`, each
taking from the one free block what `pvPortMalloc` takes. Queues are asserted,
tasks are not, the idle task is.

### Bridge

Thread 0 is the executor's: the timer's `poll_serial` and `open_serial`, and at the
end `close_serial`. Thread n reads port n. Every test, use and assignment of
`serial_port`, `reader_stop` and `reader_thread` is a step, the three tests of
`reader_thread` in `close_serial` included (`TestThread`, `TestAlive`, `TestCurrent`);
only the resets of the two buffers of a new port are one step, as no reader attends a
port then. An attribute that became None between its test and its use is the
AttributeError of the code, and ends the thread; `Join` raises for a thread that main
has created and not started. The codec raises `NotImplementedError` everywhere, so a
byte makes the reader close the port, and sending a command returns before it
touches the port. A read may also return without a byte (`ReadNothing`). An exception
that leaves `open_serial` ends the node through the `finally` clause of `main`.

## Runs

| Run | Bounds | States | Shows |
|---|---|---|---|
| `parser` | one-byte types, payload of 0 or 1, 12 input bytes | 928 239 | `TypeOK`, `BodyInBounds`, `AgreesWithValidateFrame`, `FrameIsBounded`, `StartAlwaysOpensAFrame` over every stream, of any length |
| `link` | real widths; 7 short frames of two kinds or 3 frames of three sizes up to the longest; one damage | 1 745 830 | `LossIsBounded`, `DeliveredWasSent` |
| `pipeline` | queues of 1, 3 bytes, 7 kinds of request | 268 192 | `TypeOK`, `BytesAreAccountedFor`, `MessagesKeepTheirOrder`, `AnswersMatchRequests`, `AckNeverPrecedesCommand`, `IdleMeansDrained`, `ReportsAreCoherent`, `ServiceIsProvided`, `RequestsAreAnswered` |
| `telemetry` | queues of 1, 6 bytes, 3 reports, a status with every other; the task restored | 533 781 | `AnswersSurviveTelemetry`, `SequenceHasNoGaps`, `LossNeedsAStalledApplication` |
| `report` | the room of the firmware, 9999 bytes, frames of 12, up to 100 refused and 9 dropped, runs of 6000 | 1 502 620 | `FirstCountersAreExact`, `EarlyReportsAreExact` |
| `uart_rx` | queue of 3, 12 bytes | 8 331 | `TypeOK`, `EveryByteHasOneFate`, `NoByteIsReadTwice`, `TheSchedulerStarts`, `NextByteEndsTheStorm` |
| `system` | real widths, a message queue of 2 and others of 1, two hosts with 3 frames each | 662 264 | `NothingIsLost`, `AnswersFollowTheScript`, `BootCostsOnlyItsFrames`, `ScriptIsServed` |
| `startup` | heaps from 1 to 10 KiB, every alignment | 1 030 | `FirmwareStartsWhole` |
| `bridge` | 3 ports at a time, any number of reopenings | 168 124 | `OnePortAtATime`, `OpenPortHasAReader`, `ReadersCloseTheirOwnPort`, `BridgeReopens` |
| `parser_nul`, `reception_blocked`, `isr_storm` | | | violated: see below |

Why the bounds are enough:

- `parser` is exhaustive for its widths: the alphabet holds every byte the switch
  tells apart, digits that make valid, too short and too long lengths, `@`, `:`,
  `\n` and NUL inside and outside the body, and wrong and right checksums. The
  theorems say the same for all widths and bytes.
- `link`: a wrong LL can swallow at most MaxBody + 8 = 60 bytes. Seven frames of 13
  or 16 bytes leave frames beyond that distance. `DeliveredWasSent` is claimed for
  the messages of its run, not for all: the checksum has eight bits and a lost
  byte moves the ones after it.
- `pipeline`: any byte may complete a message there, so three bytes already give
  three messages, more than a queue of one place and a receiver hold, and every
  wait happens: a third LED command finds the actuator queue full, and a report
  is read while another request arrives. The proofs are for all lengths and any
  number of bytes.
- `telemetry`: with its reports on the line, six bytes are enough to fill the whole
  chain and drop one, so `LossNeedsAStalledApplication` is not empty. Three reports
  make the task late and let it catch up.
- `report`: a run of 6000 bytes waits, is read, or neither, in every order with the
  requests. It goes one step past the bounds its property names, where the report is
  no longer exact. The shortest frames make the most messages, and the longest
  text, per byte; both of its properties are proved for requests and counters of any
  size.
- `uart_rx`: bytes arrive in every phase, more than the queue holds.
- `system`: 57 bytes through queues as short as they can be for a script of three
  requests, so every hand-over waits in some schedule and a byte that is dropped too
  early, or a task that does not wait, is seen. The lengths of the firmware would
  never fill; the theorems have them, and all others.
  The board comes up before, in and after each byte of the 48 of the host that does not
  wait, and interrupts are masked for any number of them: what is checked is that
  nothing that boot leaves of a frame, a head, a tail, or an `@` that waited with a tail
  after it, makes the parser refuse what follows.
- `startup`: `EnoughHeap` is tight: with 7280 bytes some placement of the heap is too
  short for the last task.
- `bridge`: a number is used again when its port is closed and its thread has
  ended, so the behaviours are unbounded; a third port is opened while two
  readers are still on their way out, which needs them to be late twice.
- `telemetry`, `system` and `reception_blocked` assume `FastReception`: between
  two bytes the two tasks of priority 3 go as far as they can. A byte takes 87
  microseconds at 115200 baud, some 6250 cycles at 72 MHz, for two queue
  operations and one call of the parser. `pipeline` does not assume it.

### Disagreements with the documents

Three runs check a sentence of the documentation or of a comment that the code
does not keep; `findings` quotes them:

- `parser_nul`: a NUL in the payload separates the two validators, of which a comment
  says that they validate the same.
- `reception_blocked`: an application that waits does stop reception.
- `isr_storm`: the interrupt is not always short. A byte that waited while interrupts
  were masked at boot is read late; if the next one arrives between the two reads of
  its handler, ORE is left set with RXNE clear: the interrupt is pending with nothing
  to read, and the handler does nothing about it. If the line then falls silent the
  tasks never run again. `NextByteEndsTheStorm` is the other half.

Others were met on the way and have no run of their own: payloads are not
restricted to printable characters without `@`
(`docs/FRAME_GENERATION_AND_PARSING.md`, 264-269); lower-case digits are accepted
in LL and CC (533-537); a long report lacks its last counters, which `INFORME.md`
admits; no telemetry is sent, since line 202 of `tasks.c` is commented out, which
`docs/ARCHITECTURE.md`, 74, and `docs/SETUP_AND_SMOKETEST.md`, 209, announce.

### Fairness

`Fairness` in `Pipeline` is weak fairness of `StartScheduler` and of each task.
`main` reaches `tasks_start` unconditionally. The scheduler always runs a ready
task of the highest priority and shares a priority in time slices
(`configUSE_PREEMPTION`, and time slicing by default), so a task of priority 3
that stays ready runs; one of priority 2 that stays ready runs when those of
priority 3 are blocked, and its guard says so. Nothing is assumed of the line:
bytes need not arrive. Their number is bounded by `MaxBytes`, so the liveness
results are about what happens once the line is quiet.

- `System` adds that `main` gets to its first `xQueueCreate` (`CreateQueues`), that an
  interrupt that is pending and enabled is taken (`ReadLate`), and that the host goes on
  with its script: `ser.write` does not stop by itself.
- `Telemetry` adds that time passes (`Tick`) and that task_telemetry, if it was created,
  gets its slice: it shares priority 2 like the others.
- `UartRx`: the processor executes its program, each phase of which is fair when the
  interrupt lets it run. The line owes nothing; `NextByteEndsTheStorm` assumes a host
  that keeps sending in its own premise, and `isr_storm` is what happens without.
- `Startup`: a sequence of calls goes on.
- `Bridge`: a thread that can go on does. A read need not return: the line need not
  send, and what a read of a port closed by another thread does is not known.
  `BridgeReopens` assumes that the adapter is left plugged from some point on.

## Proofs

`tlapm` checks eight modules, each EXTENDing what it is about: `ParserProofs`,
`LinkProofs`, `PipelineProofs`, `SystemProofs`, `TelemetryProofs`, `ReportProofs`,
`UartRxProofs` and `BridgeProofs`. A theorem holds for every value of the constants
that satisfies the assumptions of its module, all of which TLC evaluates in a
passing run:

- `ProtocolAssumption`: texts of types have one width, are distinct and hold no
  NUL, none is called INVALID, and a body fits the two digits of LL. `InputAssumption`: what
  comes in are bytes. `QueueLengths`: lengths are positive.
- `TelemetryAssumption`: a status goes with every n-th report, n at least 1.
- `SystemAssumption`: the first two for the parser of `System`, scripts of
  requests the codec has texts for.
- `ReportAssumption`: the room of a payload holds three counters of ten digits with
  their names (12 + 3 * 10), and a counter has no more than ten.

Some theorems have hypotheses beside these, each named and evaluated by TLC for the
constants of the firmware: `FastReception` (see above), `ScriptsFit` (a host that
listens first sends no more than the queue of the application and task_app hold, nothing
the codec refuses, and no carriage return, and no two requests have one text; `MCSystem`
assumes it), `EveryScriptFits` (the same of every host, and of the requests of the
scripts, that no text holds an `@` and that nothing in a frame but its length reads as
two digits of a length and a separator; `MCSystem` assumes it too), `CleanTraffic`
(every message can be encoded and holds neither a `\r`, which the parser drops, nor an
`@`, which would open a frame inside another; `MCLink` assumes it) and `NothingWraps`
(the counters of a report do not wrap, a frame has at least 12 bytes, the room is 48 or
more; `MCReport` assumes it).

**Codec and parser** (`ParserProofs`), for every width, every table of types and
every byte stream:

- All but the last three follow from `IInv`, which is `TypeOK` with `Progress`. While a
  frame is being read, `Progress` says which state has how many bytes in the
  window and that the fields of `parser_t` are the window cut up; once it is over,
  that the message is what the validator makes of the window. The properties
  alone are not inductive: they relate the window to the message of a finished
  frame and say nothing of the frame on its way. There is one lemma per action.
- `TypeCorrect`, `BodyNeverOverruns`, `FramesAreBounded` read the bounds off `IInv`.
- `IncrementalIsBatch`: while a frame is being read its window is too short to be
  one. When the end comes, `CompleteFrame` cuts the window as
  `protocol_validate_frame` does and shows that both compute the checksum over
  the same bytes and decode the same body.
- `StartIsNeverLost`: an action property, one case per state.
- `RoundTrip`: what `protocol_encode_frame` builds, `protocol_validate_frame` accepts,
  and it finds the same message in it. A frame is described by its parts (`Shape`):
  two hexadecimal digits read back as the number they were written from, the body
  splits at the width of a type, and since neither the type nor the payload has a
  NUL the length that `strlen` sees is the length that was written. The checksum is
  the same function of the same bytes on both sides; nothing about its value is used.
- `AlteredByteIsNoOtherMessage`: whichever byte of a frame is replaced, by whichever
  other, the validator refuses the frame or still finds the message sent in it. An
  altered length digit leaves a length that no longer fits, or the same one in the
  other case; then, as for any byte the checksum covers, the eight bits are the
  parities of the bits of the bytes, and one of them has turned
  (`OneByteTurnsTheChecksum`). The bytes it does not cover are compared, except that
  the digits of CC may be written in lower case, and then the message is the same.
- For `SystemProofs`, lemmas say what the parser does with each byte of such a frame:
  after n of its bytes it has read n bytes of it (`HasRead`), and with the last one
  it returns the message.

**Link** (`LinkProofs`), for every width, any `CleanTraffic` and any number of damages:

- `DamageIsBounded`: `LossIsBounded` speaks of the moments at which the line is empty,
  so the invariant says where the parser is in the frame on the line, once a frame
  has been sent since the last damage. Either it is still in what the damage opened
  (`Lost`), and its window is then longer than all that was sent since, which
  `FrameIsBounded` bounds; or it came out of that between two frames, too late for the
  `@` of the one on the line (`Late`), within the bound; or it is in step
  (`InStep`): it has read exactly the bytes sent of this frame, and the messages of
  the frames since some frame s, which began within the bound (`Soon`), are the last
  delivered. `LostStep` says what can happen to a lost parser: it goes on, gives up, or
  is broken off by an `@`, which in clean traffic is the first byte of a frame. From
  there the byte-by-byte lemmas of `ParserProofs` carry it.

**Pipeline** (`PipelineProofs`), for all queue lengths, all requests and any number of
bytes:

- `TypeCorrect`: one lemma per part of `TypeOK`. `StoresOK` is the part of it that
  does not mention what is sent, for `TelemetryProofs`, where more is.
- `BytesConserved`: the equation is inductive given `TypeOK`.
- `OrderPreserved`: the equation needs `count.rx <= Len(accepted)`, without which a
  newly accepted message might not show on its left-hand side.
- `AnswersInOrder`: `AnsweredSoFar` says what task_app is working on at each place:
  always the last message counted in rx, with the answer its branch leads to.
  It rests on `OrderPreserved`: the head of the queue is the next message accepted.
- `NoCircularWait`: follows from `TypeOK` alone. The queues form a tree with the two
  sinks at its leaves, and an idle sink has an empty queue.
- `LossIsBackpressure`: an action property, for `FastReception`.

**The service of the board** (the second half of `PipelineProofs`), on top of `Answering`, the conjunction of the above:

- `AcksAreEarned` and `ImplementsBoard` share `CommandsInOrder`: of the messages
  task_app is done with, as many are LED commands as were obeyed or wait in the queue
  of the actuators; the i-th in that queue was made from the one whose number is
  `moved + i`; and while task_app waits for room there, the command in its hands is
  that of the message it counted last. Without the last clause the first two are not
  inductive: the command is put into the queue one step after its message was
  counted. An acknowledgement is given after that step, which is `AcksAreEarned`.
- `ImplementsBoard` is the refinement of `Board` without its fairness. Every step of
  `Pipeline` maps to one step of `Board` or to none: `ParserSend` is `Receive` when
  it delivers, the step with which task_app has an answer ready is `Answer`, `ApplyCommand`
  is `MoveLed` by `CommandsInOrder`, and all others leave the four variables of `Board`
  alone. The fairness half, `ServiceIsProvided`, stays with TLC.
- `CoherentReports`: `Reporting` follows a report while it is being made. The
  counters read so far are at most what they are now and at least what the
  reports given before say, so two reports are in order whatever runs between the
  reads; pm is at least rx from the moment it is read; and rx and ae are the
  number of messages handled and of errors given, which only task_app changes. It
  rests on the counters never going back (`CountingGrows`).

**System** (`SystemProofs`), from bytes to bytes, for every set of hosts, widths and
queue lengths:

- `ImplementsPipeline`: every step of `System` is a step of `Pipeline`, so all that is
  proved of `Pipeline`, the refinement of `Board` included, holds of the composition.
- `ReaderAtWork`: the invariant of `ParserProofs` holds of the parser inside `System`,
  whatever the interrupt drops. `System` has its parser as the instance `P`, the
  lemmas are those of the instance `R` of `ParserProofs`; the `Same...` lemmas say that the
  two are the same operators.
- `NothingLost` and `AnswersFollow`, for `FastReception` and `ScriptsFit`, and
  `BootIsPaidOnce`, for `FastReception` and `EveryScriptFits`, rest on `Served`.
  The bytes on the line and in the queues are the frames of the script, cut
  (`IsCut`) at the places where one ends and the next begins; the parser stands
  between two cuts, having read that many bytes of the frame there (`InPlace`), and
  has accepted exactly the requests before it, those touched by boot excepted. A
  step keeps it by the byte-by-byte lemmas of `ParserProofs`. That no byte is
  dropped needs the bound on the script: the chain fills only when the application
  holds more messages than a script has. `AnswersFollow` then composes it with
  `AnswersInOrder`.
- What boot adds to the invariant: until the board is up every byte is forgotten,
  waits or is overrun, and the last frame begun is the one it belongs to (`AtTheLast`).
  After that the parser may be skipping the rest of that frame (`Skipping`). It ends
  the skipping at the next frame and not before, because digits, separators and the
  texts hold no `@` (`NoStartInside`, from `ForeignByte`).
- The byte that waited comes out of its place: the bytes between it and what the queue
  gets next are gone (`Waited`). If it is an `@`, the parser takes what follows for a
  length. Then it is astray (`Astray`) for at most three bytes: they are bytes of one
  frame which are not its length, so they do not read as one (`Alone`), the parser
  refuses them, and an `@` among them is that of the next frame. If what follows is the
  whole of a frame but for its `@`, the parser is inside that frame, in step
  (`LossServes`). This is where `StartsAreFrames` is needed: a payload with two digits
  and a `:` after them could be swallowed for a body.
- When no task can run (`NoCircularWait`) nothing is left on the way, so the parser
  stands at the last cut.

**Telemetry** (`TelemetryProofs`), for any period, any number of periods and of bytes:

- With a second sender the answers no longer have the places of their requests, so
  `AnsweredSoFar` is false here. `Besides` says it of the number of answers among the
  first k messages (`Among`) instead, and likewise for the numbered reports:
  `counter` is their number, or one behind it between a report and the status
  that follows it. Neither task's messages count for the other
  (`ReportChangesNoAnswer`). `NumbersWithoutGaps` and `AnswersSurvive` follow.
- `LossIsStillBackpressure`: the steps of the new task touch neither the chain of
  reception nor its counters, so the argument of `LossIsBackpressure` carries over from
  `StoresOK`.

**UartRx** (`UartRxProofs`), for any length of the queue and any number of bytes:

- `OneFate`: `EveryByteHasOneFate` with the two cases of RXNE apart (`Fates`).
- `NeverTwice`: needs `Order`, which says that the handler is between its two reads
  only when RXNE is set, and that the data register then holds a byte newer than
  the last one read. The first of these is what the test of the flag is for.

**Report** (`ReportProofs`), for any room that holds it:

- `FirstCountersSurvive`: a value has at most ten digits (`DigitsBounded`, a
  cardinality), and the end of irq, the third, is then within `Room`. It holds in
  every state, so it needs no induction over the steps.
- `EarlyReports`, for `NothingWraps`: the digits of one counter say nothing of
  another's, so the bounds on irq, pe and qd of the property are not enough.
  `ReportInv` binds the counters to one another: pb + qd <= irq, 12 * pm + pe <= pb,
  rx = pm, ae <= rx. With irq below 10^4 the number of messages is then below 10^3,
  and the seven values take 20 digits and 28 other characters, the whole room.

**Bridge** (`BridgeProofs`), for any number of ports that come and go:

- `NeverTwoPorts`, `PortIsAttended` and `OwnPortClosed` follow from one invariant, `IInv`. A
  reader attends its port from its first step until it has made `serial_port` None.
  The parts of `IInv` say that a port which is not closed is the one the bridge has or
  is about to have; that main opens none while a reader attends one; that what a
  thread forgets is closed; and that the stop event is clear when a reader
  starts. They are proved together, mostly one lemma per part: that a late reader closes
  its own port holds because the next one is not opened before the attribute is
  None, and that it is not because the reader of the last one is still attending.

### Only model-checked

- Everything that depends on fairness, which the prover cannot state: the fairness half
  of `ServiceIsProvided`, `RequestsAreAnswered`, `ScriptIsServed`,
  `TheSchedulerStarts`, `NextByteEndsTheStorm`, `FirmwareStartsWhole`, `BridgeReopens`.
- `DeliveredWasSent` of `Link`. It is a fact about the messages of its run: a lost byte
  moves the ones after it, and a checksum of eight bits can then agree by
  accident. What holds of all messages is `AlteredByteIsNoOtherMessage`. The property is
  moreover a fold over the traffic, and what a fold or another recursive definition
  computes can only be shown by induction over data, which needs a theorem with an
  operator as its parameter that the installed provers cannot instantiate.
- That the definitions which compute with `^`, `SelectSeq` or `CHOOSE` give the values
  of the firmware: the `ASSUME`s of the MC modules compare them with frames of the host
  tests.

## Not modelled

- What lies behind a codec that works in the bridge: publishing, and writing
  commands. `serial_bridge_node.py` tests `serial_port` at line 165 and uses it at
  line 179, but `encode_frame` raises before that. Once it does not, a write that
  fails closes the port from the executor's thread while a reader is in its read,
  which `Bridge` does not have: `ReadersCloseTheirOwnPort` has to be checked again.
- A board short of heap beyond `startup`: with 3100 to 7280 bytes it runs with tasks
  silently missing, as the module shows; what the missing tasks do to the others is
  shown only for task_actuators, by the mutant of `IdleMeansDrained`.
- The wrap of the counters in `Pipeline`; `Report` has it.
- Clock, pins and the format of the line: registers written once, no behaviour.
- The loopback mode of the link script and the host tests: not part of the system.
- FreeRTOS and libopencm3: vendored, modelled only through their use here, except
  for the allocation that `Startup` rests on.

## Plan

The core came first: codec and parser, then the pipeline, then the line and the
abstract service; then what surrounds them: `System`, `UartRx`, `Telemetry`,
`Report`, `Startup`, `Bridge`; then the proofs, from the components to the
composition. What is left, in order:

1. `Startup` as a safety property (with enough heap, no creation fails) and its proof.
2. `Bridge` with a codec that works, once the repository has one.
