---------------------------- MODULE SystemProofs ----------------------------
(***************************************************************************)
(* Proofs about the board from end to end, for every set of hosts, width   *)
(* of the frames and length of the queues.                                 *)
(*                                                                         *)
(* The system is an implementation of Pipeline (ImplementsPipeline) and    *)
(* its parser is that of Parser (ReaderAtWork), so what is proved of the   *)
(* two holds here.  That nothing is lost and that the answers follow the   *)
(* script needs the invariant Served: the bytes on their way are the       *)
(* frames of the script, cut where the parser stands.                      *)
(***************************************************************************)
EXTENDS System, PipelineProofs

R == INSTANCE ParserProofs

-----------------------------------------------------------------------------
(* The parser of System and the parser the lemmas of ParserProofs are about *)
(* are instances of the same module.                                        *)

LEMMA SameAlphabet ==
  /\ P!Byte = R!Byte /\ P!MessageType = R!MessageType /\ P!NoFrame = R!NoFrame
  /\ P!NoMessage = R!NoMessage /\ R!NoFrame = << >>
BY DEF P!Byte, R!Byte, P!MessageType, R!MessageType, P!NoFrame, R!NoFrame,
       P!NoMessage, R!NoMessage

LEMMA ReaderAssumptions == R!ProtocolOK /\ R!InputOK
<1>1. P!ProtocolOK /\ P!InputOK
  BY SystemAssumption
<1>2. P!ProtocolOK => R!ProtocolOK
  BY Zenon DEF P!ProtocolOK, R!ProtocolOK, P!MaxBody, R!MaxBody, P!MessageType,
               R!MessageType, P!Byte, R!Byte, P!NUL, R!NUL
<1>3. P!InputOK => R!InputOK
  BY DEF P!InputOK, R!InputOK, P!Byte, R!Byte
<1> QED BY <1>1, <1>2, <1>3

LEMMA SameConsume ==
  \A b : P!parser_consume_byte(b) <=> R!parser_consume_byte(b)
BY DEF P!parser_consume_byte, P!IgnoreCarriageReturn, P!WaitStart, P!ReadLenHi,
       P!ReadLenLo, P!ExpectLenSeparator, P!ReadBody, P!ExpectCheckSeparator,
       P!ReadCheckHi, P!ReadCheckLo, P!ExpectEnd, P!Return, P!InProgress,
       P!parser_error, P!parser_reset, P!ResetTo, P!parser_checksum_matches,
       P!parser_hex_byte, P!HexByte, P!IsHex, P!hex_char_to_nibble,
       P!protocol_compute_checksum, P!protocol_decode_body,
       P!protocol_type_from_text, P!MessageType, P!MaxBody, P!NoMessage,
       P!START, P!SEP, P!END, P!CR, P!parser_t, P!Cardinality,
       R!parser_consume_byte, R!IgnoreCarriageReturn, R!WaitStart, R!ReadLenHi,
       R!ReadLenLo, R!ExpectLenSeparator, R!ReadBody, R!ExpectCheckSeparator,
       R!ReadCheckHi, R!ReadCheckLo, R!ExpectEnd, R!Return, R!InProgress,
       R!parser_error, R!parser_reset, R!ResetTo, R!parser_checksum_matches,
       R!parser_hex_byte, R!HexByte, R!IsHex, R!hex_char_to_nibble,
       R!protocol_compute_checksum, R!protocol_decode_body,
       R!protocol_type_from_text, R!MessageType, R!MaxBody, R!NoMessage,
       R!START, R!SEP, R!END, R!CR, R!parser_t, R!Cardinality

LEMMA SameChecksum ==
  \A d : P!protocol_compute_checksum(d) = R!protocol_compute_checksum(d)
BY Zenon DEF P!protocol_compute_checksum, R!protocol_compute_checksum, P!Cardinality, R!Cardinality

LEMMA SameHexText == \A v : P!HexText(v) = R!HexText(v)
BY Zenon DEF P!HexText, R!HexText, P!nibble_to_hex, R!nibble_to_hex

LEMMA SameEncode ==
  ASSUME NEW m, NEW n
  PROVE  P!protocol_encode_frame(m, n) = R!protocol_encode_frame(m, n)
<1>1. PICK b : b = P!protocol_type_to_text(m.type) \o <<P!SEP>> \o m.payload
  OBVIOUS
<1>2. PICK d : d = P!HexText(Len(b)) \o <<P!SEP>> \o b
  OBVIOUS
<1>3. PICK f : f = <<P!START>> \o d \o <<P!SEP>> \o P!HexText(P!protocol_compute_checksum(d)) \o <<P!END>>
  OBVIOUS
<1>4. P!protocol_encode_frame(m, n) =
        IF /\ m.type \in P!MessageType /\ P!NUL \notin P!Range(m.payload)
           /\ Len(m.payload) <= MaxPayload /\ n > Len(f)
        THEN f ELSE P!NoFrame
  BY <1>1, <1>2, <1>3, Zenon DEF P!protocol_encode_frame
<1>5. b = R!protocol_type_to_text(m.type) \o <<R!SEP>> \o m.payload
  BY <1>1, Zenon DEF P!protocol_type_to_text, R!protocol_type_to_text, P!SEP, R!SEP,
     P!MessageType, R!MessageType
<1>6. d = R!HexText(Len(b)) \o <<R!SEP>> \o b
  BY <1>2, SameHexText, Zenon DEF P!SEP, R!SEP
<1>7. f = <<R!START>> \o d \o <<R!SEP>> \o R!HexText(R!protocol_compute_checksum(d)) \o <<R!END>>
  BY <1>3, SameHexText, SameChecksum, Zenon
     DEF P!SEP, R!SEP, P!START, R!START, P!END, R!END
<1>8. R!protocol_encode_frame(m, n) =
        IF /\ m.type \in R!MessageType /\ R!NUL \notin R!Range(m.payload)
           /\ Len(m.payload) <= MaxPayload /\ n > Len(f)
        THEN f ELSE R!NoFrame
  BY <1>5, <1>6, <1>7, Zenon DEF R!protocol_encode_frame
<1>9. P!NUL = R!NUL /\ P!Range(m.payload) = R!Range(m.payload)
  BY DEF P!NUL, R!NUL, P!Range, R!Range
<1>10. P!MessageType = R!MessageType /\ P!NoFrame = R!NoFrame
  BY SameAlphabet
<1> QED BY <1>4, <1>8, <1>9, <1>10

LEMMA SameInit == P!Init => R!Init
BY DEF P!Init, R!Init, P!NUL, R!NUL, P!NoMessage, R!NoMessage

-----------------------------------------------------------------------------
(* Every step of System is a step of Pipeline and of the parser, or leaves   *)
(* them alone.                                                               *)

LEMMA StepsOfPipeline == [SystemNext]_systemVars => [Next]_vars
<1>1. Write \/ ByteWaits \/ ByteIsLost \/ CreateQueues => UNCHANGED vars
  BY DEF Write, ByteWaits, ByteIsLost, CreateQueues, vars
<1>2. ByteArrives \/ ReadLate \/ StartTasks => Next
  BY DEF ByteArrives, ReadLate, StartTasks, Next
<1>3. task_parser => Next
  BY DEF task_parser, Next
<1>4. OtherSteps => Next
  BY DEF OtherSteps, Next
<1>5. UNCHANGED systemVars => UNCHANGED vars
  BY DEF systemVars, vars
<1> QED BY <1>1, <1>2, <1>3, <1>4, <1>5 DEF SystemNext

\* The system is an implementation of Pipeline: the arbitrary results of its
\* parser are narrowed down to what the parser returns for the bytes in flight.
\* So all that is proved of Pipeline, the refinement of Board included, holds of
\* the board from end to end.
THEOREM ImplementsPipeline == SystemSpec => Spec
<1>1. SystemInit => Init
  BY DEF SystemInit
<1>2. [SystemNext]_systemVars => [Next]_vars
  BY StepsOfPipeline
<1> QED BY <1>1, <1>2, PTL DEF SystemSpec, Spec

\* The message of a request, as the codec sees it.
Text(r) == [type |-> r.type, payload |-> PayloadText[r.payload]]

LEMMA FrameOfRequest ==
  ASSUME NEW r \in Request
  PROVE  /\ Text(r) \in R!Message
         /\ Frame(r) = R!protocol_encode_frame(Text(r), MaxFrame)
         /\ Frame(r) \in Seq(R!Byte)
         /\ Frame(r) # << >> => R!ValidateBytes(Frame(r)) = Text(r)
<1>1. Text(r) \in R!Message
  BY SystemAssumption, SameAlphabet DEF Text, R!Message
<1>2. Frame(r) = R!protocol_encode_frame(Text(r), MaxFrame)
  BY SameEncode, Zenon DEF Frame, Text
<1>3. Frame(r) # << >> => Frame(r) \in Seq(R!Byte) /\ R!ValidateBytes(Frame(r)) = Text(r)
  BY <1>1, <1>2, SameAlphabet, ReaderAssumptions, R!ValidatesEncoded, Zenon
<1>4. Frame(r) = << >> => Frame(r) \in Seq(R!Byte)
  OBVIOUS
<1> QED BY <1>1, <1>2, <1>3, <1>4

-----------------------------------------------------------------------------
(* What holds whatever the host is and whatever is lost on the way.          *)

\* The bytes in flight are those of the three stores between the interrupt and
\* the parser.
HostOK ==
  /\ \E h \in Hosts : script = h.script /\ listens_first = h.listens_first
  /\ asked \in 0 .. Len(script) /\ touched \in 0 .. asked
  /\ inflight \in Seq(R!Byte) /\ outgoing \in Seq(R!Byte)
  /\ Len(inflight) = g_uart_rx_isr_queue + rx_byte + g_parser_input_queue
  /\ asked = 0 => outgoing = << >>
  /\ late = << >> \/ \E b \in R!Byte : late = <<b>>
  /\ masked \in BOOLEAN /\ (masked => ~running)

LEMMA ScriptOK ==
  ASSUME HostOK
  PROVE  /\ script \in Seq(Request) /\ Len(script) \in Nat /\ listens_first \in BOOLEAN
         /\ asked \in Nat /\ asked <= Len(script)
         /\ touched \in Nat /\ touched <= asked
<1>1. script \in Seq(Request) /\ listens_first \in BOOLEAN
  BY SystemAssumption DEF HostOK
<1>2. Len(script) \in Nat
  BY <1>1, LenProperties
<1>3. asked \in Nat /\ asked <= Len(script)
  BY <1>2 DEF HostOK
<1>4. touched \in Nat /\ touched <= asked
  BY <1>3 DEF HostOK
<1> QED BY <1>1, <1>2, <1>3, <1>4

LEMMA InitHostOK == SystemInit => HostOK
<1> SUFFICES ASSUME SystemInit PROVE HostOK
  OBVIOUS
<1>1. PICK h \in Hosts : script = h.script /\ listens_first = h.listens_first
  BY DEF SystemInit
<1>2. Len(script) \in Nat
  BY <1>1, SystemAssumption, LenProperties
<1>3. /\ inflight = << >> /\ outgoing = << >> /\ asked = 0 /\ touched = 0
      /\ late = << >>
      /\ g_uart_rx_isr_queue = 0 /\ rx_byte = 0 /\ g_parser_input_queue = 0
  BY Zenon DEF SystemInit, Init
<1>8. masked = FALSE
  BY Zenon DEF SystemInit
<1>5. masked \in BOOLEAN /\ ~masked
  BY <1>8, Zenon
<1>4. << >> \in Seq(R!Byte) /\ Len(<< >>) = 0
  BY EmptySeq
<1>6. Len(inflight) = g_uart_rx_isr_queue + rx_byte + g_parser_input_queue
  BY <1>3, <1>4
<1>7. asked \in 0 .. Len(script) /\ touched \in 0 .. asked
  BY <1>2, <1>3
<1> QED BY <1>1, <1>3, <1>4, <1>5, <1>6, <1>7 DEF HostOK

LEMMA TailOfBytes ==
  ASSUME NEW s \in Seq(R!Byte), s # << >>
  PROVE  /\ Head(s) \in R!Byte /\ Tail(s) \in Seq(R!Byte) /\ Head(s) = s[1]
         /\ Len(s) \in Nat /\ Len(s) >= 1 /\ Len(Tail(s)) = Len(s) - 1
BY HeadTailProperties, EmptySeq, LenProperties

\* A byte is queued, dropped, or forgotten.
LEMMA AtTheInterrupt ==
  ASSUME usart1_isr
  PROVE  /\ rx_byte' = rx_byte /\ g_parser_input_queue' = g_parser_input_queue
         /\ running' = running
         /\ parsed' = parsed /\ accepted' = accepted
         /\ \/ /\ running /\ early' = early
               /\ g_uart_rx_isr_queue' = g_uart_rx_isr_queue + 1
               /\ count' = [count EXCEPT !["irq"] = @ + 1]
            \/ /\ g_uart_rx_isr_queue' = g_uart_rx_isr_queue
               /\ \/ /\ ~running /\ early' = early + 1
                     /\ count' = [count EXCEPT !["irq"] = @ + 1]
                  \/ g_uart_rx_isr_queue = UartRxIsrQueueLength
BY Zenon DEF usart1_isr, parsing, Increment

\* What the interrupt does to the bytes in flight, b being the byte it reads.
LEMMA InFlightAtTheInterrupt ==
  ASSUME TypeOK, HostOK, usart1_isr, NEW b \in R!Byte,
         inflight' = IF g_uart_rx_isr_queue' > g_uart_rx_isr_queue
                     THEN Append(inflight, b) ELSE inflight
  PROVE  /\ inflight' \in Seq(R!Byte)
         /\ Len(inflight') = g_uart_rx_isr_queue' + rx_byte' + g_parser_input_queue'
         /\ running' = running
<1>1. /\ g_uart_rx_isr_queue \in Nat /\ rx_byte \in {0, 1} /\ g_parser_input_queue \in Nat
      /\ Len(inflight) \in Nat
  BY LenProperties, Lengths DEF TypeOK, ReceptionOK, HostOK
<1>2. /\ rx_byte' = rx_byte /\ g_parser_input_queue' = g_parser_input_queue
      /\ running' = running
      /\ \/ g_uart_rx_isr_queue' = g_uart_rx_isr_queue
         \/ g_uart_rx_isr_queue' = g_uart_rx_isr_queue + 1
  BY AtTheInterrupt
<1>3. CASE g_uart_rx_isr_queue' = g_uart_rx_isr_queue
  <2>1. inflight' = inflight
    BY <1>1, <1>3
  <2> QED BY <1>2, <1>3, <2>1 DEF HostOK
<1>4. CASE g_uart_rx_isr_queue' = g_uart_rx_isr_queue + 1
  <2>1. inflight' = Append(inflight, b)
    BY <1>1, <1>4
  <2>2. inflight' \in Seq(R!Byte) /\ Len(inflight') = Len(inflight) + 1
    BY <2>1, AppendProperties DEF HostOK
  <2>3. Len(inflight') = g_uart_rx_isr_queue' + rx_byte' + g_parser_input_queue'
    BY <1>1, <1>2, <1>4, <2>2 DEF HostOK
  <2> QED BY <1>2, <2>2, <2>3
<1> QED BY <1>2, <1>3, <1>4

LEMMA HostKept ==
  ASSUME TypeOK, HostOK, [SystemNext]_systemVars
  PROVE  HostOK'
<1>1. /\ g_uart_rx_isr_queue \in Nat /\ rx_byte \in {0, 1} /\ g_parser_input_queue \in Nat
      /\ Len(inflight) \in Nat
  BY LenProperties, Lengths DEF TypeOK, ReceptionOK, HostOK
<1>2. CASE Write
  <2>1. asked + 1 \in 1 .. Len(script) /\ asked' = asked + 1 /\ script' = script
    BY <1>2, ScriptOK DEF Write, kind
  <2>2. script[asked + 1] \in Request
    BY <2>1, ScriptOK
  <2>3. outgoing' \in Seq(R!Byte)
    BY <1>2, <2>2, FrameOfRequest DEF Write
  <2>4. /\ listens_first' = listens_first /\ inflight' = inflight
        /\ g_uart_rx_isr_queue' = g_uart_rx_isr_queue /\ rx_byte' = rx_byte
        /\ g_parser_input_queue' = g_parser_input_queue
        /\ late' = late /\ masked' = masked /\ running' = running
    BY <1>2 DEF Write, kind, receiver, vars, upstream, reception
  <2>5. asked' \in 0 .. Len(script') /\ touched' \in 0 .. asked' /\ asked' # 0
    <3>1. touched' = touched
      BY <1>2 DEF Write
    <3> QED BY <2>1, <3>1, ScriptOK
  <2> QED BY <2>1, <2>3, <2>4, <2>5 DEF HostOK
<1>3. CASE ByteArrives
  <2>1. /\ outgoing # << >> /\ outgoing' = Tail(outgoing) /\ usart1_isr
        /\ asked' = asked /\ script' = script /\ listens_first' = listens_first
        /\ late' = late /\ masked' = masked
        /\ inflight' = IF g_uart_rx_isr_queue' > g_uart_rx_isr_queue
                       THEN Append(inflight, Head(outgoing)) ELSE inflight
    BY <1>3 DEF ByteArrives, kind, receiver
  <2>2. Head(outgoing) \in R!Byte /\ outgoing' \in Seq(R!Byte)
    BY <2>1, TailOfBytes DEF HostOK
  <2>3. /\ inflight' \in Seq(R!Byte) /\ running' = running
        /\ Len(inflight') = g_uart_rx_isr_queue' + rx_byte' + g_parser_input_queue'
    BY <2>1, <2>2, InFlightAtTheInterrupt
  <2>4. touched' \in 0 .. asked'
    <3>1. touched' = asked \/ touched' = touched
      BY <1>3 DEF ByteArrives
    <3> QED BY <2>1, <3>1, ScriptOK
  <2> QED BY <2>1, <2>2, <2>3, <2>4 DEF HostOK
<1>4. CASE ReadLate
  <2>1. /\ late # << >> /\ late' = << >> /\ running /\ usart1_isr
        /\ inflight' = IF g_uart_rx_isr_queue' > g_uart_rx_isr_queue
                       THEN inflight \o late ELSE inflight
        /\ outgoing' = outgoing /\ asked' = asked /\ touched' = touched
        /\ script' = script /\ listens_first' = listens_first /\ masked' = masked
    BY <1>4 DEF ReadLate, host, kind
  <2>2. PICK b \in R!Byte : late = <<b>>
    BY <2>1 DEF HostOK
  <2>3. inflight \o late = Append(inflight, b)
    BY <2>2, AppendIsConcat DEF HostOK
  <2>4. /\ inflight' \in Seq(R!Byte) /\ running' = running
        /\ Len(inflight') = g_uart_rx_isr_queue' + rx_byte' + g_parser_input_queue'
    BY <2>1, <2>3, InFlightAtTheInterrupt
  <2> QED BY <2>1, <2>4 DEF HostOK
<1>5. CASE ByteWaits
  <2>1. /\ outgoing # << >> /\ outgoing' = Tail(outgoing) /\ late' = <<Head(outgoing)>>
        /\ asked' = asked /\ touched' = touched /\ script' = script
        /\ listens_first' = listens_first /\ inflight' = inflight
        /\ masked' = masked /\ running' = running
        /\ g_uart_rx_isr_queue' = g_uart_rx_isr_queue /\ rx_byte' = rx_byte
        /\ g_parser_input_queue' = g_parser_input_queue
    BY <1>5 DEF ByteWaits, kind, vars, upstream, reception
  <2>2. Head(outgoing) \in R!Byte /\ outgoing' \in Seq(R!Byte)
    BY <2>1, TailOfBytes DEF HostOK
  <2> QED BY <2>1, <2>2 DEF HostOK
<1>6. CASE ByteIsLost
  <2>1. /\ outgoing # << >> /\ outgoing' = Tail(outgoing) /\ late' = late
        /\ asked' = asked /\ script' = script
        /\ touched' = asked \/ touched' = asked - 1
        /\ listens_first' = listens_first /\ inflight' = inflight
        /\ masked' = masked /\ running' = running
        /\ g_uart_rx_isr_queue' = g_uart_rx_isr_queue /\ rx_byte' = rx_byte
        /\ g_parser_input_queue' = g_parser_input_queue
    BY <1>6 DEF ByteIsLost, kind, receiver, vars, upstream, reception
  <2>2. outgoing' \in Seq(R!Byte)
    BY <2>1, TailOfBytes DEF HostOK
  <2>3. asked # 0 /\ asked \in Nat
    BY <2>1, ScriptOK DEF HostOK
  <2>4. touched' \in 0 .. asked'
    BY <2>1, <2>3
  <2> QED BY <2>1, <2>2, <2>3, <2>4 DEF HostOK
<1>7. CASE CreateQueues \/ StartTasks
  <2>1. /\ inflight' = inflight /\ outgoing' = outgoing /\ asked' = asked
        /\ touched' = touched /\ script' = script /\ listens_first' = listens_first
        /\ late' = late
    BY <1>7 DEF CreateQueues, StartTasks, host, kind
  <2>2. /\ g_uart_rx_isr_queue' = g_uart_rx_isr_queue /\ rx_byte' = rx_byte
        /\ g_parser_input_queue' = g_parser_input_queue
    BY <1>7 DEF CreateQueues, StartTasks, StartScheduler, vars, upstream, reception
  <2>3. masked' \in BOOLEAN /\ (masked' => ~running')
    <3>1. CASE CreateQueues
      BY <3>1, Zenon DEF CreateQueues, vars, upstream
    <3>2. CASE StartTasks
      BY <3>2, Zenon DEF StartTasks
    <3> QED BY <1>7, <3>1, <3>2
  <2> QED BY <2>1, <2>2, <2>3 DEF HostOK
<1>8. CASE task_parser
  <2>1. /\ inflight' = Tail(inflight) /\ g_parser_input_queue > 0
        /\ g_parser_input_queue' = g_parser_input_queue - 1
        /\ g_uart_rx_isr_queue' = g_uart_rx_isr_queue /\ rx_byte' = rx_byte
        /\ outgoing' = outgoing /\ asked' = asked /\ touched' = touched
        /\ script' = script /\ listens_first' = listens_first
        /\ late' = late /\ masked' = masked /\ running' = running
    BY <1>8 DEF task_parser, ParserReceive, host, kind, receiver
  <2>2. inflight # << >>
    <3>1. Len(inflight) > 0
      BY <1>1, <2>1 DEF HostOK
    <3> QED BY <3>1, EmptySeq
  <2>3. inflight' \in Seq(R!Byte) /\ Len(inflight') = Len(inflight) - 1
    BY <2>1, <2>2, TailOfBytes DEF HostOK
  <2>4. Len(inflight') = g_uart_rx_isr_queue' + rx_byte' + g_parser_input_queue'
    BY <1>1, <2>1, <2>3 DEF HostOK
  <2> QED BY <2>1, <2>3, <2>4 DEF HostOK
<1>9. CASE OtherSteps \/ UNCHANGED systemVars
  <2>1. /\ inflight' = inflight /\ outgoing' = outgoing /\ asked' = asked
        /\ touched' = touched /\ script' = script /\ listens_first' = listens_first
        /\ late' = late /\ masked' = masked
    BY <1>9 DEF OtherSteps, systemVars, host, kind, receiver
  <2>2. /\ running' = running
        /\ g_uart_rx_isr_queue' + rx_byte' + g_parser_input_queue'
             = g_uart_rx_isr_queue + rx_byte + g_parser_input_queue
    <3>1. CASE RxReceive
      BY <1>1, <3>1 DEF RxReceive
    <3>2. CASE RxSend
      BY <1>1, <3>2 DEF RxSend
    <3>3. CASE \/ ParserSend \/ AppReceive \/ SendCommand \/ ReadCounter
               \/ SendReply \/ ApplyCommand \/ TxReceive \/ TxSend \/ IdleTask
               \/ UNCHANGED systemVars
      <4>2. CASE IdleTask \/ UNCHANGED systemVars
        <5>1. UNCHANGED vars
          BY <4>2, Zenon DEF IdleTask, systemVars
        <5>2. UNCHANGED upstream
          BY <5>1, Zenon DEF vars
        <5>3. running' = running /\ UNCHANGED reception
          BY <5>2, Zenon DEF upstream
        <5> QED BY <5>3 DEF reception
      <4>3. CASE \/ ParserSend \/ AppReceive \/ SendCommand \/ ReadCounter
                 \/ SendReply \/ ApplyCommand \/ TxReceive \/ TxSend
        <5>1. running' = running /\ UNCHANGED reception
          BY <4>3, Zenon DEF ParserSend, AppReceive, SendCommand, ReadCounter,
                      SendReply, ApplyCommand, TxReceive, TxSend, upstream
        <5> QED BY <5>1 DEF reception
      <4> QED BY <3>3, <4>2, <4>3
    <3> QED BY <1>9, <3>1, <3>2, <3>3 DEF OtherSteps
  <2> QED BY <2>1, <2>2 DEF HostOK
<1> QED BY <1>2, <1>3, <1>4, <1>5, <1>6, <1>7, <1>8, <1>9 DEF SystemNext

LEMMA ReaderKept ==
  ASSUME TypeOK, HostOK, R!IInv, [SystemNext]_systemVars
  PROVE  R!IInv'
<1>1. CASE task_parser
  <2>1. g_parser_input_queue > 0 /\ P!parser_consume_byte(Head(inflight))
    BY <1>1 DEF task_parser, ParserReceive
  <2>2. inflight # << >>
    <3>1. /\ g_uart_rx_isr_queue \in Nat /\ rx_byte \in {0, 1} /\ g_parser_input_queue \in Nat
      BY Lengths DEF TypeOK, ReceptionOK
    <3>2. Len(inflight) > 0
      BY <2>1, <3>1 DEF HostOK
    <3> QED BY <3>2, EmptySeq
  <2>3. Head(inflight) \in R!Byte
    BY <2>2, TailOfBytes DEF HostOK
  <2>4. R!parser_consume_byte(Head(inflight))
    BY <2>1, SameConsume
  <2> QED BY <2>3, <2>4, ReaderAssumptions, R!ConsumeInv
<1>2. CASE \/ Write \/ ByteArrives \/ ByteWaits \/ ByteIsLost
           \/ ReadLate \/ CreateQueues \/ StartTasks \/ OtherSteps \/ UNCHANGED systemVars
  <2>1. UNCHANGED R!vars
    BY <1>2 DEF Write, ByteArrives, ByteWaits, ByteIsLost, ReadLate, CreateQueues,
                StartTasks, OtherSteps, systemVars, parser_t, R!vars, R!parser_t
  <2> QED BY <2>1, ReaderAssumptions, R!NextInv
<1> QED BY <1>1, <1>2 DEF SystemNext

\* The parser's own invariants hold of the parser at work among the tasks.
Sound == TypeOK /\ OrderKept /\ AnsweredSoFar /\ HostOK /\ R!IInv

LEMMA InitSound == SystemInit => Sound
<1> SUFFICES ASSUME SystemInit PROVE Sound
  OBVIOUS
<1>1. Init /\ R!Init
  BY SameInit DEF SystemInit
<1>2. R!IInv
  BY <1>1, ReaderAssumptions, R!InitInv
<1> QED BY <1>1, <1>2, InitTypeOK, InitOrderKept, InitAnsweredSoFar, InitHostOK DEF Sound

LEMMA SoundKept == Sound /\ [SystemNext]_systemVars => Sound'
<1> SUFFICES ASSUME Sound, [SystemNext]_systemVars PROVE Sound'
  OBVIOUS
<1>1. [Next]_vars
  BY StepsOfPipeline
<1>2. TypeOK' /\ OrderKept' /\ AnsweredSoFar'
  BY <1>1, NextTypeOK, OrderIsKept, TypeMeansStores, AnswersAreKept DEF Sound
<1>3. HostOK' /\ R!IInv'
  BY HostKept, ReaderKept DEF Sound
<1> QED BY <1>2, <1>3 DEF Sound

\* The inductive invariant about any host: what Pipeline and Parser keep, and how
\* the bytes in flight tie the two together.
THEOREM SystemIsSound == SystemSpec => []Sound
BY InitSound, SoundKept, PTL DEF SystemSpec

LEMMA SameDigits ==
  /\ \A c : P!hex_char_to_nibble(c) = R!hex_char_to_nibble(c)
  /\ \A c : P!IsHex(c) <=> R!IsHex(c)
  /\ \A c, d : P!HexByte(c, d) = R!HexByte(c, d)
<1>1. \A c : P!hex_char_to_nibble(c) = R!hex_char_to_nibble(c)
  BY Zenon DEF P!hex_char_to_nibble, R!hex_char_to_nibble
<1>2. \A c : P!IsHex(c) <=> R!IsHex(c)
  BY <1>1, Zenon DEF P!IsHex, R!IsHex
<1>3. \A c, d : P!HexByte(c, d) = R!HexByte(c, d)
  BY <1>1, Zenon DEF P!HexByte, R!HexByte
<1> QED BY <1>1, <1>2, <1>3

LEMMA SameDecode ==
  ASSUME NEW b
  PROVE  P!protocol_decode_body(b) = R!protocol_decode_body(b)
<1>1. PICK t : t = P!protocol_type_from_text(SubSeq(b, 1, TypeLength))
  OBVIOUS
<1>2. t = R!protocol_type_from_text(SubSeq(b, 1, TypeLength))
  BY <1>1, Zenon DEF P!protocol_type_from_text, R!protocol_type_from_text,
                     P!MessageType, R!MessageType
<1> QED BY <1>1, <1>2, Zenon
       DEF P!protocol_decode_body, R!protocol_decode_body, P!MaxBody, R!MaxBody,
           P!NoMessage, R!NoMessage, P!SEP, R!SEP

LEMMA SameWellFormed ==
  ASSUME NEW f
  PROVE  P!WellFormed(f) <=> R!WellFormed(f)
<1>1. PICK l : l = P!HexByte(f[2], f[3]) /\ l = R!HexByte(f[2], f[3])
  BY SameDigits
<1>2. P!MaxBody = R!MaxBody /\ P!START = R!START /\ P!SEP = R!SEP /\ P!END = R!END
  BY DEF P!MaxBody, R!MaxBody, P!START, R!START, P!SEP, R!SEP, P!END, R!END
<1> QED BY <1>1, <1>2, SameDigits, SameChecksum, Zenon DEF P!WellFormed, R!WellFormed

\* Fed by the interrupt and interleaved with four other tasks, whatever bytes are
\* lost on the way, the parser decides what the batch validator decides on what
\* it has read, and never holds more than a frame.
THEOREM ReaderAtWork ==
  SystemSpec => [](P!BodyInBounds /\ P!AgreesWithValidateFrame /\ P!FrameIsBounded)
<1>1. Sound => P!BodyInBounds /\ P!AgreesWithValidateFrame /\ P!FrameIsBounded
  <2> SUFFICES ASSUME Sound
               PROVE  P!BodyInBounds /\ P!AgreesWithValidateFrame /\ P!FrameIsBounded
    OBVIOUS
  <2>1. R!BodyInBounds /\ R!AgreesWithValidateFrame /\ R!FrameIsBounded
    BY ReaderAssumptions, R!InvImplies DEF Sound
  <2>2. P!ValidateBytes(window) = R!ValidateBytes(window) /\ P!NoMessage = R!NoMessage
    <3>1. P!NoMessage = R!NoMessage
      BY SameAlphabet
    <3> QED BY <3>1, SameDecode, SameWellFormed, Zenon DEF P!ValidateBytes, R!ValidateBytes
  <2>3. P!BodyInBounds
    BY <2>1 DEF P!BodyInBounds, R!BodyInBounds, P!BodySize, R!BodySize, P!MaxBody, R!MaxBody
  <2>4. P!AgreesWithValidateFrame
    BY <2>1, <2>2 DEF P!AgreesWithValidateFrame, R!AgreesWithValidateFrame
  <2>5. P!FrameIsBounded
    BY <2>1 DEF P!FrameIsBounded, R!FrameIsBounded, P!MaxBody, R!MaxBody
  <2> QED BY <2>3, <2>4, <2>5
<1> QED BY <1>1, SystemIsSound, PTL

-----------------------------------------------------------------------------
(* The stream of a host is what it has written so far.  The invariant cuts   *)
(* it into the frames of the requests: the parser stands in the frame of the *)
(* first request it has not delivered, at the place its window says, or it   *)
(* skips the rest of the frame boot has beheaded, or an '@' that waited for  *)
(* the interrupt has drawn it into that rest.                                *)

\* What is on its way to the parser.
Line == inflight \o (late \o outgoing)

FrameAt(k) == Frame(script[k])

\* cut[k] is the number of bytes of the stream before its k-th frame, n the
\* number of frames begun and end the number of bytes in them.
IsCut(cut, n, end) ==
  /\ cut \in [1 .. n + 1 -> Nat] /\ cut[n + 1] = end
  /\ \A k \in 1 .. n : /\ cut[k] <= cut[k + 1] /\ cut[k + 1] <= end
                       /\ R!HasLen(FrameAt(k), cut[k + 1] - cut[k])

\* What follows the first bytes of the stream is the frames, or the rest of them.
Follows(cut, n, read, rest) ==
  \A k \in 1 .. n : \A j \in cut[k] + 1 .. cut[k + 1] :
    j > read => rest[j - read] = FrameAt(k)[j - cut[k]]

\* The first read bytes of the stream are gone, and rest is all the others.
Remains(cut, n, end, read, rest) ==
  read \in Nat /\ R!HasLen(rest, end - read) /\ Follows(cut, n, read, rest)

\* The parser skips the rest of the frame of the a-th request, the last one that
\* had a byte forgotten or lost.
Skipping(cut, read, t, a) ==
  /\ state = "WAIT_START" /\ a = t /\ a >= 1
  /\ cut[a] < read /\ read < cut[a + 1]

\* The parser has taken an '@' that waited for the first byte of a frame, and at
\* most two bytes of the rest of the a-th after it.
Astray(cut, read, t, a) ==
  /\ a = t /\ a >= 1 /\ read <= cut[a + 1]
  /\ \E k \in 1 .. 3 :
       /\ R!HasLen(window, k) /\ cut[a] + k + 1 <= read
       /\ \A j \in 2 .. k : window[j] = FrameAt(a)[read - cut[a] - k + j]

\* The parser is inside the frame of the a-th request.
Inside(cut, n, read, a) ==
  /\ a <= n /\ cut[a] < read /\ read < cut[a + 1]
  /\ R!HasRead(FrameAt(a), read - cut[a])

\* a requests being lost or delivered, the parser is between two frames, or
\* skips the rest of the a-th, or is astray in it, or is inside the next one.
Place(cut, n, read, t, a) ==
  /\ state = "WAIT_START" => read = cut[a + 1] \/ Skipping(cut, read, t, a)
  /\ state # "WAIT_START" => Inside(cut, n, read, a + 1) \/ Astray(cut, read, t, a)

\* The byte b that waited for the interrupt is still to be parsed, and the bytes
\* between it and the rest of the a-th frame are lost.
Waited(cut, read, t, a, b) ==
  /\ state = "WAIT_START" /\ a = t /\ a >= 1
  /\ cut[a] < read /\ read <= cut[a + 1]
  /\ b = R!START => cut[a] + 2 <= read

\* Until the interrupt works the bytes before the last frame begun have been sent.
AtTheLast(cut, n, sent) == (~running \/ late # << >>) /\ n >= 1 => cut[n] <= sent

Done == touched + Len(accepted)

\* The stream is whole from the parser to the host, or but for the byte that waited.
Reaches(cut, n, end, read, line, t, a) ==
  \/ Remains(cut, n, end, read, line) /\ Place(cut, n, read, t, a)
  \/ /\ line # << >> /\ Remains(cut, n, end, read, Tail(line))
     /\ Waited(cut, read, t, a, line[1])

InPlace ==
  \E cut, end, sent, read :
    /\ IsCut(cut, asked, end)
    /\ Remains(cut, asked, end, sent, outgoing)
    /\ AtTheLast(cut, asked, sent)
    /\ Reaches(cut, asked, end, read, Line, touched, Done)

\* The parser has had no byte yet.
Untouched == inflight = << >> /\ accepted = << >> /\ state = "WAIT_START"

Served ==
  /\ count.qd = 0
  /\ listens_first => /\ touched = 0 /\ count.pe = 0 /\ late = << >>
                      /\ asked > 0 => running
  /\ ~running \/ late # << >> => Untouched
  /\ Done <= asked
  /\ \A k \in 1 .. Len(accepted) : accepted[k] = script[touched + k]
  /\ InPlace

\* The script is one the invariant is about.
Suited == /\ Fits(script) /\ DistinctTexts
          /\ listens_first \/ StartsAreFrames(script)

LEMMA SuitedFirst ==
  ASSUME ScriptsFit, HostOK, listens_first
  PROVE  Suited
BY DEF ScriptsFit, HostOK, Suited

LEMMA SuitedAll ==
  ASSUME EveryScriptFits, HostOK
  PROVE  Suited
BY DEF EveryScriptFits, HostOK, Suited

\* A byte is read: the bytes that are left are cut as before.
LEMMA RemainsShrink ==
  ASSUME NEW n \in Nat, NEW rest \in Seq(R!Byte), rest # << >>, NEW end \in Nat,
         NEW cut, IsCut(cut, n, end), NEW read, Remains(cut, n, end, read, rest)
  PROVE  Remains(cut, n, end, read + 1, Tail(rest)) /\ read + 1 <= end
<1>1. PICK t \in Nat : t = Len(rest)
  BY LenProperties
<1>2. /\ Len(Tail(rest)) = t - 1
      /\ \A i \in 1 .. t - 1 : Tail(rest)[i] = rest[i + 1]
  BY <1>1, HeadTailProperties
<1>3. read \in Nat /\ end = read + t
  <2>1. t <= end - read /\ end - read <= t /\ read \in Nat
    BY <1>1 DEF Remains, R!HasLen
  <2> QED BY <2>1
<1>4. R!HasLen(Tail(rest), end - (read + 1))
  BY <1>2, <1>3 DEF R!HasLen
<1>5. ASSUME NEW k \in 1 .. n, NEW j \in cut[k] + 1 .. cut[k + 1], j > read + 1
      PROVE  Tail(rest)[j - (read + 1)] = FrameAt(k)[j - cut[k]]
  <2>1. cut[k] \in Nat /\ cut[k + 1] \in Nat /\ cut[k + 1] <= end
    BY DEF IsCut
  <2>2. j \in Nat /\ j <= end
    BY <2>1
  <2>3. j - (read + 1) \in 1 .. t - 1 /\ (j - (read + 1)) + 1 = j - read /\ j > read
    BY <1>3, <1>5, <2>2
  <2>4. rest[j - read] = FrameAt(k)[j - cut[k]]
    BY <2>3 DEF Remains, Follows
  <2>5. Tail(rest)[j - (read + 1)] = rest[(j - (read + 1)) + 1]
    BY <1>2, <2>3, Zenon
  <2> QED BY <2>3, <2>4, <2>5
<1>6. t >= 1
  <2>1. t # 0
    BY <1>1, EmptySeq
  <2> QED BY <2>1
<1>7. Follows(cut, n, read + 1, Tail(rest))
  BY <1>5 DEF Follows
<1>8. read + 1 \in Nat /\ read + 1 <= end
  BY <1>3, <1>6
<1> QED BY <1>4, <1>7, <1>8, Zenon DEF Remains

\* One more frame is written at the end.
LEMMA CutGrows ==
  ASSUME NEW n \in Nat, NEW end \in Nat, NEW cut, IsCut(cut, n, end),
         NEW f \in Seq(R!Byte), f = FrameAt(n + 1)
  PROVE  \E c, e : /\ IsCut(c, n + 1, e)
                   /\ \A k \in 1 .. n + 1 : c[k] = cut[k]
                   /\ \A read : \A rest \in Seq(R!Byte) :
                        Remains(cut, n, end, read, rest) => Remains(c, n + 1, e, read, rest \o f)
<1>1. PICK m \in Nat : m = Len(f)
  BY LenProperties
<1>3. PICK c : c = [k \in 1 .. n + 2 |-> IF k = n + 2 THEN end + m ELSE cut[k]]
  OBVIOUS
<1>4. /\ \A k \in 1 .. n + 1 : c[k] = cut[k] /\ c[k] \in Nat
      /\ c[n + 1] = end /\ c[n + 2] = end + m
  BY <1>3 DEF IsCut
<1>5. c \in [1 .. (n + 1) + 1 -> Nat]
  <2>1. \A k \in 1 .. n + 2 : (IF k = n + 2 THEN end + m ELSE cut[k]) \in Nat
    BY <1>1 DEF IsCut
  <2> QED BY <1>3, <2>1
<1>9. ASSUME NEW k \in 1 .. n
      PROVE  /\ c[k] = cut[k] /\ c[k + 1] = cut[k + 1]
             /\ cut[k] \in Nat /\ cut[k + 1] \in Nat /\ cut[k] <= cut[k + 1] /\ cut[k + 1] <= end
             /\ R!HasLen(FrameAt(k), cut[k + 1] - cut[k])
  BY <1>4 DEF IsCut
<1>10. R!HasLen(f, (end + m) - end)
  BY <1>1 DEF R!HasLen
<1>11. IsCut(c, n + 1, end + m)
  <2>1. ASSUME NEW k \in 1 .. n + 1
        PROVE  /\ c[k] <= c[k + 1] /\ c[k + 1] <= end + m
               /\ R!HasLen(FrameAt(k), c[k + 1] - c[k])
    <3>1. CASE k = n + 1
      <4>1. c[k] = end /\ c[k + 1] = end + m
        BY <1>4, <3>1
      <4>2. c[k] <= c[k + 1] /\ c[k + 1] <= end + m
        BY <1>1, <4>1
      <4>3. FrameAt(k) = f
        BY <3>1, Zenon
      <4>4. R!HasLen(FrameAt(k), c[k + 1] - c[k])
        BY <1>10, <4>1, <4>3, Zenon
      <4> QED BY <4>2, <4>4, Zenon
    <3>2. CASE k # n + 1
      <4>1. k \in 1 .. n
        BY <3>2
      <4>2. /\ c[k] = cut[k] /\ c[k + 1] = cut[k + 1]
            /\ cut[k] \in Nat /\ cut[k + 1] \in Nat
            /\ cut[k] <= cut[k + 1] /\ cut[k + 1] <= end
        BY <1>9, <4>1
      <4>3. R!HasLen(FrameAt(k), cut[k + 1] - cut[k])
        BY <1>9, <4>1
      <4>4. R!HasLen(FrameAt(k), c[k + 1] - c[k])
        BY <4>2, <4>3, Zenon
      <4>5. cut[k] <= cut[k + 1] /\ cut[k + 1] <= end + m
        BY <1>1, <4>2
      <4>6. c[k] <= c[k + 1] /\ c[k + 1] <= end + m
        BY <4>2, <4>5, Zenon
      <4> QED BY <4>4, <4>6, Zenon
    <3> QED BY <3>1, <3>2, Zenon
  <2>2. c[(n + 1) + 1] = end + m
    <3>1. (n + 1) + 1 = n + 2
      OBVIOUS
    <3> QED BY <1>4, <3>1, Zenon
  <2> QED BY <1>5, <2>1, <2>2, Zenon DEF IsCut
<1>12. ASSUME NEW read, NEW rest \in Seq(R!Byte), Remains(cut, n, end, read, rest)
       PROVE  Remains(c, n + 1, end + m, read, rest \o f)
  <2>1. PICK t \in Nat : t = Len(rest)
    BY LenProperties
  <2>2. read \in Nat /\ end = read + t
    <3>1. t <= end - read /\ end - read <= t /\ read \in Nat
      BY <1>12, <2>1 DEF Remains, R!HasLen
    <3> QED BY <3>1
  <2>3. PICK all : all = rest \o f
    OBVIOUS
  <2>4. /\ Len(all) = t + m
        /\ \A i \in 1 .. t : all[i] = rest[i]
        /\ \A i \in t + 1 .. t + m : all[i] = f[i - t]
    BY <1>1, <2>1, <2>3, ConcatProperties
  <2>5. R!HasLen(all, (end + m) - read)
    BY <2>2, <2>4 DEF R!HasLen
  <2>6. Follows(c, n + 1, read, all)
    <3> SUFFICES ASSUME NEW k \in 1 .. n + 1, NEW j \in c[k] + 1 .. c[k + 1], j > read
                 PROVE  all[j - read] = FrameAt(k)[j - c[k]]
      BY DEF Follows
    <3>1. CASE k = n + 1
      <4>1. c[k] = end /\ c[k + 1] = end + m
        BY <1>4, <3>1
      <4>2. j - read \in t + 1 .. t + m /\ (j - read) - t = j - end
        BY <2>2, <4>1
      <4>3. all[j - read] = f[(j - read) - t]
        BY <2>4, <4>2, Zenon
      <4> QED BY <3>1, <4>1, <4>2, <4>3
    <3>2. CASE k # n + 1
      <4>1. k \in 1 .. n
        BY <3>2
      <4>2. /\ c[k] = cut[k] /\ c[k + 1] = cut[k + 1]
            /\ cut[k] \in Nat /\ cut[k + 1] \in Nat /\ cut[k + 1] <= end
        BY <1>9, <4>1, Zenon
      <4>3. j \in cut[k] + 1 .. cut[k + 1]
        BY <4>2, Zenon
      <4>4. j \in Nat /\ j <= end
        BY <4>2, <4>3
      <4>5. rest[j - read] = FrameAt(k)[j - cut[k]]
        BY <1>12, <4>1, <4>3, Zenon DEF Remains, Follows
      <4>6. j - read \in 1 .. t
        BY <2>2, <4>4
      <4>7. all[j - read] = rest[j - read]
        BY <2>4, <4>6, Zenon
      <4> QED BY <4>2, <4>5, <4>7, Zenon
    <3> QED BY <3>1, <3>2
  <2> QED BY <2>2, <2>3, <2>5, <2>6 DEF Remains
<1> QED BY <1>4, <1>11, <1>12

\* The frame of a request of the script is one the parser reads whole.
LEMMA FrameOfScript ==
  ASSUME Suited, HostOK, NEW k \in 1 .. Len(script)
  PROVE  /\ script[k] \in Request /\ FrameAt(k) \in Seq(R!Byte)
         /\ R!ValidateBytes(FrameAt(k)) = Text(script[k])
         /\ \E n \in TypeLength + 1 .. R!MaxBody : R!Shape(FrameAt(k), n) /\ R!HasLen(FrameAt(k), n + 8)
<1>2. PICK r : r = script[k]
  OBVIOUS
<1>3. r \in Request
  BY <1>2, ScriptOK
<1>4. DOMAIN script = 1 .. Len(script)
  BY ScriptOK, LenProperties
<1>5. Sendable(r)
  BY <1>2, <1>4 DEF Suited, Fits
<1>6. PICK m \in R!Message : m = Text(r)
  BY <1>3, FrameOfRequest
<1>7. PICK f \in Seq(R!Byte) : /\ f = Frame(r) /\ f = R!protocol_encode_frame(m, MaxFrame)
                               /\ f # << >> /\ R!ValidateBytes(f) = m
  BY <1>3, <1>5, <1>6, FrameOfRequest DEF Sendable
<1>8. /\ m.type = r.type /\ m.payload = PayloadText[r.payload]
      /\ m.type \in R!MessageType /\ m.payload \in Seq(R!Byte)
  BY <1>3, <1>6, SystemAssumption, SameAlphabet DEF Text
<1>9. \A i \in 1 .. Len(m.payload) : m.payload[i] # R!CR
  <2>1. DOMAIN m.payload = 1 .. Len(m.payload)
    BY <1>8, LenProperties
  <2>2. Without(P!CR, m.payload)
    BY <1>5, <1>8 DEF Sendable
  <2> QED BY <2>1, <2>2 DEF Without, P!CR, R!CR
<1>10. \A i \in 1 .. TypeLength : TypeText[m.type][i] # R!CR
  <2>1. TypeText[m.type] \in Seq(R!Byte) /\ Len(TypeText[m.type]) = TypeLength
    BY <1>8, ReaderAssumptions, R!ProtocolFacts
  <2>2. DOMAIN TypeText[m.type] = 1 .. TypeLength
    BY <2>1, LenProperties
  <2>3. Without(P!CR, TypeText[m.type])
    BY <1>5, <1>8 DEF Sendable
  <2> QED BY <2>2, <2>3 DEF Without, P!CR, R!CR
<1>11. PICK n \in TypeLength + 1 .. R!MaxBody : R!Shape(f, n)
  BY <1>7, <1>9, <1>10, SameAlphabet, ReaderAssumptions, R!EncodedShape
<1>12. R!HasLen(f, n + 8)
  BY <1>11 DEF R!Shape
<1> QED BY <1>2, <1>3, <1>6, <1>7, <1>11, <1>12 DEF FrameAt

\* Of the frames a host that does not listen sends, only the first byte is an '@'.
LEMMA NoStartInside ==
  ASSUME Suited, HostOK, ~listens_first, NEW k \in 1 .. Len(script),
         NEW n \in Nat, R!HasLen(FrameAt(k), n)
  PROVE  \A i \in 2 .. n : FrameAt(k)[i] # R!START
<1>1. PICK r : r = script[k]
  OBVIOUS
<1>2. r \in Request
  BY <1>1, ScriptOK
<1>3. DOMAIN script = 1 .. Len(script)
  BY ScriptOK, LenProperties
<1>4. Sendable(r) /\ Without(P!START, TypeText[r.type]) /\ Without(P!START, PayloadText[r.payload])
  BY <1>1, <1>3 DEF Suited, Fits, StartsAreFrames, Alone
<1>5. PICK m \in R!Message : m = Text(r)
  BY <1>2, FrameOfRequest
<1>6. PICK f \in Seq(R!Byte) : /\ f = Frame(r) /\ f = R!protocol_encode_frame(m, MaxFrame)
                               /\ f # << >>
  BY <1>2, <1>4, <1>5, FrameOfRequest DEF Sendable
<1>7. /\ m.type = r.type /\ m.payload = PayloadText[r.payload]
      /\ m.type \in R!MessageType /\ m.payload \in Seq(R!Byte)
  BY <1>2, <1>5, SystemAssumption, SameAlphabet DEF Text
<1>8. \A i \in 1 .. Len(m.payload) : m.payload[i] # R!START
  <2>1. DOMAIN m.payload = 1 .. Len(m.payload)
    BY <1>7, LenProperties
  <2>2. Without(P!START, m.payload)
    BY <1>4, <1>7
  <2> QED BY <2>1, <2>2 DEF Without, P!START, R!START
<1>9. \A i \in 1 .. TypeLength : TypeText[m.type][i] # R!START
  <2>1. TypeText[m.type] \in Seq(R!Byte) /\ Len(TypeText[m.type]) = TypeLength
    BY <1>7, ReaderAssumptions, R!ProtocolFacts
  <2>2. DOMAIN TypeText[m.type] = 1 .. TypeLength
    BY <2>1, LenProperties
  <2>3. Without(P!START, TypeText[m.type])
    BY <1>4, <1>7
  <2> QED BY <2>2, <2>3 DEF Without, P!START, R!START
<1>10. \A i \in 2 .. Len(f) : f[i] # R!START
  BY <1>6, <1>8, <1>9, SameAlphabet, ReaderAssumptions, R!OneStart
<1>11. f = FrameAt(k)
  BY <1>1, <1>6 DEF FrameAt
<1>12. R!HasLen(f, n)
  BY <1>11
<1>13. Len(f) = n
  <2>1. f \in Seq(R!Byte)
    BY <1>6
  <2> QED BY <1>12, <2>1, ReaderAssumptions, R!HasLenIsLen
<1> QED BY <1>10, <1>11, <1>13

\* And no two digits and a separator in them but the length are in range.
LEMMA NoLengthInside ==
  ASSUME Suited, HostOK, ~listens_first, NEW k \in 1 .. Len(script),
         NEW n \in Nat, R!HasLen(FrameAt(k), n),
         NEW i \in 3 .. n - 2, R!IsHex(FrameAt(k)[i]), R!IsHex(FrameAt(k)[i + 1]),
         FrameAt(k)[i + 2] = R!SEP
  PROVE  R!HexByte(FrameAt(k)[i], FrameAt(k)[i + 1]) \notin TypeLength + 1 .. R!MaxBody
<1>1. PICK f \in Seq(R!Byte) : f = FrameAt(k) /\ f = Frame(script[k])
  BY FrameOfScript DEF FrameAt
<1>2. Len(f) = n
  BY <1>1, ReaderAssumptions, R!HasLenIsLen
<1>3. DOMAIN script = 1 .. Len(script)
  BY ScriptOK, LenProperties
<1>4. ~ReadsAsLength(f, i)
  <2>1. Alone(script[k])
    BY <1>3 DEF Suited, StartsAreFrames
  <2> QED BY <1>1, <1>2, <2>1 DEF Alone
<1>5. P!IsHex(f[i]) /\ P!IsHex(f[i + 1]) /\ f[i + 2] = P!SEP
  BY <1>1, SameDigits DEF P!SEP, R!SEP
<1>6. P!HexByte(f[i], f[i + 1]) \notin TypeLength + 1 .. P!MaxBody
  BY <1>4, <1>5 DEF ReadsAsLength
<1>7. P!HexByte(f[i], f[i + 1]) = R!HexByte(f[i], f[i + 1]) /\ P!MaxBody = R!MaxBody
  BY SameDigits DEF P!MaxBody, R!MaxBody
<1> QED BY <1>1, <1>6, <1>7

\* No two requests have the same text: task_app finds the one that was sent.
LEMMA RightRequest ==
  ASSUME Suited, NEW r \in Request
  PROVE  Received(Text(r)) = r
<1>1. Text(r).type = r.type /\ Text(r).payload = PayloadText[r.payload]
  BY DEF Text
<1>2. \A q \in Request : (q.type = Text(r).type /\ PayloadText[q.payload] = Text(r).payload) <=> q = r
  BY <1>1 DEF Suited, DistinctTexts
<1> QED BY <1>2 DEF Received

\* What the rest of the board sees of a byte the parser reads.
LEMMA ParserCounts ==
  ASSUME TypeOK, task_parser
  PROVE  /\ count'.pb = count.pb + 1 /\ count'.qd = count.qd
         /\ running /\ running' = running
         /\ result' = "IN_PROGRESS" => accepted' = accepted /\ count'.pe = count.pe
         /\ result' # "MESSAGE_READY" => accepted' = accepted
         /\ result' = "MESSAGE_READY" =>
              accepted' = Append(accepted, Received(message')) /\ count'.pe = count.pe
<1>1. /\ count \in [Counter -> Nat] /\ count.pb \in Nat /\ count.pe \in Nat /\ count.qd \in Nat
  BY Names DEF TypeOK, CountersOK
<1>2. /\ ParserReceive /\ running /\ running' = running /\ parsed = << >>
      /\ parsed' = IF result' = "MESSAGE_READY" THEN <<Received(message')>> ELSE << >>
      /\ result' = "ERROR" <=> count'.pe > count.pe
  BY DEF task_parser, ParserReceive, Priority3
<1>3. \/ count' = [count EXCEPT !["pb"] = @ + 1] /\ UNCHANGED <<parsed, accepted>>
      \/ count' = [count EXCEPT !["pb"] = @ + 1, !["pe"] = @ + 1] /\ UNCHANGED <<parsed, accepted>>
      \/ \E m \in Request : /\ count' = [count EXCEPT !["pb"] = @ + 1, !["pm"] = @ + 1]
                            /\ parsed' = <<m>> /\ accepted' = Append(accepted, m)
  BY <1>2, Zenon DEF ParserReceive, Increment
<1>4. count'.pb = count.pb + 1 /\ count'.qd = count.qd
  BY <1>1, <1>3, Names
<1>5. CASE count' = [count EXCEPT !["pb"] = @ + 1] /\ UNCHANGED <<parsed, accepted>>
  <2>1. count'.pe = count.pe
    BY <1>1, <1>5, Names
  <2>2. result' # "MESSAGE_READY"
    BY <1>2, <1>5
  <2> QED BY <1>2, <1>4, <1>5, <2>1, <2>2
<1>6. CASE count' = [count EXCEPT !["pb"] = @ + 1, !["pe"] = @ + 1] /\ UNCHANGED <<parsed, accepted>>
  <2>1. count'.pe = count.pe + 1
    BY <1>1, <1>6, Names
  <2>2. result' = "ERROR"
    BY <1>1, <1>2, <2>1
  <2> QED BY <1>2, <1>4, <1>6, <2>2
<1>7. ASSUME NEW m \in Request, count' = [count EXCEPT !["pb"] = @ + 1, !["pm"] = @ + 1],
             parsed' = <<m>>, accepted' = Append(accepted, m)
      PROVE  /\ count'.pe = count.pe /\ result' = "MESSAGE_READY"
             /\ accepted' = Append(accepted, Received(message'))
  <2>1. count'.pe = count.pe
    BY <1>1, <1>7, Names
  <2>2. result' = "MESSAGE_READY"
    BY <1>2, <1>7
  <2>3. m = Received(message')
    BY <1>2, <1>7, <2>2
  <2> QED BY <1>7, <2>1, <2>2, <2>3
<1>8. CASE \E m \in Request : /\ count' = [count EXCEPT !["pb"] = @ + 1, !["pm"] = @ + 1]
                              /\ parsed' = <<m>> /\ accepted' = Append(accepted, m)
  <2>1. /\ count'.pe = count.pe /\ result' = "MESSAGE_READY"
        /\ accepted' = Append(accepted, Received(message'))
    BY <1>7, <1>8
  <2> QED BY <1>2, <1>4, <2>1
<1> QED BY <1>3, <1>5, <1>6, <1>8

\* The script is what it was, and so are the cuts.
LEMMA SameCuts ==
  ASSUME script' = script, NEW cut, NEW n, NEW end, NEW read, NEW rest
  PROVE  /\ IsCut(cut, n, end) => IsCut(cut, n, end)'
         /\ Remains(cut, n, end, read, rest) => Remains(cut, n, end, read, rest)'
BY DEF IsCut, Remains, Follows, FrameAt, Frame, R!HasLen

\* The definitions of the invariant, in the state after a step.
LEMMA InPlaceAgain ==
  ASSUME script' = script, NEW cut, NEW end, NEW sent, NEW read, NEW n, NEW line, NEW t, NEW a,
         NEW rest,
         asked' = n, Line' = line, outgoing' = rest, touched' = t, Done' = a,
         IsCut(cut, n, end), Remains(cut, n, end, sent, rest), AtTheLast(cut, n, sent)',
         Reaches(cut, n, end, read, line, t, a)'
  PROVE  InPlace'
<1>1. IsCut(cut, n, end)' /\ Remains(cut, n, end, sent, rest)'
  BY SameCuts
<1>2. IsCut(cut, asked, end)'
  BY <1>1 DEF IsCut, FrameAt, Frame, R!HasLen
<1>3. Remains(cut, asked, end, sent, outgoing)'
  BY <1>1 DEF Remains, Follows, FrameAt, Frame, R!HasLen
<1>4. AtTheLast(cut, asked, sent)'
  BY DEF AtTheLast
<1>5. Reaches(cut, asked, end, read, Line, touched, Done)'
  BY DEF Reaches, Remains, Follows, Place, Skipping, Astray, Inside, Waited, FrameAt, Frame,
         R!HasRead, R!HasLen
<1> QED BY <1>2, <1>3, <1>4, <1>5, Zenon DEF InPlace

\* The stream reaches the parser whole, or but for the byte that waited.
LEMMA WholeAgain ==
  ASSUME script' = script, NEW cut, NEW n, NEW end, NEW read, NEW line, NEW t, NEW a,
         Remains(cut, n, end, read, line), Place(cut, n, read, t, a)'
  PROVE  Reaches(cut, n, end, read, line, t, a)'
BY SameCuts DEF Reaches

LEMMA WaitedAgain ==
  ASSUME script' = script, NEW cut, NEW n, NEW end, NEW read, NEW line, NEW t, NEW a,
         line # << >>, Remains(cut, n, end, read, Tail(line)), Waited(cut, read, t, a, line[1])'
  PROVE  Reaches(cut, n, end, read, line, t, a)'
<1>1. Remains(cut, n, end, read, Tail(line))'
  BY SameCuts
<1> QED BY <1>1, Zenon DEF Reaches

\* The sequences of the invariant and their lengths.
LEMMA StreamFacts ==
  ASSUME Sound
  PROVE  /\ inflight \in Seq(R!Byte) /\ outgoing \in Seq(R!Byte) /\ late \in Seq(R!Byte)
         /\ late \o outgoing \in Seq(R!Byte) /\ Line \in Seq(R!Byte)
         /\ accepted \in Seq(Request) /\ Len(accepted) \in Nat
         /\ asked \in Nat /\ touched \in Nat /\ touched <= asked /\ Done \in Nat
         /\ early \in Nat
         /\ g_uart_rx_isr_queue \in Nat /\ rx_byte \in {0, 1} /\ g_parser_input_queue \in Nat
<1>1. /\ inflight \in Seq(R!Byte) /\ outgoing \in Seq(R!Byte) /\ asked \in Nat
      /\ touched \in Nat /\ touched <= asked
  BY ScriptOK DEF Sound, HostOK
<1>2. late \in Seq(R!Byte)
  <2>1. << >> \in Seq(R!Byte) /\ \A b \in R!Byte : <<b>> \in Seq(R!Byte)
    BY EmptySeq
  <2> QED BY <2>1, Zenon DEF Sound, HostOK
<1>3. late \o outgoing \in Seq(R!Byte)
  BY <1>1, <1>2, ConcatProperties
<1>4. Line \in Seq(R!Byte)
  BY <1>1, <1>3, ConcatProperties DEF Line
<1>5. accepted \in Seq(Request) /\ Len(accepted) \in Nat
  BY LenProperties DEF Sound, TypeOK, ParsingOK
<1>6. g_uart_rx_isr_queue \in Nat /\ rx_byte \in {0, 1} /\ g_parser_input_queue \in Nat
  BY Lengths DEF Sound, TypeOK, ReceptionOK
<1>7. Done \in Nat
  BY <1>1, <1>5 DEF Done
<1>8. early \in Nat
  BY DEF Sound, TypeOK, ReceptionOK
<1> QED BY <1>1, <1>2, <1>3, <1>4, <1>5, <1>6, <1>7, <1>8

\* Where there are no bytes or some before the last one.
LEMMA LineWithout ==
  ASSUME Sound
  PROVE  /\ late = << >> => Line = inflight \o outgoing
         /\ inflight = << >> => Line = late \o outgoing
         /\ late = << >> /\ inflight = << >> => Line = outgoing
         /\ outgoing = << >> => Line = inflight \o late
<1>1. << >> \o outgoing = outgoing /\ << >> \o (late \o outgoing) = late \o outgoing
  BY StreamFacts, ConcatEmptySeq
<1>2. late \o << >> = late
  BY StreamFacts, ConcatEmptySeq
<1> QED BY <1>1, <1>2, Zenon DEF Line

\* The k-th frame in the stream.
LEMMA FrameInStream ==
  ASSUME Suited, Sound, NEW n \in Nat, n = asked, NEW cut, NEW end, IsCut(cut, n, end),
         NEW k \in 1 .. n
  PROVE  /\ k \in 1 .. Len(script) /\ FrameAt(k) \in Seq(R!Byte)
         /\ cut[k] \in Nat /\ cut[k + 1] \in Nat /\ cut[k + 1] <= end
         /\ \E m \in TypeLength + 1 .. R!MaxBody :
              /\ m \in Nat /\ R!Shape(FrameAt(k), m) /\ R!HasLen(FrameAt(k), m + 8)
              /\ cut[k + 1] = cut[k] + m + 8
<1>1. k \in 1 .. Len(script)
  BY ScriptOK DEF Sound
<1>2. PICK f \in Seq(R!Byte) : f = FrameAt(k)
  BY <1>1, FrameOfScript DEF Sound
<1>3. PICK m \in TypeLength + 1 .. R!MaxBody : R!Shape(f, m) /\ R!HasLen(f, m + 8)
  BY <1>1, <1>2, FrameOfScript DEF Sound
<1>4. m \in Nat
  BY ReaderAssumptions, R!Widths
<1>5. PICK c \in Nat, d \in Nat : c = cut[k] /\ d = cut[k + 1]
  <2>1. cut \in [1 .. n + 1 -> Nat]
    BY DEF IsCut
  <2>2. k \in 1 .. n + 1 /\ k + 1 \in 1 .. n + 1
    OBVIOUS
  <2> QED BY <2>1, <2>2
<1>6. d <= end /\ R!HasLen(f, d - c)
  BY <1>2, <1>5 DEF IsCut
<1>7. d = c + m + 8
  <2>1. PICK l \in Nat : l = Len(f)
    BY LenProperties
  <2>2. l <= d - c /\ d - c <= l /\ l <= m + 8 /\ m + 8 <= l
    BY <1>3, <1>6, <2>1 DEF R!HasLen
  <2> QED BY <1>4, <2>2
<1> QED BY <1>1, <1>2, <1>3, <1>4, <1>5, <1>6, <1>7

\* The byte that is next when read bytes are gone.
LEMMA NextByte ==
  ASSUME NEW n \in Nat, NEW cut, NEW end \in Nat, NEW read, NEW rest,
         Remains(cut, n, end, read, rest), NEW k \in 1 .. n, cut[k] \in Nat, cut[k + 1] \in Nat,
         cut[k] <= read, read < cut[k + 1]
  PROVE  rest[1] = FrameAt(k)[(read + 1) - cut[k]]
<1>1. PICK c \in Nat, d \in Nat : c = cut[k] /\ d = cut[k + 1]
  OBVIOUS
<1>2. read \in Nat
  BY DEF Remains
<1>3. read + 1 \in c + 1 .. d /\ read + 1 > read /\ (read + 1) - read = 1
  BY <1>1, <1>2
<1>4. read + 1 \in cut[k] + 1 .. cut[k + 1]
  BY <1>1, <1>3, Zenon
<1>5. rest[(read + 1) - read] = FrameAt(k)[(read + 1) - cut[k]]
  BY <1>3, <1>4, Zenon DEF Remains, Follows
<1> QED BY <1>3, <1>5, Zenon

LEMMA MoreToCome ==
  ASSUME NEW n, NEW cut, NEW end \in Nat, NEW read, NEW rest \in Seq(R!Byte),
         Remains(cut, n, end, read, rest)
  PROVE  read \in Nat /\ read <= end /\ (rest = << >> <=> read = end)
<1>1. PICK t \in Nat : t = Len(rest)
  BY LenProperties
<1>2. t <= end - read /\ end - read <= t /\ read \in Nat
  BY <1>1 DEF Remains, R!HasLen
<1>3. rest = << >> <=> t = 0
  BY <1>1, EmptySeq
<1> QED BY <1>2, <1>3

\* The parser has read p bytes of the frame of the next request, of m + 8.
InFrame(cut, a, read, rest) ==
  \E m \in TypeLength + 1 .. R!MaxBody : \E p \in 0 .. m + 7 :
    /\ R!Shape(FrameAt(a + 1), m)
    /\ read = cut[a + 1] + p /\ cut[a + 2] = cut[a + 1] + m + 8
    /\ rest[1] = FrameAt(a + 1)[p + 1]
    /\ state = "WAIT_START" <=> p = 0
    /\ state # "WAIT_START" => R!HasRead(FrameAt(a + 1), p)

\* The byte the parser is handed is the next one of a frame that was sent.
LEMMA NextOfFrame ==
  ASSUME Suited, Sound, NEW n \in Nat, n = asked,
         NEW a \in Nat, a <= n, NEW rest \in Seq(R!Byte), rest # << >>,
         NEW cut, NEW end \in Nat, IsCut(cut, n, end), NEW read, Remains(cut, n, end, read, rest),
         state = "WAIT_START" => read = cut[a + 1],
         state # "WAIT_START" => Inside(cut, n, read, a + 1)
  PROVE  /\ a + 1 <= n
         /\ InFrame(cut, a, read, rest)
<1>1. read \in Nat /\ read < end
  BY MoreToCome
<1>2. a + 1 <= n
  <2>1. CASE state = "WAIT_START"
    <3>1. a # n
      BY <1>1, <2>1 DEF IsCut
    <3> QED BY <3>1
  <2>2. CASE state # "WAIT_START"
    BY <2>2 DEF Inside
  <2> QED BY <2>1, <2>2
<1>3. PICK k \in 1 .. n : k = a + 1 /\ k + 1 = a + 2
  BY <1>2
<1>4. PICK c \in Nat, d \in Nat, m \in TypeLength + 1 .. R!MaxBody :
        /\ c = cut[k] /\ d = cut[k + 1] /\ d = c + m + 8
        /\ m \in Nat /\ R!Shape(FrameAt(k), m)
  BY FrameInStream
<1>5. /\ state = "WAIT_START" => read = c
      /\ state # "WAIT_START" => c < read /\ read < d /\ R!HasRead(FrameAt(k), read - c)
  BY <1>3, <1>4 DEF Inside
<1>6. PICK p \in 0 .. m + 7 : p = read - c /\ read = c + p /\ (read + 1) - c = p + 1
  <2>1. c \in Nat /\ m \in Nat /\ c <= read /\ read < c + m + 8
    <3>1. read = c \/ (c < read /\ read < d)
      BY <1>5
    <3> QED BY <1>1, <1>4, <3>1
  <2>2. read - c \in 0 .. m + 7 /\ read = c + (read - c) /\ (read + 1) - c = (read - c) + 1
    BY <1>1, <2>1
  <2> QED BY <2>2
<1>7. state = "WAIT_START" <=> p = 0
  BY <1>5, <1>6
<1>8. rest[1] = FrameAt(k)[p + 1]
  <2>1. c <= read /\ read < c + m + 8
    <3>1. c \in Nat /\ m \in Nat /\ p \in Nat /\ p < m + 8 /\ read = c + p
      BY <1>4, <1>6
    <3> QED BY <3>1
  <2>2. cut[k] \in Nat /\ cut[k + 1] \in Nat /\ cut[k] <= read /\ read < cut[k + 1]
    <3>1. read < d
      BY <1>4, <2>1
    <3> QED BY <1>4, <2>1, <3>1
  <2>3. rest[1] = FrameAt(k)[(read + 1) - cut[k]]
    BY <2>2, NextByte
  <2> QED BY <1>4, <1>6, <2>3
<1>9. state # "WAIT_START" => R!HasRead(FrameAt(a + 1), p)
  BY <1>3, <1>5, <1>6
<1>10. read = cut[a + 1] + p /\ cut[a + 2] = cut[a + 1] + m + 8
  BY <1>3, <1>4, <1>6
<1>11. R!Shape(FrameAt(a + 1), m) /\ rest[1] = FrameAt(a + 1)[p + 1]
  BY <1>3, <1>4, <1>8
<1> QED BY <1>2, <1>7, <1>9, <1>10, <1>11 DEF InFrame

\* The byte the parser is handed is in the rest of a beheaded frame.
LEMMA NextIsSkipped ==
  ASSUME Suited, Sound, ~listens_first, NEW n \in Nat, n = asked,
         NEW a \in 1 .. n, NEW rest, NEW cut, NEW end \in Nat, IsCut(cut, n, end),
         NEW read, Remains(cut, n, end, read, rest), cut[a] < read, read < cut[a + 1]
  PROVE  rest[1] # R!START /\ rest[1] = FrameAt(a)[(read + 1) - cut[a]]
<1>1. PICK c \in Nat, d \in Nat, m \in Nat :
        /\ c = cut[a] /\ d = cut[a + 1] /\ d = c + m + 8 /\ R!HasLen(FrameAt(a), m + 8)
  BY FrameInStream
<1>2. read \in Nat
  BY DEF Remains
<1>3. rest[1] = FrameAt(a)[(read + 1) - cut[a]]
  <2>1. cut[a] \in Nat /\ cut[a + 1] \in Nat /\ cut[a] <= read /\ read < cut[a + 1]
    BY <1>1, <1>2
  <2> QED BY <2>1, NextByte
<1>4. PICK i \in 2 .. m + 8 : i = (read + 1) - c
  BY <1>1, <1>2
<1>5. FrameAt(a)[i] # R!START
  <2>1. a \in 1 .. Len(script) /\ HostOK /\ m + 8 \in Nat
    BY FrameInStream DEF Sound
  <2> QED BY <1>1, <2>1, NoStartInside
<1> QED BY <1>1, <1>3, <1>4, <1>5

\* Reading a byte of the frame of the k-th request is getting on with it or,
\* at the last byte, delivering the request.
LEMMA ReadsTheFrame ==
  ASSUME Suited, Sound, task_parser, script' = script,
         NEW k \in 1 .. Len(script),
         NEW m \in TypeLength + 1 .. R!MaxBody, NEW p \in 0 .. m + 7,
         R!Shape(FrameAt(k), m), R!parser_consume_byte(FrameAt(k)[p + 1]),
         state = "WAIT_START" <=> p = 0,
         state # "WAIT_START" => R!HasRead(FrameAt(k), p)
  PROVE  \/ /\ p # m + 7 /\ state' # "WAIT_START" /\ R!HasRead(FrameAt(k), p + 1)'
            /\ accepted' = accepted /\ count'.pe = count.pe
         \/ /\ p = m + 7 /\ state' = "WAIT_START"
            /\ accepted' = Append(accepted, script[k]) /\ count'.pe = count.pe
<1>1. PICK f \in Seq(R!Byte) : f = FrameAt(k)
  BY FrameOfScript DEF Sound
<1>2. R!IInv /\ m \in Nat /\ R!MaxBody \in Nat
  BY ReaderAssumptions, R!Widths DEF Sound
<1>3. TypeOK
  BY DEF Sound
<1>4. FrameAt(k)' = f
  BY <1>1 DEF FrameAt, Frame
<1>5. CASE p = 0
  <2>1. state = "WAIT_START" /\ R!parser_consume_byte(f[1])
    BY <1>1, <1>5
  <2>2. state' # "WAIT_START" /\ result' = "IN_PROGRESS" /\ R!HasRead(f, 1)'
    BY <1>1, <1>2, <2>1, ReaderAssumptions, R!FirstByte
  <2>3. accepted' = accepted /\ count'.pe = count.pe
    BY <1>3, <2>2, ParserCounts
  <2>4. p # m + 7
    BY <1>2, <1>5
  <2>5. R!HasRead(FrameAt(k), p + 1)'
    BY <1>4, <1>5, <2>2 DEF R!HasRead, R!HasLen
  <2> QED BY <2>2, <2>3, <2>4, <2>5
<1>6. CASE p # 0 /\ p # m + 7
  <2>1. p \in 1 .. m + 6
    BY <1>2, <1>6
  <2>2. state # "WAIT_START" /\ R!HasRead(f, p) /\ R!parser_consume_byte(f[p + 1])
    BY <1>1, <1>6
  <2>3. state' # "WAIT_START" /\ result' = "IN_PROGRESS" /\ R!HasRead(f, p + 1)'
    BY <1>1, <1>2, <2>1, <2>2, ReaderAssumptions, R!ReadsOn
  <2>4. accepted' = accepted /\ count'.pe = count.pe
    BY <1>3, <2>3, ParserCounts
  <2>5. R!HasRead(FrameAt(k), p + 1)'
    BY <1>4, <2>3 DEF R!HasRead, R!HasLen
  <2> QED BY <1>6, <2>3, <2>4, <2>5
<1>7. CASE p = m + 7
  <2>1. p + 1 = m + 8 /\ p # 0
    BY <1>2, <1>7
  <2>2. state # "WAIT_START" /\ R!HasRead(f, m + 7) /\ R!parser_consume_byte(f[m + 8])
    BY <1>1, <1>7, <2>1
  <2>3. /\ state' = "WAIT_START" /\ message' = R!ValidateBytes(f)
        /\ result' = IF R!ValidateBytes(f) = R!NoMessage THEN "ERROR" ELSE "MESSAGE_READY"
    BY <1>1, <1>2, <2>2, ReaderAssumptions, R!ReadsWhole
  <2>4. PICK r \in Request : r = script[k] /\ R!ValidateBytes(f) = Text(r)
    BY <1>1, FrameOfScript DEF Sound
  <2>5. Text(r) # R!NoMessage
    <3>1. Text(r).type \in R!MessageType
      BY SystemAssumption, SameAlphabet DEF Text
    <3>2. "INVALID" \notin R!MessageType /\ R!NoMessage.type = "INVALID"
      BY ReaderAssumptions, R!ProtocolFacts DEF R!NoMessage
    <3> QED BY <3>1, <3>2
  <2>6. result' = "MESSAGE_READY" /\ message' = Text(r)
    BY <2>3, <2>4, <2>5
  <2>7. Received(message') = r
    BY <2>6, RightRequest
  <2>8. accepted' = Append(accepted, r) /\ count'.pe = count.pe
    BY <1>3, <2>6, <2>7, ParserCounts
  <2> QED BY <1>7, <2>3, <2>4, <2>8
<1> QED BY <1>5, <1>6, <1>7

\* An '@' that waited has drawn the parser into the rest of a frame: the byte it
\* reads delivers nothing, and the next frame is found when it begins.
LEMMA ReadsAstray ==
  ASSUME Suited, Sound, ~listens_first, script' = script,
         NEW n \in Nat, n = asked, NEW a \in 1 .. n, NEW t,
         NEW rest \in Seq(R!Byte), rest # << >>,
         NEW cut, NEW end \in Nat, IsCut(cut, n, end),
         NEW read, Remains(cut, n, end, read, rest),
         state # "WAIT_START", Astray(cut, read, t, a), R!parser_consume_byte(rest[1])
  PROVE  result' # "MESSAGE_READY" /\ Place(cut, n, read + 1, t, a)'
<1>1. PICK c \in Nat, d \in Nat, m \in Nat, f \in Seq(R!Byte) :
        /\ c = cut[a] /\ d = cut[a + 1] /\ d = c + m + 8
        /\ f = FrameAt(a) /\ R!Shape(f, m) /\ R!HasLen(f, m + 8)
  <2>1. PICK m \in TypeLength + 1 .. R!MaxBody :
          /\ m \in Nat /\ R!Shape(FrameAt(a), m) /\ R!HasLen(FrameAt(a), m + 8)
          /\ cut[a + 1] = cut[a] + m + 8
    BY FrameInStream
  <2>2. FrameAt(a) \in Seq(R!Byte) /\ cut[a] \in Nat /\ cut[a + 1] \in Nat
    BY FrameInStream
  <2> QED BY <2>1, <2>2, Zenon
<1>2. PICK k \in 1 .. 3 :
        /\ R!HasLen(window, k) /\ c + k + 1 <= read
        /\ \A j \in 2 .. k : window[j] = f[read - c - k + j]
  BY <1>1 DEF Astray
<1>3. a = t /\ read <= d /\ read \in Nat /\ read < end
  BY <1>1, MoreToCome DEF Astray
<1>4. R!IInv /\ HostOK
  BY DEF Sound
<1>0. /\ c \in Nat /\ d \in Nat /\ m \in Nat /\ read \in Nat /\ k \in 1 .. 3
      /\ d = c + m + 8 /\ c + k + 1 <= read /\ read <= d
  BY <1>1, <1>2, <1>3
<1>5. FrameAt(a)' = f
  BY <1>1 DEF FrameAt, Frame
<1>6. CASE read = d
  <2>1. a # n
    <3>1. cut[n + 1] = end
      BY DEF IsCut
    <3>2. cut[a + 1] = d /\ d # end
      BY <1>0, <1>1, <1>3, <1>6
    <3> QED BY <3>1, <3>2
  <2>2. PICK b \in 1 .. n : b = a + 1
    BY <2>1
  <2>3. PICK e, l, g :
          /\ e \in Nat /\ l \in Nat /\ d = cut[b] /\ e = cut[b + 1] /\ e = d + l + 8
          /\ g = FrameAt(b) /\ R!Shape(g, l)
    <3>1. PICK m0 \in TypeLength + 1 .. R!MaxBody :
            m0 \in Nat /\ R!Shape(FrameAt(b), m0) /\ cut[b + 1] = cut[b] + m0 + 8
      BY <2>2, FrameInStream
    <3>2. cut[b + 1] \in Nat /\ d = cut[b]
      BY <1>1, <2>2, FrameInStream
    <3> QED BY <3>1, <3>2, Zenon
  <2>4. rest[1] = R!START
    <3>1. cut[b] \in Nat /\ cut[b + 1] \in Nat /\ cut[b] <= read /\ read < cut[b + 1]
      BY <1>3, <1>6, <2>3
    <3>2. rest[1] = FrameAt(b)[(read + 1) - cut[b]]
      BY <3>1, NextByte
    <3>3. (read + 1) - cut[b] = 1
      BY <1>3, <1>6, <2>3
    <3> QED BY <2>3, <3>2, <3>3 DEF R!Shape
  <2>5. rest[1] # R!CR /\ rest[1] \in R!Byte
    BY <2>4 DEF R!START, R!CR, R!Byte
  <2>6. state' # "WAIT_START" /\ window' = <<R!START>> /\ result' # "MESSAGE_READY"
    <3>1. R!HasLen(window, k)
      BY <1>2
    <3>2. \/ rest[1] = R!START /\ state' # "WAIT_START" /\ window' = <<R!START>>
          \/ rest[1] # R!START
      BY <1>4, <2>5, <3>1, ReaderAssumptions, R!AfterStart DEF R!START, R!SEP
    <3>3. result' # "MESSAGE_READY"
      BY <1>4, <2>5, <3>1, ReaderAssumptions, R!AfterStart
    <3> QED BY <2>4, <3>2, <3>3
  <2>7. /\ cut[b] < read + 1 /\ read + 1 < cut[b + 1]
        /\ (read + 1) - cut[b] = 1
    <3>1. cut[b] = read /\ cut[b + 1] = read + l + 8
      BY <1>6, <2>3, Zenon
    <3> QED BY <1>0, <2>3, <3>1
  <2>8. R!HasRead(FrameAt(b), 1)'
    <3>1. FrameAt(b)' = g
      BY <2>3 DEF FrameAt, Frame
    <3>2. Len(window') = 1 /\ window'[1] = R!START
      BY <2>6
    <3>3. g[1] = R!START
      BY <2>3 DEF R!Shape
    <3> QED BY <3>1, <3>2, <3>3 DEF R!HasRead, R!HasLen
  <2>9. Inside(cut, n, read + 1, a + 1)'
    BY <2>2, <2>7, <2>8 DEF Inside
  <2> QED BY <2>6, <2>9 DEF Place
<1>7. CASE read < d
  <2>1. rest[1] # R!START /\ rest[1] = f[(read + 1) - c]
    <3>1. cut[a] < read /\ read < cut[a + 1]
      <4>1. c < read
        BY <1>0
      <4> QED BY <1>1, <1>7, <4>1
    <3>2. rest[1] # R!START /\ rest[1] = FrameAt(a)[(read + 1) - cut[a]]
      BY <3>1, NextIsSkipped
    <3> QED BY <1>1, <3>2
  <2>2. PICK i \in 3 .. m + 8 : i = (read + 1) - c
    BY <1>0, <1>7
  <2>3. rest[1] = f[i] /\ rest[1] # R!CR /\ rest[1] \in R!Byte
    <3>1. rest[1] \in R!Byte
      BY TailOfBytes
    <3>2. f[i] # R!CR
      <4>1. i \in 1 .. m + 8
        BY <1>0, <2>2
      <4> QED BY <1>1, <4>1 DEF R!Shape
    <3> QED BY <2>1, <2>2, <3>1, <3>2
  <2>4. /\ result' # "MESSAGE_READY"
        /\ \/ state' = "WAIT_START"
           \/ state' # "WAIT_START" /\ k <= 2 /\ window' = Append(window, rest[1])
           \/ /\ k = 3 /\ rest[1] = R!SEP /\ R!IsHex(window[2]) /\ R!IsHex(window[3])
              /\ R!HexByte(window[2], window[3]) \in TypeLength + 1 .. R!MaxBody
    BY <1>2, <1>4, <2>1, <2>3, ReaderAssumptions, R!AfterStart
  <2>5. CASE state' = "WAIT_START"
    <3>1. read + 1 = d \/ (c < read + 1 /\ read + 1 < d)
      BY <1>0, <1>7
    <3>2. a >= 1
      OBVIOUS
    <3> QED BY <1>1, <1>3, <2>4, <2>5, <3>1, <3>2 DEF Place, Skipping
  <2>6. CASE state' # "WAIT_START" /\ k <= 2 /\ window' = Append(window, rest[1])
    <3>1. PICK l \in 1 .. 3 : l = k + 1
      BY <2>6
    <3>2. /\ Len(window') = l /\ window'[l] = f[i]
          /\ \A j \in 2 .. k : window'[j] = window[j]
      <4>1. window \in Seq(R!Byte)
        BY <1>4 DEF R!IInv, R!TypeOK
      <4>2. Len(window) = k
        BY <1>2, <4>1, ReaderAssumptions, R!HasLenIsLen
      <4>3. \A j \in 2 .. k : j \in 1 .. k
        OBVIOUS
      <4> QED BY <2>3, <2>6, <3>1, <4>1, <4>2, <4>3, AppendProperties
    <3>3. R!HasLen(window', l) /\ c + l + 1 <= read + 1
      <4>1. c + l + 1 <= read + 1
        BY <1>2, <1>3, <3>1
      <4> QED BY <3>2, <4>1 DEF R!HasLen
    <3>4. ASSUME NEW j \in 2 .. l
          PROVE  window'[j] = f[(read + 1) - c - l + j]
      <4>1. CASE j = l
        <5>1. (read + 1) - c - l + l = i
          BY <1>3, <2>2
        <5> QED BY <3>2, <4>1, <5>1
      <4>2. CASE j # l
        <5>1. j \in 2 .. k /\ (read + 1) - c - l + j = read - c - k + j
          BY <1>3, <3>1, <4>2
        <5> QED BY <1>2, <3>2, <5>1
      <4> QED BY <4>1, <4>2
    <3>5. read + 1 <= d
      BY <1>3, <1>7
    <3>6. Astray(cut, read + 1, t, a)'
      <4>1. a = t /\ a >= 1 /\ read + 1 <= cut[a + 1]
        BY <1>1, <1>3, <3>5
      <4>2. /\ R!HasLen(window', l) /\ cut[a] + l + 1 <= read + 1
            /\ \A j \in 2 .. l : window'[j] = FrameAt(a)'[(read + 1) - cut[a] - l + j]
        BY <1>1, <1>5, <3>3, <3>4
      <4> QED BY <4>1, <4>2 DEF Astray, R!HasLen
    <3> QED BY <2>4, <2>6, <3>6 DEF Place
  <2>7. CASE /\ k = 3 /\ rest[1] = R!SEP /\ R!IsHex(window[2]) /\ R!IsHex(window[3])
             /\ R!HexByte(window[2], window[3]) \in TypeLength + 1 .. R!MaxBody
    <3>1. PICK h \in 3 .. (m + 8) - 2 : h = read - c - 1 /\ h + 1 = read - c /\ h + 2 = i
      BY <1>0, <1>7, <2>2, <2>7
    <3>2. window[2] = f[h] /\ window[3] = f[h + 1]
      <4>1. read - c - 3 + 2 = h /\ read - c - 3 + 3 = h + 1
        BY <1>3, <3>1
      <4> QED BY <1>2, <2>7, <4>1
    <3>3. a \in 1 .. Len(script) /\ m + 8 \in Nat
      BY FrameInStream
    <3>4. R!IsHex(FrameAt(a)[h]) /\ R!IsHex(FrameAt(a)[h + 1]) /\ FrameAt(a)[h + 2] = R!SEP
      BY <1>1, <2>3, <2>7, <3>1, <3>2
    <3>5. R!HexByte(FrameAt(a)[h], FrameAt(a)[h + 1]) \notin TypeLength + 1 .. R!MaxBody
      BY <1>1, <1>4, <3>3, <3>4, NoLengthInside
    <3> QED BY <1>1, <2>7, <3>2, <3>5
  <2> QED BY <2>4, <2>5, <2>6, <2>7
<1> QED BY <1>3, <1>6, <1>7

\* A byte of the rest of a frame that is being skipped.
LEMMA ReadsSkipped ==
  ASSUME Suited, Sound, ~listens_first, script' = script,
         NEW n \in Nat, n = asked, NEW a \in 1 .. n, NEW t, NEW rest,
         NEW cut, NEW end \in Nat, IsCut(cut, n, end),
         NEW read, Remains(cut, n, end, read, rest),
         Skipping(cut, read, t, a), R!parser_consume_byte(rest[1])
  PROVE  result' # "MESSAGE_READY" /\ Place(cut, n, read + 1, t, a)'
<1>1. PICK c \in Nat, d \in Nat : c = cut[a] /\ d = cut[a + 1]
  BY FrameInStream
<1>2. state = "WAIT_START" /\ a = t /\ a >= 1 /\ cut[a] < read /\ read < cut[a + 1]
  BY DEF Skipping
<1>3. rest[1] # R!START
  BY <1>2, NextIsSkipped
<1>4. state' = "WAIT_START" /\ result' = "IN_PROGRESS"
  BY <1>2, <1>3, ReaderAssumptions, R!Skips
<1>5. read \in Nat
  BY DEF Remains
<1>6. read + 1 = d \/ (c < read + 1 /\ read + 1 < d)
  BY <1>1, <1>2, <1>5
<1> QED BY <1>1, <1>2, <1>4, <1>6 DEF Place, Skipping

\* The byte that waited: nothing comes of it, or it is an '@' and the parser is
\* astray in the rest of the frame.
LEMMA ReadsWaited ==
  ASSUME Suited, Sound, script' = script,
         NEW n \in Nat, n = asked, NEW a \in 1 .. n, NEW t, NEW b,
         NEW cut, NEW end \in Nat, IsCut(cut, n, end), NEW read \in Nat,
         Waited(cut, read, t, a, b), R!parser_consume_byte(b)
  PROVE  result' # "MESSAGE_READY" /\ Place(cut, n, read, t, a)'
<1>1. PICK c \in Nat, d \in Nat : c = cut[a] /\ d = cut[a + 1]
  BY FrameInStream
<1>2. /\ state = "WAIT_START" /\ a = t /\ a >= 1 /\ c < read /\ read <= d
      /\ b = R!START => c + 2 <= read
  BY <1>1 DEF Waited
<1>3. CASE b # R!START
  <2>1. state' = "WAIT_START" /\ result' = "IN_PROGRESS"
    BY <1>2, <1>3, ReaderAssumptions, R!Skips
  <2>2. read = d \/ read < d
    BY <1>2
  <2> QED BY <1>1, <1>2, <2>1, <2>2 DEF Place, Skipping
<1>4. CASE b = R!START
  <2>1. state' # "WAIT_START" /\ window' = <<R!START>> /\ result' = "IN_PROGRESS"
    BY <1>2, <1>4, ReaderAssumptions, R!FrameStarts
  <2>2. Len(window') = 1
    BY <2>1
  <2>3. 1 \in 1 .. 3 /\ c + 1 + 1 <= read /\ \A j \in 2 .. 1 : FALSE
    BY <1>2, <1>4
  <2>4. Astray(cut, read, t, a)'
    BY <1>1, <1>2, <2>2, <2>3 DEF Astray, R!HasLen
  <2> QED BY <2>1, <2>4 DEF Place
<1> QED BY <1>3, <1>4

\* The byte the parser reads is the first of the line.
LEMMA ReadsTheLine ==
  ASSUME Sound, Served, task_parser
  PROVE  /\ inflight # << >> /\ late = << >> /\ Line # << >>
         /\ Line' = Tail(Line) /\ R!parser_consume_byte(Line[1])
         /\ script' = script /\ asked' = asked /\ outgoing' = outgoing /\ touched' = touched
         /\ listens_first' = listens_first /\ late' = << >> /\ running /\ running'
<1>1. /\ script' = script /\ asked' = asked /\ outgoing' = outgoing /\ touched' = touched
      /\ listens_first' = listens_first /\ late' = late
      /\ inflight' = Tail(inflight) /\ g_parser_input_queue > 0
      /\ P!parser_consume_byte(Head(inflight)) /\ ParserReceive
  BY DEF task_parser, ParserReceive, receiver, host, kind
<1>2. running /\ running'
  <2>1. TypeOK
    BY DEF Sound
  <2> QED BY <2>1, ParserCounts
<1>3. inflight # << >>
  <2>1. Len(inflight) = g_uart_rx_isr_queue + rx_byte + g_parser_input_queue
    BY DEF Sound, HostOK
  <2>2. Len(inflight) > 0
    BY <1>1, <2>1, StreamFacts
  <2> QED BY <2>2, EmptySeq
<1>4. late = << >>
  BY <1>3, Zenon DEF Served, Untouched
<1>5. PICK rest \in Seq(R!Byte) : rest = late \o outgoing /\ rest = late' \o outgoing'
  BY <1>1, StreamFacts
<1>6. inflight \o rest # << >> /\ Tail(inflight \o rest) = Tail(inflight) \o rest
      /\ Head(inflight \o rest) = Head(inflight)
  BY <1>3, StreamFacts, TailOfConcat
<1>7. Line = inflight \o rest /\ Line' = Tail(inflight) \o rest
  BY <1>1, <1>5 DEF Line
<1>8. Line # << >> /\ Line' = Tail(Line) /\ Head(inflight) = Head(Line)
  BY <1>6, <1>7
<1>9. Head(Line) = Line[1]
  BY <1>8, StreamFacts, TailOfBytes
<1>10. R!parser_consume_byte(Line[1])
  BY <1>1, <1>8, <1>9, SameConsume
<1> QED BY <1>1, <1>2, <1>3, <1>4, <1>8, <1>10

\* The parser reads the byte that is next in the stream or has waited.
LEMMA ReaderServes ==
  ASSUME Suited, Sound, Served, task_parser
  PROVE  Served'
<1>1. PICK n \in Nat, a \in Nat, t \in Nat, l \in Nat :
        n = asked /\ t = touched /\ l = Len(accepted) /\ a = Done /\ a = t + l
  BY StreamFacts DEF Done
<1>2. a <= n
  BY <1>1 DEF Served
<1>3. PICK cut, end, sent, read :
        /\ IsCut(cut, n, end) /\ Remains(cut, n, end, sent, outgoing)
        /\ Reaches(cut, n, end, read, Line, t, a)
  BY <1>1, Zenon DEF Served, InPlace
<1>4. end \in Nat
  BY <1>3 DEF IsCut
<1>5. /\ script' = script /\ asked' = n /\ outgoing' = outgoing /\ touched' = t
      /\ listens_first' = listens_first /\ Line' = Tail(Line)
      /\ late' = << >> /\ running'
  BY <1>1, ReadsTheLine
<1>6. PICK line \in Seq(R!Byte) : /\ line = Line /\ line # << >> /\ Line' = Tail(line)
                                  /\ R!parser_consume_byte(line[1])
  BY <1>5, ReadsTheLine, StreamFacts
<1>7. AtTheLast(cut, n, sent)'
  BY <1>5 DEF AtTheLast
<1>8. TypeOK /\ count'.qd = 0
  <2>1. TypeOK
    BY DEF Sound
  <2>2. count'.qd = count.qd
    BY <2>1, ParserCounts
  <2> QED BY <2>1, <2>2 DEF Served
<1>9. ASSUME NEW b, Done' = b, NEW r, Remains(cut, n, end, r, Tail(line)),
             Place(cut, n, r, t, b)'
      PROVE  InPlace'
  <2>1. PICK rest : rest = Tail(line) /\ Line' = rest
    BY <1>6
  <2>2. PICK o : o = outgoing /\ outgoing' = o
    BY <1>5
  <2>3. Remains(cut, n, end, r, rest) /\ Remains(cut, n, end, sent, o)
    BY <1>3, <1>9, <2>1, <2>2
  <2>4. Reaches(cut, n, end, r, rest, t, b)'
    BY <1>5, <1>9, <2>3, WholeAgain
  <2> QED BY <1>3, <1>5, <1>7, <1>9, <2>1, <2>2, <2>3, <2>4, InPlaceAgain
<1>10. ASSUME result' # "MESSAGE_READY", ~listens_first,
              NEW r, Remains(cut, n, end, r, Tail(line)), Place(cut, n, r, t, a)'
       PROVE  Served'
  <2>1. accepted' = accepted
    BY <1>8, <1>10, ParserCounts
  <2>2. Done' = a
    BY <1>1, <1>5, <2>1 DEF Done
  <2>3. InPlace'
    BY <1>9, <1>10, <2>2
  <2>4. \A i \in 1 .. Len(accepted') : accepted'[i] = script'[touched' + i]
    BY <1>1, <1>5, <2>1 DEF Served
  <2> QED BY <1>2, <1>5, <1>8, <1>10, <2>2, <2>3, <2>4 DEF Served
<1>11. ASSUME a = t, a >= 1
       PROVE  ~listens_first /\ a \in 1 .. n
  BY <1>1, <1>2, <1>11 DEF Served
<1>12. CASE Waited(cut, read, t, a, line[1]) /\ Remains(cut, n, end, read, Tail(line))
  <2>1. ~listens_first /\ a \in 1 .. n
    BY <1>11, <1>12 DEF Waited
  <2>2. read \in Nat
    BY <1>12 DEF Remains
  <2>3. PICK b : b = line[1]
    OBVIOUS
  <2>4. result' # "MESSAGE_READY" /\ Place(cut, n, read, t, a)'
    BY <1>1, <1>3, <1>4, <1>5, <1>6, <1>12, <2>1, <2>2, <2>3, ReadsWaited
  <2> QED BY <1>10, <1>12, <2>1, <2>4
<1>13. ASSUME Remains(cut, n, end, read, line)
       PROVE  Remains(cut, n, end, read + 1, Tail(line))
  <2>1. IsCut(cut, n, end) /\ line \in Seq(R!Byte) /\ line # << >>
    BY <1>3, <1>6
  <2> QED BY <1>4, <1>13, <2>1, RemainsShrink
<1>14. CASE /\ Remains(cut, n, end, read, line)
            /\ state = "WAIT_START" /\ Skipping(cut, read, t, a)
  <2>1. ~listens_first /\ a \in 1 .. n
    BY <1>11, <1>14 DEF Skipping
  <2>2. result' # "MESSAGE_READY" /\ Place(cut, n, read + 1, t, a)'
    BY <1>1, <1>3, <1>4, <1>5, <1>6, <1>14, <2>1, ReadsSkipped
  <2> QED BY <1>10, <1>13, <1>14, <2>1, <2>2
<1>15. CASE /\ Remains(cut, n, end, read, line)
            /\ state # "WAIT_START" /\ Astray(cut, read, t, a)
  <2>1. ~listens_first /\ a \in 1 .. n
    BY <1>11, <1>15 DEF Astray
  <2>2. result' # "MESSAGE_READY" /\ Place(cut, n, read + 1, t, a)'
    BY <1>1, <1>3, <1>4, <1>5, <1>6, <1>15, <2>1, ReadsAstray
  <2> QED BY <1>10, <1>13, <1>15, <2>1, <2>2
<1>16. CASE /\ Remains(cut, n, end, read, line)
            /\ state = "WAIT_START" => read = cut[a + 1]
            /\ state # "WAIT_START" => Inside(cut, n, read, a + 1)
  <2>1. a + 1 <= n /\ InFrame(cut, a, read, line)
    BY <1>1, <1>2, <1>3, <1>4, <1>6, <1>16, NextOfFrame
  <2>2. PICK k \in 1 .. n : k = a + 1
    BY <2>1
  <2>0. PICK m \in TypeLength + 1 .. R!MaxBody : \E p \in 0 .. m + 7 :
           /\ R!Shape(FrameAt(k), m)
           /\ read = cut[k] + p /\ cut[a + 2] = cut[k] + m + 8
           /\ line[1] = FrameAt(k)[p + 1]
           /\ state = "WAIT_START" <=> p = 0
           /\ state # "WAIT_START" => R!HasRead(FrameAt(k), p)
    BY <2>1, <2>2, Zenon DEF InFrame
  <2>3. PICK p \in 0 .. m + 7 :
           /\ R!Shape(FrameAt(k), m)
           /\ read = cut[k] + p /\ cut[a + 2] = cut[k] + m + 8
           /\ line[1] = FrameAt(k)[p + 1]
           /\ state = "WAIT_START" <=> p = 0
           /\ state # "WAIT_START" => R!HasRead(FrameAt(k), p)
    BY <2>0
  <2>4. k \in 1 .. Len(script)
    BY <1>1, <2>2, ScriptOK DEF Sound
  <2>5. \/ /\ p # m + 7 /\ state' # "WAIT_START" /\ R!HasRead(FrameAt(k), p + 1)'
           /\ accepted' = accepted /\ count'.pe = count.pe
        \/ /\ p = m + 7 /\ state' = "WAIT_START"
           /\ accepted' = Append(accepted, script[k]) /\ count'.pe = count.pe
    BY <1>5, <1>6, <2>3, <2>4, ReadsTheFrame
  <2>6. PICK c \in Nat : c = cut[k]
    BY <1>1, <1>3, FrameInStream
  <2>7. m \in Nat /\ read = c + p /\ cut[a + 2] = c + m + 8 /\ cut[a + 1] = c
    BY <2>2, <2>3, <2>6, ReaderAssumptions, R!Widths
  <2>8. listens_first => count'.pe = 0
    BY <2>5 DEF Served
  <2>9. CASE p # m + 7 /\ state' # "WAIT_START" /\ R!HasRead(FrameAt(k), p + 1)'
             /\ accepted' = accepted
    <3>1. Done' = a
      BY <1>1, <1>5, <2>9 DEF Done
    <3>2. cut[k] < read + 1 /\ read + 1 < cut[k + 1] /\ (read + 1) - cut[k] = p + 1
      <4>1. c < (c + p) + 1 /\ (c + p) + 1 < c + m + 8 /\ ((c + p) + 1) - c = p + 1
        BY <2>7, <2>9
      <4>2. cut[k + 1] = c + m + 8
        BY <2>2, <2>7
      <4> QED BY <2>6, <2>7, <4>1, <4>2
    <3>3. Inside(cut, n, read + 1, k)'
      BY <2>2, <2>9, <3>2 DEF Inside
    <3>4. Place(cut, n, read + 1, t, a)'
      BY <2>2, <2>9, <3>3 DEF Place
    <3>5. InPlace'
      BY <1>9, <1>13, <1>16, <3>1, <3>4
    <3>6. \A i \in 1 .. Len(accepted') : accepted'[i] = script'[touched' + i]
      BY <1>1, <1>5, <2>9 DEF Served
    <3> QED BY <1>1, <1>2, <1>5, <1>8, <2>8, <3>1, <3>5, <3>6 DEF Served
  <2>10. CASE p = m + 7 /\ state' = "WAIT_START" /\ accepted' = Append(accepted, script[k])
    <3>1. /\ Len(accepted') = l + 1 /\ accepted'[l + 1] = script[k]
          /\ \A i \in 1 .. l : accepted'[i] = accepted[i]
      <4>1. accepted \in Seq(Request) /\ script[k] \in Request
        BY <2>4, StreamFacts, FrameOfScript DEF Sound
      <4> QED BY <1>1, <2>10, <4>1, AppendProperties
    <3>2. read + 1 = cut[(a + 1) + 1]
      <4>1. (a + 1) + 1 = a + 2 /\ read + 1 = c + m + 8
        BY <2>7, <2>10
      <4> QED BY <2>7, <4>1
    <3>3. Place(cut, n, read + 1, t, a + 1)'
      BY <2>10, <3>2 DEF Place
    <3>4. Done' = a + 1
      <4>1. Done' = t + (l + 1)
        BY <1>5, <3>1 DEF Done
      <4> QED BY <1>1, <4>1
    <3>5. InPlace'
      BY <1>9, <1>13, <1>16, <3>3, <3>4
    <3>6. \A i \in 1 .. l : accepted[i] = script[t + i]
      BY <1>1 DEF Served
    <3>7. t + (l + 1) = k
      BY <1>1, <2>2
    <3>8. \A i \in 1 .. l + 1 : accepted'[i] = script[t + i]
      <4>1. \A i \in 1 .. l + 1 : i \in 1 .. l \/ i = l + 1
        OBVIOUS
      <4> QED BY <3>1, <3>6, <3>7, <4>1
    <3>9. \A i \in 1 .. Len(accepted') : accepted'[i] = script'[touched' + i]
      BY <1>5, <3>1, <3>8
    <3> QED BY <1>1, <1>5, <1>8, <2>1, <2>8, <3>4, <3>5, <3>9 DEF Served
  <2> QED BY <2>5, <2>9, <2>10
<1>17. \/ Waited(cut, read, t, a, line[1]) /\ Remains(cut, n, end, read, Tail(line))
       \/ Remains(cut, n, end, read, line) /\ Place(cut, n, read, t, a)
  BY <1>3, <1>6, Zenon DEF Reaches
<1> QED BY <1>12, <1>14, <1>15, <1>16, <1>17, Zenon DEF Place

\* The parser stands where it stood, whatever has been written since.
LEMMA SamePlace ==
  ASSUME script' = script, state' = state, window' = window,
         NEW n \in Nat, NEW l \in Nat, n <= l, NEW a \in Nat, a <= n,
         NEW cut, NEW c, \A k \in 1 .. n + 1 : c[k] = cut[k], NEW read, NEW t, NEW b
  PROVE  /\ Place(cut, n, read, t, a) => Place(c, l, read, t, a)'
         /\ Waited(cut, read, t, a, b) => Waited(c, read, t, a, b)'
<1>1. a + 1 \in 1 .. n + 1 /\ (a >= 1 => a \in 1 .. n + 1)
  OBVIOUS
<1>2. c[a + 1] = cut[a + 1] /\ (a >= 1 => c[a] = cut[a])
  BY <1>1
<1>3. \A k : FrameAt(k)' = FrameAt(k)
  BY DEF FrameAt, Frame
<1>4. Waited(cut, read, t, a, b) => Waited(c, read, t, a, b)'
  BY <1>2 DEF Waited
<1>5. Skipping(cut, read, t, a) => Skipping(c, read, t, a)'
  BY <1>2 DEF Skipping
<1>6. Astray(cut, read, t, a) => Astray(c, read, t, a)'
  <2> SUFFICES ASSUME Astray(cut, read, t, a) PROVE Astray(c, read, t, a)'
    OBVIOUS
  <2>1. a >= 1 /\ FrameAt(a)' = FrameAt(a)
    BY <1>3 DEF Astray
  <2> QED BY <1>2, <2>1 DEF Astray, R!HasLen
<1>7. Inside(cut, n, read, a + 1) => Inside(c, l, read, a + 1)'
  <2> SUFFICES ASSUME Inside(cut, n, read, a + 1) PROVE Inside(c, l, read, a + 1)'
    OBVIOUS
  <2>1. a + 1 <= n
    BY DEF Inside
  <2>2. (a + 1) + 1 \in 1 .. n + 1 /\ a + 1 <= l
    BY <2>1
  <2>3. c[(a + 1) + 1] = cut[(a + 1) + 1] /\ FrameAt(a + 1)' = FrameAt(a + 1)
    BY <1>3, <2>2
  <2> QED BY <1>2, <2>2, <2>3 DEF Inside, R!HasRead, R!HasLen
<1>8. Place(cut, n, read, t, a) => Place(c, l, read, t, a)'
  BY <1>2, <1>5, <1>6, <1>7 DEF Place
<1> QED BY <1>4, <1>8

\* The stream reaches the parser as it did, if it and the parser are the same.
LEMMA SameReach ==
  ASSUME script' = script, state' = state, window' = window,
         NEW n \in Nat, NEW a \in Nat, a <= n, NEW cut, NEW end, NEW read, NEW t, NEW line,
         Reaches(cut, n, end, read, line, t, a)
  PROVE  Reaches(cut, n, end, read, line, t, a)'
<1>0. n <= n /\ \A k \in 1 .. n + 1 : cut[k] = cut[k]
  OBVIOUS
<1>1. CASE Remains(cut, n, end, read, line) /\ Place(cut, n, read, t, a)
  <2>1. Place(cut, n, read, t, a)'
    BY <1>0, <1>1, SamePlace, Zenon
  <2> QED BY <1>1, <2>1, WholeAgain
<1>2. CASE /\ line # << >> /\ Remains(cut, n, end, read, Tail(line))
           /\ Waited(cut, read, t, a, line[1])
  <2>1. PICK b : b = line[1]
    OBVIOUS
  <2>2. Waited(cut, read, t, a, b)'
    BY <1>0, <1>2, <2>1, SamePlace, Zenon
  <2>3. Waited(cut, read, t, a, line[1])'
    BY <2>1, <2>2 DEF Waited
  <2> QED BY <1>2, <2>3, WaitedAgain
<1> QED BY <1>1, <1>2 DEF Reaches

\* A frame is written: it follows what is on the line.
LEMMA WriteServes ==
  ASSUME Suited, Sound, Served, Write
  PROVE  Served'
<1>1. PICK n \in Nat, a \in Nat, t \in Nat : n = asked /\ a = Done /\ t = touched
  BY StreamFacts
<1>2. a <= n
  BY <1>1 DEF Served
<1>3. PICK cut, end, sent, read :
        /\ IsCut(cut, n, end) /\ Remains(cut, n, end, sent, outgoing)
        /\ Reaches(cut, n, end, read, Line, t, a)
  BY <1>1, Zenon DEF Served, InPlace
<1>4. end \in Nat
  BY <1>3 DEF IsCut
<1>5. /\ script' = script /\ asked' = n + 1 /\ outgoing' = Frame(script[n + 1])
      /\ inflight' = inflight /\ outgoing = << >> /\ asked < Len(script)
      /\ listens_first' = listens_first /\ touched' = touched /\ late' = late
      /\ (listens_first => running) /\ running' = running /\ count' = count
      /\ accepted' = accepted /\ state' = state /\ window' = window
  BY <1>1 DEF Write, kind, receiver, vars, parser_t, upstream, reception, parsing
<1>6. n + 1 \in 1 .. Len(script)
  BY <1>1, <1>5, ScriptOK DEF Sound
<1>7. PICK f \in Seq(R!Byte) : f = FrameAt(n + 1)
  BY <1>6, FrameOfScript DEF Sound
<1>8. PICK line \in Seq(R!Byte) : line = Line /\ line = inflight \o late /\ Line' = line \o f
  <2>1. Line = inflight \o late /\ late \o << >> = late
    BY <1>5, LineWithout
  <2>2. outgoing' = f
    BY <1>5, <1>7 DEF FrameAt
  <2>3. Line' = inflight \o (late \o f)
    BY <1>5, <2>2, Zenon DEF Line
  <2>4. inflight \o (late \o f) = (inflight \o late) \o f
    <3>1. inflight \in Seq(R!Byte) /\ late \in Seq(R!Byte) /\ f \in Seq(R!Byte)
      BY <1>7, StreamFacts
    <3>2. ASSUME NEW u \in Seq(R!Byte), NEW v \in Seq(R!Byte), NEW w \in Seq(R!Byte)
          PROVE  u \o (v \o w) = (u \o v) \o w
      BY ConcatAssociative
    <3> QED BY <3>1, <3>2, Zenon
  <2> QED BY <2>1, <2>3, <2>4, StreamFacts
<1>9. PICK c, e :
        /\ IsCut(c, n + 1, e) /\ \A k \in 1 .. n + 1 : c[k] = cut[k]
        /\ \A r : \A rest \in Seq(R!Byte) :
             Remains(cut, n, end, r, rest) => Remains(c, n + 1, e, r, rest \o f)
  BY <1>3, <1>4, <1>7, CutGrows
<1>10. Remains(c, n + 1, e, sent, f) /\ sent = end /\ outgoing' = f
  <2>1. << >> \in Seq(R!Byte) /\ << >> \o f = f
    BY ConcatEmptySeq
  <2>2. Remains(cut, n, end, sent, << >>)
    BY <1>3, <1>5
  <2>3. Remains(c, n + 1, e, sent, << >> \o f)
    BY <1>9, <2>1, <2>2
  <2>4. sent = end
    BY <1>4, <2>1, <2>2, MoreToCome
  <2>5. outgoing' = f
    BY <1>5, <1>7 DEF FrameAt
  <2> QED BY <2>1, <2>3, <2>4, <2>5
<1>11. AtTheLast(c, n + 1, sent)'
  <2>1. c[n + 1] = cut[n + 1] /\ cut[n + 1] = end
    BY <1>3, <1>9 DEF IsCut
  <2>2. end <= end
    BY <1>4
  <2> QED BY <1>10, <2>1, <2>2 DEF AtTheLast
<1>12. PICK grown : grown = line \o f /\ Line' = grown
  BY <1>8
<1>0. n + 1 \in Nat /\ n <= n + 1
  OBVIOUS
<1>13. ASSUME Remains(cut, n, end, read, line), Place(cut, n, read, t, a)
       PROVE  Reaches(c, n + 1, e, read, grown, t, a)'
  <2>1. Remains(c, n + 1, e, read, grown)
    BY <1>9, <1>12, <1>13
  <2>2. Place(c, n + 1, read, t, a)'
    BY <1>0, <1>2, <1>5, <1>9, <1>13, SamePlace, Zenon
  <2> QED BY <1>5, <2>1, <2>2, WholeAgain
<1>14. ASSUME line # << >>, Remains(cut, n, end, read, Tail(line)),
              Waited(cut, read, t, a, line[1])
       PROVE  Reaches(c, n + 1, e, read, grown, t, a)'
  <2>1. /\ grown # << >> /\ Tail(grown) = Tail(line) \o f
        /\ Head(grown) = Head(line) /\ grown \in Seq(R!Byte)
    <3>1. line \o f \in Seq(R!Byte)
      BY ConcatProperties
    <3>2. line \o f # << >> /\ Tail(line \o f) = Tail(line) \o f /\ Head(line \o f) = Head(line)
      BY <1>14, TailOfConcat
    <3> QED BY <1>12, <3>1, <3>2
  <2>2. grown[1] = line[1] /\ Tail(line) \in Seq(R!Byte)
    BY <1>14, <2>1, TailOfBytes
  <2>3. Remains(c, n + 1, e, read, Tail(grown))
    BY <1>9, <1>14, <2>1, <2>2
  <2>4. PICK b : b = line[1]
    OBVIOUS
  <2>5. Waited(c, read, t, a, b)'
    BY <1>0, <1>2, <1>5, <1>9, <1>14, <2>4, SamePlace, Zenon
  <2>6. Waited(c, read, t, a, grown[1])'
    BY <2>2, <2>4, <2>5 DEF Waited
  <2> QED BY <1>5, <2>1, <2>3, <2>6, WaitedAgain
<1>15. PICK r : Reaches(c, n + 1, e, r, grown, t, a)'
  <2>1. \/ Remains(cut, n, end, read, line) /\ Place(cut, n, read, t, a)
        \/ /\ line # << >> /\ Remains(cut, n, end, read, Tail(line))
           /\ Waited(cut, read, t, a, line[1])
    BY <1>3, <1>8, Zenon DEF Reaches
  <2> QED BY <1>13, <1>14, <2>1, Zenon
<1>16. Done' = a /\ touched' = t /\ a <= n + 1 /\ n + 1 # 0
  BY <1>1, <1>2, <1>5 DEF Done
<1>17. InPlace'
  <2>1. PICK l : l = n + 1
    OBVIOUS
  <2> QED BY <1>5, <1>9, <1>10, <1>11, <1>12, <1>15, <1>16, <2>1, InPlaceAgain
<1>18. \A k \in 1 .. Len(accepted') : accepted'[k] = script'[touched' + k]
  BY <1>5 DEF Served
<1>19. ~running' \/ late' # << >> => Untouched'
  BY <1>5, Zenon DEF Served, Untouched
<1>20. /\ count'.qd = 0
       /\ listens_first' => /\ touched' = 0 /\ count'.pe = 0 /\ late' = << >>
                            /\ asked' > 0 => running'
  BY <1>5 DEF Served
<1> QED BY <1>5, <1>16, <1>17, <1>18, <1>19, <1>20 DEF Served

\* No byte finds the queue of the interrupt full: by then every request of the
\* script would have been delivered, and no byte would be left.
LEMMA NoByteIsDropped ==
  ASSUME FastReception, Suited, Sound, Served, ByteArrives, running
  PROVE  g_uart_rx_isr_queue # UartRxIsrQueueLength
<1>1. PICK n \in Nat, a \in Nat, t \in Nat, d \in Nat :
        n = asked /\ d = Len(accepted) /\ t = touched /\ a = Done /\ a = t + d
  BY StreamFacts DEF Done
<1>2. outgoing # << >> /\ usart1_isr
  BY DEF ByteArrives
<1> SUFFICES ASSUME g_uart_rx_isr_queue = UartRxIsrQueueLength PROVE FALSE
  OBVIOUS
<1>3. parsed # << >> /\ Len(g_app_queue) = AppMessageQueueLength
  BY <1>2, FullChain, TypeMeansStores DEF Sound
<1>4. /\ parsed \in Seq(Request) /\ g_app_queue \in Seq(Request)
      /\ accepted \in Seq(Request) /\ count.rx \in Nat
  BY Names DEF Sound, TypeOK, CountersOK, ParsingOK, AppQueueOK
<1>5. PICK q \in Nat, l \in Nat, r \in Nat :
        q = AppMessageQueueLength /\ l = Len(parsed) /\ l >= 1 /\ r = count.rx
  <2>1. Len(parsed) \in Nat /\ Len(parsed) # 0
    BY <1>3, <1>4, LenProperties, EmptySeq
  <2>2. Len(parsed) >= 1
    BY <2>1
  <2>3. AppMessageQueueLength \in Nat /\ count.rx \in Nat
    BY <1>4, Lengths
  <2> QED BY <2>1, <2>2, <2>3
<1>6. Len(g_app_queue \o parsed) = q + l
  BY <1>3, <1>4, <1>5, ConcatProperties
<1>7. /\ r <= d
      /\ SubSeq(accepted, r + 1, d) = g_app_queue \o parsed
  BY <1>1, <1>5 DEF Sound, OrderKept, MessagesKeepTheirOrder
<1>8. Len(SubSeq(accepted, r + 1, d)) = d - r
  BY <1>1, <1>4, <1>7, Rest
<1>9. d >= q + 1
  <2>1. d - r = q + l
    BY <1>6, <1>7, <1>8
  <2> QED BY <1>5, <2>1
<1>10. n <= q + 1
  <2>1. PICK s \in Nat : s = Len(script) /\ n <= s
    BY <1>1, ScriptOK DEF Sound
  <2>2. s <= q + 1
    BY <1>5, <2>1 DEF Suited, Fits
  <2> QED BY <2>1, <2>2
<1>11. PICK cut, end, read :
         IsCut(cut, n, end) /\ Reaches(cut, n, end, read, Line, t, a)
  BY <1>1, Zenon DEF Served, InPlace
<1>12. end \in Nat
  BY <1>11 DEF IsCut
<1>13. PICK line \in Seq(R!Byte) : line = Line /\ line # << >>
  <2>1. inflight \in Seq(R!Byte) /\ outgoing \in Seq(R!Byte)
    BY StreamFacts
  <2>2. Len(outgoing) \in Nat /\ Len(outgoing) >= 1 /\ Len(inflight) \in Nat
    BY <1>2, <2>1, EmptySeq, LenProperties
  <2>3. Line = inflight \o outgoing
    BY LineWithout DEF ByteArrives
  <2>4. Len(Line) = Len(inflight) + Len(outgoing)
    BY <2>1, <2>3, ConcatProperties
  <2>5. Len(Line) # 0
    BY <2>2, <2>4
  <2> QED BY <2>5, StreamFacts, EmptySeq
<1>14. a <= n
  BY <1>1 DEF Served
<1>15. a # t
  BY <1>1, <1>5, <1>9
<1>16. Remains(cut, n, end, read, line) /\ Place(cut, n, read, t, a)
  BY <1>11, <1>13, <1>15, Zenon DEF Reaches, Waited
<1>17. /\ state = "WAIT_START" => read = cut[a + 1]
       /\ state # "WAIT_START" => Inside(cut, n, read, a + 1)
  BY <1>15, <1>16 DEF Place, Skipping, Astray
<1>18. a + 1 <= n
  BY <1>1, <1>11, <1>12, <1>13, <1>14, <1>16, <1>17, NextOfFrame
<1> QED BY <1>1, <1>5, <1>9, <1>10, <1>18

\* Moving a byte from one end of a sequence to the other end of the one before.
LEMMA HandedOver ==
  ASSUME NEW s \in Seq(R!Byte), NEW t \in Seq(R!Byte), t # << >>
  PROVE  Append(s, Head(t)) \o Tail(t) = s \o t
<1>1. PICK h \in R!Byte, u \in Seq(R!Byte) : h = Head(t) /\ u = Tail(t)
  BY TailOfBytes
<1>2. <<h>> \o u = t
  BY <1>1, HeadAndTail
<1>3. Append(s, h) = s \o <<h>>
  BY AppendIsConcat
<1>4. (s \o <<h>>) \o u = s \o (<<h>> \o u)
  <2>1. <<h>> \in Seq(R!Byte)
    OBVIOUS
  <2> QED BY <2>1, ConcatAssociative
<1> QED BY <1>1, <1>2, <1>3, <1>4, Zenon

\* The invariant when only bytes of the host move: a of its requests are lost or
\* delivered, and the line reaches the parser as it says.
LEMMA ServedAgain ==
  ASSUME Sound, Served, script' = script, asked' = asked, listens_first' = listens_first,
         accepted' = accepted, count'.qd = count.qd, count'.pe = count.pe,
         NEW t \in Nat, touched' = t, t + Len(accepted) <= asked,
         listens_first => t = 0 /\ late' = << >> /\ (asked > 0 => running'),
         ~running' \/ late' # << >> => Untouched',
         accepted # << >> => t = touched,
         InPlace'
  PROVE  Served'
<1>1. Done' <= asked'
  BY DEF Done
<1>2. \A k \in 1 .. Len(accepted') : accepted'[k] = script'[touched' + k]
  <2>1. CASE accepted = << >>
    <3>1. Len(accepted') = 0
      BY <2>1, EmptySeq
    <3> QED BY <3>1
  <2>2. CASE accepted # << >>
    BY <2>2 DEF Served
  <2> QED BY <2>1, <2>2
<1>3. /\ count'.qd = 0
      /\ listens_first' => /\ touched' = 0 /\ count'.pe = 0 /\ late' = << >>
                           /\ asked' > 0 => running'
  BY DEF Served
<1> QED BY <1>1, <1>2, <1>3 DEF Served

\* The line is what it was, but may have come nearer to the parser.
LEMMA PlaceKept ==
  ASSUME Sound, Served, script' = script, state' = state, window' = window,
         asked' = asked, accepted' = accepted, touched' = touched, Line' = Line,
         outgoing' = outgoing \/ (outgoing # << >> /\ outgoing' = Tail(outgoing)),
         ~running' \/ late' # << >> => ~running \/ late # << >>
  PROVE  InPlace'
<1>1. PICK n \in Nat, a \in Nat, t \in Nat :
        n = asked /\ a = Done /\ t = touched /\ a <= n
  BY StreamFacts DEF Served
<1>2. PICK cut, end, sent, read :
        /\ IsCut(cut, n, end) /\ Remains(cut, n, end, sent, outgoing)
        /\ AtTheLast(cut, n, sent) /\ Reaches(cut, n, end, read, Line, t, a)
  BY <1>1, Zenon DEF Served, InPlace
<1>3. PICK line : line = Line /\ Line' = line
  OBVIOUS
<1>4. Reaches(cut, n, end, read, line, t, a)'
  BY <1>1, <1>2, <1>3, SameReach
<1>5. asked' = n /\ touched' = t /\ Done' = a
  BY <1>1 DEF Done
<1>6. CASE outgoing' = outgoing
  <2>1. AtTheLast(cut, n, sent)'
    BY <1>2 DEF AtTheLast
  <2>2. PICK o : o = outgoing /\ outgoing' = o
    BY <1>6
  <2> QED BY <1>2, <1>3, <1>4, <1>5, <2>1, <2>2, InPlaceAgain
<1>7. CASE outgoing # << >> /\ outgoing' = Tail(outgoing)
  <2>1. PICK o \in Seq(R!Byte) : o = outgoing /\ o # << >> /\ outgoing' = Tail(o)
    BY <1>7, StreamFacts
  <2>2. Remains(cut, n, end, sent, o) /\ IsCut(cut, n, end) /\ end \in Nat
    BY <1>2, <2>1 DEF IsCut
  <2>3. Remains(cut, n, end, sent + 1, Tail(o))
    BY <2>1, <2>2, RemainsShrink
  <2>4. AtTheLast(cut, n, sent + 1)'
    <3>1. n >= 1 => cut[n] \in Nat
      <4>1. n \in 1 .. n + 1 \/ n = 0
        OBVIOUS
      <4> QED BY <2>2, <4>1 DEF IsCut
    <3>2. sent \in Nat
      BY <2>2 DEF Remains
    <3>3. (~running \/ late # << >>) /\ n >= 1 => cut[n] <= sent
      BY <1>2 DEF AtTheLast
    <3>4. (~running' \/ late' # << >>) /\ n >= 1 => cut[n] <= sent + 1
      <4> SUFFICES ASSUME ~running' \/ late' # << >>, n >= 1 PROVE cut[n] <= sent + 1
        OBVIOUS
      <4>1. cut[n] <= sent
        BY <3>3, Zenon
      <4> QED BY <3>1, <3>2, <4>1
    <3> QED BY <3>4, Zenon DEF AtTheLast
  <2>5. PICK rest, s : rest = Tail(o) /\ s = sent + 1 /\ outgoing' = rest
    BY <2>1
  <2>6. Remains(cut, n, end, s, rest) /\ AtTheLast(cut, n, s)'
    BY <2>3, <2>4, <2>5 DEF AtTheLast
  <2> QED BY <1>2, <1>3, <1>4, <1>5, <2>5, <2>6, InPlaceAgain
<1> QED BY <1>6, <1>7

\* The board is up, and the byte is queued.
LEMMA ArrivalServes ==
  ASSUME FastReception, Suited, Sound, Served, ByteArrives, running
  PROVE  Served'
<1>1. /\ usart1_isr /\ outgoing # << >> /\ outgoing' = Tail(outgoing)
      /\ script' = script /\ asked' = asked /\ state' = state /\ window' = window
      /\ listens_first' = listens_first /\ late = << >> /\ late' = << >>
      /\ inflight' = IF g_uart_rx_isr_queue' > g_uart_rx_isr_queue
                     THEN Append(inflight, Head(outgoing)) ELSE inflight
      /\ touched' = IF early' > early THEN asked ELSE touched
  BY DEF ByteArrives, receiver, kind, parser_t
<1>2. g_uart_rx_isr_queue # UartRxIsrQueueLength
  BY NoByteIsDropped
<1>3. /\ g_uart_rx_isr_queue' = g_uart_rx_isr_queue + 1
      /\ count' = [count EXCEPT !["irq"] = @ + 1]
      /\ running' = running /\ accepted' = accepted /\ early' = early
  BY <1>1, <1>2, AtTheInterrupt, Zenon
<1>4. count'.qd = count.qd /\ count'.pe = count.pe
  <2>1. count \in [Counter -> Nat]
    BY DEF Sound, TypeOK, CountersOK
  <2> QED BY <1>3, <2>1, Names
<1>5. inflight' = Append(inflight, Head(outgoing)) /\ touched' = touched
  <2>1. g_uart_rx_isr_queue' > g_uart_rx_isr_queue /\ ~(early' > early)
    BY <1>3, StreamFacts
  <2> QED BY <1>1, <2>1, Zenon
<1>6. Line' = Line
  <2>1. Append(inflight, Head(outgoing)) \o Tail(outgoing) = inflight \o outgoing
    BY <1>1, StreamFacts, HandedOver
  <2>2. Line' = inflight' \o (<< >> \o outgoing')
    BY <1>1 DEF Line
  <2>3. << >> \o Tail(outgoing) = Tail(outgoing)
    BY <1>1, StreamFacts, TailOfBytes, ConcatEmptySeq
  <2>4. Line = inflight \o outgoing
    BY <1>1, LineWithout
  <2> QED BY <1>1, <1>5, <2>1, <2>2, <2>3, <2>4, Zenon
<1>7. running'
  BY <1>3
<1>8. InPlace'
  BY <1>1, <1>3, <1>5, <1>6, <1>7, PlaceKept
<1>9. touched \in Nat /\ touched + Len(accepted) <= asked /\ (listens_first => touched = 0)
  BY StreamFacts DEF Served, Done
<1> QED BY <1>1, <1>3, <1>4, <1>5, <1>7, <1>8, <1>9, ServedAgain

\* The last of n frames, from c to d in the stream, and o the rest of it to send.
SendingLast(n, cut, sent, o, c, d) ==
  /\ o \in Seq(R!Byte) /\ c \in Nat /\ d \in Nat /\ sent \in Nat /\ n >= 1
  /\ c = cut[n] /\ d = cut[n + 1] /\ c <= sent /\ sent < d
  /\ IsCut(cut, n, d) /\ Remains(cut, n, d, sent, o)
  /\ Remains(cut, n, d, sent + 1, Tail(o))
  /\ Len(o) = d - sent /\ Len(FrameAt(n)) = d - c

\* The request begun is in the stream, and its last byte has not been sent.
LEMMA LastFrame ==
  ASSUME Suited, Sound, Served, ~running \/ late # << >>, outgoing # << >>
  PROVE  /\ Untouched /\ ~listens_first /\ Len(accepted) = 0
         /\ \E cut, sent, c, d : SendingLast(asked, cut, sent, outgoing, c, d)
<1>1. PICK n \in Nat : n = asked
  BY StreamFacts
<1>2. PICK cut, end, sent :
        /\ IsCut(cut, n, end) /\ Remains(cut, n, end, sent, outgoing)
        /\ AtTheLast(cut, n, sent)
  BY <1>1, Zenon DEF Served, InPlace
<1>3. PICK o \in Seq(R!Byte) : o = outgoing /\ o # << >>
  BY StreamFacts
<1>4. Untouched /\ n >= 1
  <2>1. n # 0
    BY <1>1, <1>3 DEF Sound, HostOK
  <2> QED BY <1>1, <2>1 DEF Served
<1>5. ~listens_first
  <2>1. asked > 0
    BY <1>1, <1>4
  <2> QED BY <2>1, Zenon DEF Served
<1>6. end \in Nat /\ cut[n + 1] = end
  BY <1>2 DEF IsCut
<1>7. PICK c \in Nat, d \in Nat : c = cut[n] /\ d = cut[n + 1] /\ d = end
  <2>1. n \in 1 .. n
    BY <1>4
  <2>2. cut[n] \in Nat /\ cut[n + 1] \in Nat
    BY <1>1, <1>2, <2>1, FrameInStream
  <2> QED BY <1>6, <2>2
<1>8. sent \in Nat /\ sent < d /\ c <= sent
  <2>1. sent \in Nat /\ sent <= end /\ sent # end
    BY <1>2, <1>3, <1>6, MoreToCome
  <2>2. c <= sent
    BY <1>2, <1>4, <1>7 DEF AtTheLast
  <2> QED BY <1>7, <2>1, <2>2
<1>9. Remains(cut, n, end, sent + 1, Tail(o))
  <2>1. Remains(cut, n, end, sent, o)
    BY <1>2, <1>3
  <2> QED BY <1>2, <1>3, <1>6, <2>1, RemainsShrink
<1>10. Len(accepted) = 0
  BY <1>4, EmptySeq DEF Untouched
<1>11. Len(o) = d - sent
  <2>1. R!HasLen(o, end - sent)
    BY <1>2, <1>3 DEF Remains
  <2>2. end - sent \in Nat
    BY <1>7, <1>8
  <2> QED BY <1>3, <1>7, <2>1, <2>2, ReaderAssumptions, R!HasLenIsLen
<1>12. Len(FrameAt(n)) = d - c
  <2>1. n \in 1 .. n /\ n \in 1 .. Len(script)
    BY <1>1, <1>4, ScriptOK DEF Sound
  <2>2. R!HasLen(FrameAt(n), cut[n + 1] - cut[n])
    BY <1>2, <2>1 DEF IsCut
  <2>3. d - c \in Nat
    BY <1>8
  <2>4. FrameAt(n) \in Seq(R!Byte)
    BY <2>1, FrameOfScript DEF Sound
  <2> QED BY <1>7, <2>2, <2>3, <2>4, ReaderAssumptions, R!HasLenIsLen
<1>13. IsCut(cut, n, d) /\ Remains(cut, n, d, sent, o) /\ Remains(cut, n, d, sent + 1, Tail(o))
  BY <1>2, <1>3, <1>7, <1>9
<1>14. SendingLast(n, cut, sent, o, c, d)
  BY <1>4, <1>7, <1>8, <1>11, <1>12, <1>13 DEF SendingLast
<1> QED BY <1>1, <1>3, <1>4, <1>5, <1>10, <1>14

\* A byte is gone for good before the parser has had any, and asked requests are
\* lost: what is left of the last one is skipped.
LEMMA ByteGone ==
  ASSUME Suited, Sound, Served, outgoing # << >>, outgoing' = Tail(outgoing),
         script' = script, asked' = asked, state' = state, accepted' = accepted,
         touched' = asked, inflight' = << >>, late' = << >>, ~running \/ late # << >>
  PROVE  InPlace'
<1>1. PICK n \in Nat : n = asked
  BY StreamFacts
<1>2. Untouched /\ Len(accepted) = 0
  BY LastFrame
<1>11. PICK cut, sent, c, d, o : o = outgoing /\ SendingLast(n, cut, sent, o, c, d)
  BY <1>1, LastFrame
<1>12. /\ o \in Seq(R!Byte) /\ c \in Nat /\ d \in Nat /\ sent \in Nat /\ n >= 1
       /\ c = cut[n] /\ d = cut[n + 1] /\ c <= sent /\ sent < d
       /\ IsCut(cut, n, d) /\ Remains(cut, n, d, sent + 1, Tail(o))
  BY <1>11 DEF SendingLast
<1>3. PICK s \in Nat : s = sent + 1 /\ c <= s /\ c < s /\ s <= d
  BY <1>12
<1>4. PICK rest \in Seq(R!Byte) : rest = Tail(o) /\ outgoing' = rest
  BY <1>11, <1>12, TailOfBytes
<1>5. Line' = rest
  <2>1. << >> \o rest = rest
    BY ConcatEmptySeq
  <2>2. Line' = << >> \o (<< >> \o rest)
    BY <1>4 DEF Line
  <2> QED BY <2>1, <2>2
<1>6. Place(cut, n, s, n, n)'
  <2>1. s = d \/ s < d
    BY <1>3, <1>12
  <2> QED BY <1>2, <1>3, <1>12, <2>1 DEF Place, Skipping, Untouched
<1>7. Remains(cut, n, d, s, rest)
  BY <1>3, <1>4, <1>12
<1>8. Reaches(cut, n, d, s, rest, n, n)'
  BY <1>6, <1>7, WholeAgain
<1>9. AtTheLast(cut, n, s)'
  BY <1>3, <1>12 DEF AtTheLast
<1>10. asked' = n /\ touched' = n /\ Done' = n
  BY <1>1, <1>2 DEF Done
<1> QED BY <1>4, <1>12, <1>5, <1>7, <1>8, <1>9, <1>10, InPlaceAgain

\* The board is not up, and the byte is forgotten: it costs the last frame begun.
LEMMA BootServes ==
  ASSUME Suited, Sound, Served, ByteArrives, ~running
  PROVE  Served'
<1>1. /\ usart1_isr /\ outgoing # << >> /\ outgoing' = Tail(outgoing)
      /\ script' = script /\ asked' = asked /\ state' = state
      /\ listens_first' = listens_first /\ late = << >> /\ late' = << >>
      /\ inflight' = IF g_uart_rx_isr_queue' > g_uart_rx_isr_queue
                     THEN Append(inflight, Head(outgoing)) ELSE inflight
      /\ touched' = IF early' > early THEN asked ELSE touched
  BY DEF ByteArrives, receiver, kind, parser_t
<1>2. /\ inflight = << >> /\ accepted = << >> /\ ~listens_first /\ Len(accepted) = 0
      /\ state = "WAIT_START"
  BY <1>1, LastFrame DEF Untouched
<1>3. /\ g_uart_rx_isr_queue' = g_uart_rx_isr_queue /\ early' = early + 1
      /\ count' = [count EXCEPT !["irq"] = @ + 1]
      /\ running' = running /\ accepted' = accepted
  BY Zenon DEF ByteArrives, usart1_isr, parsing, Increment
<1>4. count'.qd = count.qd /\ count'.pe = count.pe
  <2>1. count \in [Counter -> Nat]
    BY DEF Sound, TypeOK, CountersOK
  <2> QED BY <1>3, <2>1, Names
<1>5. inflight' = << >> /\ touched' = asked
  <2>1. ~(g_uart_rx_isr_queue' > g_uart_rx_isr_queue) /\ early' > early
    BY <1>3, StreamFacts
  <2> QED BY <1>1, <1>2, <2>1, Zenon
<1>6. InPlace'
  BY <1>1, <1>3, <1>5, ByteGone
<1>7. Untouched'
  BY <1>1, <1>2, <1>3, <1>5 DEF Untouched
<1>8. asked \in Nat /\ asked + Len(accepted) <= asked
  BY <1>2, StreamFacts
<1> QED BY <1>1, <1>2, <1>3, <1>4, <1>5, <1>6, <1>7, <1>8, ServedAgain

\* The byte in the data register is the first of the line.
LEMMA LineWithLate ==
  ASSUME Sound, NEW b \in R!Byte, NEW s \in Seq(R!Byte), inflight' = << >>, late' = <<b>>,
         outgoing' = s
  PROVE  Line' = <<b>> \o s /\ Line' # << >> /\ Tail(Line') = s /\ Line'[1] = b
<1>1. PICK l \in Seq(R!Byte) : l = <<b>> \o s
  <2>1. <<b>> \in Seq(R!Byte)
    OBVIOUS
  <2> QED BY <2>1, ConcatProperties
<1>2. l # << >> /\ Tail(l) = s /\ Head(l) = b
  <2>1. <<b>> \in Seq(R!Byte) /\ <<b>> # << >> /\ Tail(<<b>>) = << >> /\ Head(<<b>>) = b
    OBVIOUS
  <2>2. << >> \o s = s
    BY ConcatEmptySeq
  <2> QED BY <1>1, <2>1, <2>2, TailOfConcat
<1>3. << >> \o l = l
  BY ConcatEmptySeq
<1>4. Line' = l
  BY <1>1, <1>3 DEF Line
<1>5. l[1] = b
  BY <1>2, TailOfBytes
<1> QED BY <1>1, <1>2, <1>4, <1>5

\* Interrupts are masked, and the byte waits.
LEMMA WaitingServes ==
  ASSUME Suited, Sound, Served, ByteWaits
  PROVE  Served'
<1>1. /\ outgoing # << >> /\ outgoing' = Tail(outgoing) /\ late' = <<Head(outgoing)>>
      /\ masked /\ script' = script /\ asked' = asked /\ state' = state /\ window' = window
      /\ listens_first' = listens_first /\ late = << >> /\ inflight' = inflight
      /\ touched' = touched /\ accepted' = accepted /\ count' = count /\ running' = running
  BY DEF ByteWaits, vars, parser_t, kind, upstream, reception, parsing
<1>2. ~running
  BY <1>1, Zenon DEF Sound, HostOK
<1>3. Untouched /\ ~listens_first
  BY <1>1, <1>2, LastFrame
<1>4. PICK o \in Seq(R!Byte), b \in R!Byte : o = Tail(outgoing) /\ b = Head(outgoing)
  BY <1>1, StreamFacts, TailOfBytes
<1>5. Line' = Line
  <2>1. <<b>> \o o = outgoing
    BY <1>1, <1>4, StreamFacts, HeadAndTail
  <2>2. Line' = <<b>> \o o
    BY <1>1, <1>3, <1>4, LineWithLate DEF Untouched
  <2>3. Line = outgoing
    BY <1>1, <1>3, LineWithout DEF Untouched
  <2> QED BY <2>1, <2>2, <2>3
<1>6. InPlace'
  BY <1>1, <1>2, <1>5, PlaceKept
<1>7. Untouched'
  BY <1>1, <1>3 DEF Untouched
<1>8. touched \in Nat /\ touched + Len(accepted) <= asked
  BY StreamFacts DEF Served, Done
<1> QED BY <1>1, <1>3, <1>6, <1>7, <1>8, ServedAgain

\* The byte before still waits, and the byte is lost.
LEMMA LossServes ==
  ASSUME Suited, Sound, Served, ByteIsLost
  PROVE  Served'
<1>1. /\ outgoing # << >> /\ outgoing' = Tail(outgoing) /\ late # << >> /\ late' = late
      /\ script' = script /\ asked' = asked /\ state' = state
      /\ listens_first' = listens_first /\ inflight' = inflight
      /\ accepted' = accepted /\ count' = count /\ running' = running
      /\ touched' = IF late = <<P!START>> /\ Len(outgoing) = Len(FrameAt(asked))
                    THEN asked - 1 ELSE asked
  BY DEF ByteIsLost, FrameAt, receiver, vars, parser_t, kind, upstream, reception, parsing
<1>2. /\ inflight = << >> /\ accepted = << >> /\ ~listens_first /\ Len(accepted) = 0
      /\ state = "WAIT_START" /\ Untouched
  BY <1>1, LastFrame DEF Untouched
<1>3. PICK n \in Nat : n = asked
  BY StreamFacts
<1>4. PICK cut, sent, c, d, o : o = outgoing /\ SendingLast(n, cut, sent, o, c, d)
  BY <1>1, <1>3, LastFrame
<1>5. /\ o \in Seq(R!Byte) /\ c \in Nat /\ d \in Nat /\ sent \in Nat /\ n >= 1
      /\ c = cut[n] /\ d = cut[n + 1] /\ c <= sent /\ sent < d
      /\ IsCut(cut, n, d) /\ Remains(cut, n, d, sent, o)
      /\ Remains(cut, n, d, sent + 1, Tail(o))
      /\ Len(o) = d - sent /\ Len(FrameAt(n)) = d - c
  BY <1>4 DEF SendingLast
<1>6. PICK rest \in Seq(R!Byte), b \in R!Byte, s \in Nat :
        /\ rest = Tail(o) /\ outgoing' = rest /\ late = <<b>> /\ s = sent + 1
        /\ Remains(cut, n, d, s, rest) /\ c <= s /\ c < s /\ s <= d
  <2>1. Tail(o) \in Seq(R!Byte)
    BY <1>1, <1>4, <1>5, TailOfBytes
  <2>2. PICK b \in R!Byte : late = <<b>>
    BY <1>1 DEF Sound, HostOK
  <2>3. sent + 1 \in Nat /\ c <= sent + 1 /\ c < sent + 1 /\ sent + 1 <= d
    BY <1>5
  <2> QED BY <1>1, <1>4, <1>5, <2>1, <2>2, <2>3
<1>7. PICK line : /\ line = <<b>> \o rest /\ Line' = line
                  /\ line # << >> /\ Tail(line) = rest /\ line[1] = b
  <2>1. late' = <<b>> /\ inflight' = << >>
    BY <1>1, <1>2, <1>6
  <2> QED BY <1>6, <2>1, LineWithLate
<1>8. AtTheLast(cut, n, s)'
  BY <1>5, <1>6 DEF AtTheLast
<1>9. late = <<P!START>> <=> b = R!START
  BY <1>6 DEF P!START, R!START
<1>10. CASE b = R!START /\ sent = c
  <2>1. PICK t \in Nat : t = n - 1 /\ t + 1 = n
    BY <1>5
  <2>2. touched' = t /\ Done' = t
    <3>1. touched' = t
      BY <1>1, <1>3, <1>4, <1>5, <1>9, <1>10, <2>1
    <3> QED BY <1>1, <1>2, <2>1, <3>1 DEF Done
  <2>3. o[1] = R!START
    <3>1. n \in 1 .. n /\ cut[n] \in Nat /\ cut[n + 1] \in Nat /\ cut[n] <= sent /\ sent < cut[n + 1]
      BY <1>5
    <3>2. o[1] = FrameAt(n)[(sent + 1) - cut[n]]
      <4>1. Remains(cut, n, d, sent, o) /\ d \in Nat
        BY <1>5
      <4> QED BY <3>1, <4>1, NextByte
    <3>3. (sent + 1) - cut[n] = 1
      BY <1>5, <1>10
    <3>4. FrameAt(n)[1] = R!START
      BY <1>3, <1>5, <3>1, FrameInStream DEF R!Shape
    <3> QED BY <3>2, <3>3, <3>4
  <2>4. line = o
    <3>1. o # << >> /\ Head(o) = o[1]
      BY <1>1, <1>4, <1>5, TailOfBytes
    <3> QED BY <1>5, <1>6, <1>7, <1>10, <2>3, <3>1, HeadAndTail
  <2>5. Place(cut, n, sent, t, t)'
    BY <1>1, <1>2, <1>5, <1>10, <2>1 DEF Place
  <2>6. Reaches(cut, n, d, sent, line, t, t)'
    BY <1>1, <1>5, <2>4, <2>5, WholeAgain
  <2>7. InPlace'
    BY <1>1, <1>3, <1>5, <1>6, <1>7, <1>8, <2>2, <2>6, InPlaceAgain
  <2>8. Untouched'
    BY <1>1, <1>2 DEF Untouched
  <2>9. t + Len(accepted) <= asked
    BY <1>2, <1>3, <2>1
  <2> QED BY <1>1, <1>2, <2>2, <2>7, <2>8, <2>9, ServedAgain
<1>11. CASE ~(b = R!START /\ sent = c)
  <2>1. touched' = n /\ Done' = n
    <3>1. Len(outgoing) = Len(FrameAt(asked)) <=> sent = c
      BY <1>3, <1>4, <1>5
    <3>2. touched' = n
      BY <1>1, <1>3, <1>9, <1>11, <3>1
    <3> QED BY <1>1, <1>2, <3>2 DEF Done
  <2>2. Waited(cut, s, n, n, b)'
    <3>1. b = R!START => c + 2 <= s
      BY <1>5, <1>6, <1>11
    <3> QED BY <1>1, <1>2, <1>5, <1>6, <3>1 DEF Waited
  <2>3. Waited(cut, s, n, n, line[1])'
    BY <1>7, <2>2 DEF Waited
  <2>4. Reaches(cut, n, d, s, line, n, n)'
    BY <1>1, <1>6, <1>7, <2>3, WaitedAgain
  <2>5. InPlace'
    BY <1>1, <1>3, <1>5, <1>6, <1>7, <1>8, <2>1, <2>4, InPlaceAgain
  <2>6. Untouched'
    BY <1>1, <1>2 DEF Untouched
  <2>7. n + Len(accepted) <= asked
    BY <1>2, <1>3
  <2> QED BY <1>1, <1>2, <2>1, <2>5, <2>6, <2>7, ServedAgain
<1> QED BY <1>10, <1>11

\* The handler reads the byte that has waited.
LEMMA LateServes ==
  ASSUME Suited, Sound, Served, ReadLate
  PROVE  Served'
<1>1. /\ usart1_isr /\ running /\ outgoing' = outgoing /\ late # << >> /\ late' = << >>
      /\ script' = script /\ asked' = asked /\ state' = state /\ window' = window
      /\ listens_first' = listens_first /\ touched' = touched
      /\ inflight' = IF g_uart_rx_isr_queue' > g_uart_rx_isr_queue
                     THEN inflight \o late ELSE inflight
  BY DEF ReadLate, host, kind, parser_t
<1>2. inflight = << >> /\ accepted = << >>
  BY <1>1, Zenon DEF Served, Untouched
<1>3. g_uart_rx_isr_queue # UartRxIsrQueueLength
  <2>1. Len(inflight) = 0 /\ Len(inflight) = g_uart_rx_isr_queue + rx_byte + g_parser_input_queue
    BY <1>2, EmptySeq DEF Sound, HostOK
  <2>2. g_uart_rx_isr_queue = 0
    BY <2>1, StreamFacts
  <2>3. UartRxIsrQueueLength \in Nat \ {0}
    BY Lengths
  <2> QED BY <2>2, <2>3
<1>4. /\ g_uart_rx_isr_queue' = g_uart_rx_isr_queue + 1
      /\ count' = [count EXCEPT !["irq"] = @ + 1]
      /\ running' = running /\ accepted' = accepted
  BY <1>1, <1>3, AtTheInterrupt, Zenon
<1>5. count'.qd = count.qd /\ count'.pe = count.pe
  <2>1. count \in [Counter -> Nat]
    BY DEF Sound, TypeOK, CountersOK
  <2> QED BY <1>4, <2>1, Names
<1>6. inflight' = late
  <2>1. g_uart_rx_isr_queue' > g_uart_rx_isr_queue
    BY <1>4, StreamFacts
  <2>2. << >> \o late = late
    BY StreamFacts, ConcatEmptySeq
  <2> QED BY <1>1, <1>2, <2>1, <2>2, Zenon
<1>7. Line' = Line
  <2>1. Line = late \o outgoing
    BY <1>2, LineWithout
  <2>2. << >> \o outgoing = outgoing
    BY StreamFacts, ConcatEmptySeq
  <2>3. Line' = late \o (<< >> \o outgoing)
    BY <1>1, <1>6 DEF Line
  <2> QED BY <2>1, <2>2, <2>3
<1>8. running'
  BY <1>1, <1>4
<1>9. InPlace'
  BY <1>1, <1>4, <1>7, <1>8, PlaceKept
<1>10. /\ touched \in Nat /\ touched + Len(accepted) <= asked
       /\ (listens_first => touched = 0)
  BY StreamFacts DEF Served, Done
<1> QED BY <1>1, <1>4, <1>5, <1>8, <1>9, <1>10, ServedAgain

\* The steps the reader and the line have no part in.
LEMMA OthersServe ==
  ASSUME Suited, Sound, Served, OtherSteps \/ CreateQueues \/ StartTasks \/ UNCHANGED systemVars
  PROVE  Served'
<1>1. /\ script' = script /\ asked' = asked /\ outgoing' = outgoing /\ inflight' = inflight
      /\ state' = state /\ window' = window /\ touched' = touched
      /\ listens_first' = listens_first /\ late' = late
  BY DEF OtherSteps, CreateQueues, StartTasks, systemVars, receiver, host, kind, parser_t
<1>2. /\ accepted' = accepted /\ (running => running')
      /\ \/ count' = count
         \/ count' = [count EXCEPT !["rx"] = @ + 1]
         \/ count' = [count EXCEPT !["ae"] = @ + 1]
  <2>1. CASE StartTasks
    BY <2>1 DEF StartTasks, StartScheduler, reception, parsing
  <2>2. CASE RxReceive \/ RxSend \/ ParserSend
    BY <2>2 DEF RxReceive, RxSend, ParserSend, reception, parsing
  <2>3. CASE AppReceive \/ SendReply
    BY <2>3 DEF AppReceive, SendReply, Increment, upstream, reception, parsing
  <2>4. CASE SendCommand \/ ReadCounter \/ ApplyCommand \/ TxReceive \/ TxSend
    <3>1. UNCHANGED <<running, accepted, count>>
      BY <2>4, Zenon DEF SendCommand, ReadCounter, ApplyCommand, TxReceive, TxSend,
                         upstream, reception, parsing
    <3> QED BY <3>1
  <2>5. CASE IdleTask \/ CreateQueues \/ UNCHANGED systemVars
    BY <2>5 DEF IdleTask, CreateQueues, systemVars, vars, upstream, reception, parsing
  <2> QED BY <2>1, <2>2, <2>3, <2>4, <2>5 DEF OtherSteps
<1>3. count'.qd = count.qd /\ count'.pe = count.pe
  <2>1. count \in [Counter -> Nat]
    BY DEF Sound, TypeOK, CountersOK
  <2> QED BY <1>2, <2>1, Names
<1>4. Line' = Line
  BY <1>1 DEF Line
<1>5. ~running' \/ late' # << >> => ~running \/ late # << >>
  BY <1>1, <1>2, Zenon
<1>6. accepted' = accepted
  BY <1>2
<1>7. InPlace'
  BY <1>1, <1>4, <1>5, <1>6, PlaceKept
<1>8. ~running' \/ late' # << >> => Untouched'
  <2>1. Untouched => Untouched'
    BY <1>1, <1>6 DEF Untouched
  <2> QED BY <1>5, <2>1, Zenon DEF Served
<1>9. listens_first => touched = 0 /\ late' = << >> /\ (asked > 0 => running')
  <2>1. running => running'
    BY <1>2
  <2> QED BY <1>1, <2>1, Zenon DEF Served
<1>10. touched \in Nat /\ touched + Len(accepted) <= asked
  BY StreamFacts DEF Served, Done
<1> QED BY <1>1, <1>3, <1>6, <1>7, <1>8, <1>9, <1>10, ServedAgain

LEMMA InitServed == SystemInit => Served
<1> SUFFICES ASSUME SystemInit PROVE Served
  OBVIOUS
<1>1. /\ inflight = << >> /\ outgoing = << >> /\ asked = 0 /\ accepted = << >>
      /\ touched = 0 /\ late = << >>
      /\ state = "WAIT_START" /\ count = [c \in Counter |-> 0]
  BY DEF SystemInit, Init, P!Init, NoCounts
<1>2. count.qd = 0 /\ count.pe = 0
  BY <1>1, Names
<1>3. Len(accepted) = 0 /\ Done = 0
  BY <1>1, EmptySeq DEF Done
<1>4. Line = << >> /\ Len(<< >>) = 0
  <2>1. Line = << >> \o (<< >> \o << >>)
    BY <1>1 DEF Line
  <2> QED BY <2>1, EmptySeq, ConcatEmptySeq
<1>5. PICK cut : cut = [k \in 1 .. 1 |-> 0]
  OBVIOUS
<1>6. IsCut(cut, 0, 0)
  BY <1>5 DEF IsCut
<1>7. Remains(cut, 0, 0, 0, << >>)
  BY <1>4 DEF Remains, Follows, R!HasLen
<1>8. Place(cut, 0, 0, 0, 0) /\ AtTheLast(cut, 0, 0)
  BY <1>1, <1>5 DEF Place, AtTheLast
<1>9. Reaches(cut, 0, 0, 0, << >>, 0, 0)
  BY <1>7, <1>8 DEF Reaches
<1>10. InPlace
  BY <1>1, <1>3, <1>4, <1>6, <1>7, <1>8, <1>9, Zenon DEF InPlace
<1> QED BY <1>1, <1>2, <1>3, <1>10 DEF Served, Untouched

\* The inductive invariant about a script that fits.
Serving == Sound /\ (Suited => Served)

LEMMA ServingHolds ==
  ASSUME FastReception
  PROVE  SystemSpec => []Serving
<1>1. SystemInit => Serving
  BY InitSound, InitServed DEF Serving
<1>2. Serving /\ [SystemNext]_systemVars => Serving'
  <2> SUFFICES ASSUME Serving, [SystemNext]_systemVars PROVE Serving'
    OBVIOUS
  <2>1. Sound'
    BY SoundKept DEF Serving
  <2>2. listens_first' = listens_first /\ script' = script
    BY DEF SystemNext, Write, ByteArrives, ByteWaits, ByteIsLost, ReadLate, CreateQueues,
           StartTasks, task_parser, OtherSteps, systemVars, host, kind
  <2>3. Suited' => Suited
    BY <2>2 DEF Suited, Fits, StartsAreFrames, DistinctTexts, Sendable, Frame, Without,
                Alone, ReadsAsLength
  <2>4. ASSUME Suited PROVE Served'
    <3>1. Sound /\ Served
      BY <2>4 DEF Serving
    <3>2. CASE ByteArrives
      BY <2>4, <3>1, <3>2, ArrivalServes, BootServes
    <3>3. CASE Write
      BY <2>4, <3>1, <3>3, WriteServes
    <3>4. CASE ByteWaits
      BY <2>4, <3>1, <3>4, WaitingServes
    <3>5. CASE ByteIsLost
      BY <2>4, <3>1, <3>5, LossServes
    <3>6. CASE ReadLate
      BY <2>4, <3>1, <3>6, LateServes
    <3>7. CASE task_parser
      BY <2>4, <3>1, <3>7, ReaderServes
    <3>8. CASE OtherSteps \/ CreateQueues \/ StartTasks \/ UNCHANGED systemVars
      BY <2>4, <3>1, <3>8, OthersServe
    <3> QED BY <3>2, <3>3, <3>4, <3>5, <3>6, <3>7, <3>8 DEF SystemNext
  <2> QED BY <2>1, <2>3, <2>4 DEF Serving
<1> QED BY <1>1, <1>2, PTL DEF SystemSpec

\* For every set of hosts, width of the frames and length of the queues: a host
\* that listens first has no byte dropped by the interrupt and no frame refused
\* by the parser, in whatever order the tasks run.
THEOREM NothingLost ==
  ASSUME FastReception, ScriptsFit
  PROVE  SystemSpec => []NothingIsLost
<1>1. Serving => NothingIsLost
  BY SuitedFirst DEF Serving, Sound, Served, NothingIsLost
<1> QED BY <1>1, ServingHolds, PTL

LEMMA AnswersOfTheScript ==
  ASSUME Sound, Served, listens_first
  PROVE  OnTheLine = Expected(SubSeq(script, 1, Len(wire)))
<1>1. wire \in Seq(Answer) /\ sending \in Seq(Answer) /\ g_uart_tx_queue \in Seq(Answer)
  BY DEF Sound, TypeOK, TransmissionOK
<1>2. PICK w \in Nat, s \in Nat, q \in Nat :
        w = Len(wire) /\ s = Len(sending) /\ q = Len(g_uart_tx_queue)
  BY <1>1, LenProperties
<1>3. /\ GivenCount = w + s + q
      /\ \A k \in 1 .. w : Given[k] = wire[k]
  <2>1. PICK x \in Seq(Answer) : x = wire \o sending
    BY <1>1, ConcatProperties
  <2>2. Len(x) = w + s /\ \A k \in 1 .. w : x[k] = wire[k]
    BY <1>1, <1>2, <2>1, ConcatProperties
  <2>3. /\ Len(x \o g_uart_tx_queue) = w + s + q
        /\ \A k \in 1 .. w + s : (x \o g_uart_tx_queue)[k] = x[k]
    BY <1>1, <1>2, <2>1, <2>2, ConcatProperties
  <2>4. \A k \in 1 .. w : k \in 1 .. w + s
    OBVIOUS
  <2>5. Given = x \o g_uart_tx_queue
    BY <2>1 DEF Given
  <2> QED BY <2>2, <2>3, <2>4, <2>5 DEF GivenCount
<1>4. PICK a \in Nat, n \in Nat, l \in Nat :
        a = Len(accepted) /\ n = asked /\ l = Len(script) /\ a <= n /\ n <= l
  <2>1. Len(accepted) <= asked
    <3>1. touched = 0 /\ touched + Len(accepted) <= asked
      BY DEF Served, Done
    <3> QED BY <3>1, StreamFacts
  <2> QED BY <2>1, StreamFacts, ScriptOK DEF Sound
<1>5. w <= a
  <2>1. PICK h \in Nat : h = count.rx /\ h <= a
    BY <1>4, Names DEF Sound, TypeOK, CountersOK, OrderKept
  <2>2. h = w + s + q \/ h = w + s + q + 1
    BY <1>3, <2>1 DEF Sound, AnsweredSoFar, Handled
  <2> QED BY <2>1, <2>2
<1>6. ASSUME NEW k \in 1 .. w
      PROVE  <<wire[k].type, wire[k].payload>> = Service!AnswerTo(script[k])
  <2>1. k \in 1 .. w + s + q /\ k \in 1 .. a
    BY <1>5
  <2>2. Pair(Given[k]) = Service!AnswerTo(accepted[k])
    BY <1>3, <2>1 DEF Sound, AnsweredSoFar
  <2>3. accepted[k] = script[k]
    <3>1. accepted[k] = script[touched + k] /\ touched = 0
      BY <1>4, <2>1 DEF Served
    <3>2. touched + k = k
      BY <3>1
    <3> QED BY <3>1, <3>2
  <2> QED BY <1>3, <2>2, <2>3 DEF Pair
<1>7. PICK t : /\ t = SubSeq(script, 1, w) /\ DOMAIN t = 1 .. w
               /\ \A k \in 1 .. w : t[k] = script[k]
  <2>1. script \in Seq(Request) /\ w <= l
    BY <1>4, <1>5, ScriptOK DEF Sound
  <2>2. \A i \in 1 .. w : script[i] \in Request
    BY <1>4, <2>1, ElementOfSeq
  <2>3. /\ SubSeq(script, 1, w) \in Seq(Request)
        /\ Len(SubSeq(script, 1, w)) = IF 1 <= w THEN w - 1 + 1 ELSE 0
        /\ \A i \in 1 .. w - 1 + 1 : SubSeq(script, 1, w)[i] = script[1 + i - 1]
    BY <2>1, <2>2, SubSeqProperties
  <2>4. Len(SubSeq(script, 1, w)) = w
    BY <2>3
  <2>5. DOMAIN SubSeq(script, 1, w) = 1 .. w
    BY <2>3, <2>4, LenProperties
  <2>6. \A i \in 1 .. w : SubSeq(script, 1, w)[i] = script[i]
    BY <2>3
  <2> QED BY <2>5, <2>6
<1>8. DOMAIN wire = 1 .. w
  BY <1>1, <1>2, LenProperties
<1>9. OnTheLine = [k \in 1 .. w |-> Service!AnswerTo(script[k])]
  BY <1>6, <1>8, Zenon DEF OnTheLine
<1>10. Expected(t) = [k \in 1 .. w |-> Service!AnswerTo(script[k])]
  BY <1>7, Zenon DEF Expected
<1> QED BY <1>2, <1>7, <1>9, <1>10

\* What goes out on the line to a host that listens first is the answers to the
\* requests of its script, in its order: from bytes to bytes, through the codec,
\* the parser, five tasks and five queues.
THEOREM AnswersFollow ==
  ASSUME FastReception, ScriptsFit
  PROVE  SystemSpec => []AnswersFollowTheScript
<1>1. Serving => AnswersFollowTheScript
  BY AnswersOfTheScript, SuitedFirst DEF Serving, Sound, AnswersFollowTheScript
<1> QED BY <1>1, ServingHolds, PTL

\* Every byte of the stream is read: every request of it was lost or delivered.
LEMMA NothingIsLeft ==
  ASSUME Suited, Sound, Served, Line = << >>
  PROVE  Done = asked
<1>1. PICK n \in Nat, a \in Nat, t \in Nat :
        n = asked /\ a = Done /\ t = touched /\ a <= n
  BY StreamFacts DEF Served
<1>2. PICK cut, end, read :
        /\ IsCut(cut, n, end) /\ Remains(cut, n, end, read, << >>)
        /\ Place(cut, n, read, t, a)
  BY <1>1, Zenon DEF Served, InPlace, Reaches
<1>3. end \in Nat /\ cut[n + 1] = end
  BY <1>2 DEF IsCut
<1>4. read = end
  <2>1. PICK rest \in Seq(R!Byte) : rest = << >>
    BY EmptySeq
  <2>2. Remains(cut, n, end, read, rest)
    BY <1>2, <2>1
  <2>3. rest = << >> <=> read = end
    BY <1>3, <2>2, MoreToCome
  <2> QED BY <2>1, <2>3
<1>5. ASSUME a + 1 <= n PROVE FALSE
  <2>1. PICK k \in 1 .. n : k = a + 1
    BY <1>5
  <2>2. PICK c \in Nat, d \in Nat, m \in TypeLength + 1 .. R!MaxBody :
          m \in Nat /\ c = cut[k] /\ d = cut[k + 1] /\ d <= end /\ d = c + m + 8
    <3>1. cut[k] \in Nat /\ cut[k + 1] \in Nat /\ cut[k + 1] <= end
      BY <1>1, <1>2, <2>1, FrameInStream
    <3>2. PICK m \in TypeLength + 1 .. R!MaxBody : m \in Nat /\ cut[k + 1] = cut[k] + m + 8
      <4>1. IsCut(cut, n, end)
        BY <1>2
      <4> QED BY <1>1, <2>1, <4>1, FrameInStream
    <3> QED BY <3>1, <3>2
  <2>3. c < end
    BY <1>3, <2>2
  <2>4. read < d \/ read <= c
    <3>1. CASE state = "WAIT_START"
      BY <1>2, <2>1, <2>2, <3>1, <1>4, <1>3 DEF Place, Skipping
    <3>2. CASE state # "WAIT_START"
      BY <1>2, <2>1, <2>2, <3>2 DEF Place, Inside, Astray
    <3> QED BY <3>1, <3>2
  <2> QED BY <1>3, <1>4, <2>2, <2>3, <2>4
<1> QED BY <1>1, <1>5

LEMMA AcceptedAreTheRest ==
  ASSUME Suited, Sound, Served, Line = << >>, asked = Len(script)
  PROVE  accepted = SubSeq(script, touched + 1, Len(script))
<1>1. PICK n \in Nat, t \in Nat, l \in Nat :
        n = Len(script) /\ t = touched /\ l = Len(accepted) /\ t + l = n
  BY NothingIsLeft, StreamFacts DEF Done
<1>2. script \in Seq(Request) /\ accepted \in Seq(Request)
  BY StreamFacts, ScriptOK DEF Sound
<1>3. PICK r : r = SubSeq(script, t + 1, n)
  OBVIOUS
<1>4. r \in Seq(Request) /\ Len(r) = l /\ \A i \in 1 .. l : r[i] = script[t + i]
  <2>1. \A i \in t + 1 .. n : script[i] \in Request
    <3>1. \A i \in t + 1 .. n : i \in 1 .. n
      OBVIOUS
    <3> QED BY <1>1, <1>2, <3>1, ElementOfSeq
  <2>2. /\ r \in Seq(Request)
        /\ Len(r) = IF t + 1 <= n THEN n - (t + 1) + 1 ELSE 0
        /\ \A i \in 1 .. n - (t + 1) + 1 : r[i] = script[(t + 1) + i - 1]
    BY <1>2, <1>3, <2>1, SubSeqProperties
  <2>3. n - (t + 1) + 1 = l /\ (t + 1 <= n <=> l # 0)
    BY <1>1
  <2>4. Len(r) = l
    BY <2>2, <2>3
  <2>5. \A i \in 1 .. l : r[i] = script[(t + 1) + i - 1]
    BY <2>2, <2>3
  <2>6. \A i \in 1 .. l : (t + 1) + i - 1 = t + i
    OBVIOUS
  <2> QED BY <2>2, <2>4, <2>5, <2>6
<1>5. \A i \in 1 .. l : accepted[i] = script[t + i]
  BY <1>1 DEF Served
<1>6. accepted = r
  BY <1>1, <1>2, <1>4, <1>5, SeqEqual
<1> QED BY <1>1, <1>3, <1>6

\* For every set of hosts, width of the frames and length of the queues: a host
\* that starts before the board loses the requests that had a byte forgotten while
\* there was no queue, or overrun while interrupts were masked and not made up for,
\* and no other.  The rest of such a frame is skipped; an '@' that waited and draws
\* the parser into it finds no length there, and the next frame is read whole.
THEOREM BootIsPaidOnce ==
  ASSUME FastReception, EveryScriptFits
  PROVE  SystemSpec => []BootCostsOnlyItsFrames
<1>1. Serving /\ IdleMeansDrained => BootCostsOnlyItsFrames
  <2> SUFFICES ASSUME Serving, IdleMeansDrained, Idle, asked = Len(script),
                      outgoing = << >>, late = << >>
               PROVE  accepted = SubSeq(script, touched + 1, Len(script))
    BY DEF BootCostsOnlyItsFrames
  <2>1. Sound /\ HostOK
    BY DEF Serving, Sound
  <2>2. Suited /\ Served
    BY <2>1, SuitedAll DEF Serving
  <2>3. inflight = << >>
    <3>1. Len(inflight) = 0
      BY <2>1 DEF HostOK, IdleMeansDrained
    <3> QED BY <2>1, <3>1, StreamFacts, EmptySeq
  <2>4. Line = << >>
    BY <2>1, <2>3, LineWithout
  <2> QED BY <2>1, <2>2, <2>4, AcceptedAreTheRest
<1>2. SystemSpec => []Serving
  BY ServingHolds
<1>3. SystemSpec => []IdleMeansDrained
  BY ImplementsPipeline, NoCircularWait, PTL
<1> QED BY <1>1, <1>2, <1>3, PTL

=============================================================================
