------------------------------- MODULE Parser -------------------------------
(***************************************************************************)
(* firmware/protocol/parser.{h,c}: the incremental parser, one action per  *)
(* state of its switch.  The fields of parser_t are variables; a buffer    *)
(* and its index are one sequence (body_index is Len(body)).  message and  *)
(* result are what the last call returned and byte its argument.           *)
(*                                                                         *)
(* window is a history variable: the bytes consumed since the '@' that     *)
(* opened the frame being read, the last byte included and '\r' left out.  *)
(***************************************************************************)
EXTENDS Protocol

CONSTANT Input        \* the bytes that can arrive
InputOK == Input \subseteq Byte
ASSUME InputAssumption == InputOK

VARIABLES state, length_field, body, checksum_field, expected_body_length,
          byte, result, message, window

parser_t == <<state, length_field, body, checksum_field, expected_body_length>>
vars     == <<parser_t, byte, result, message, window>>

States  == {"WAIT_START", "READ_LEN_HI", "READ_LEN_LO", "EXPECT_LEN_SEPARATOR",
            "READ_BODY", "EXPECT_CHECK_SEPARATOR", "READ_CHECK_HI",
            "READ_CHECK_LO", "EXPECT_END"}
Results == {"IN_PROGRESS", "MESSAGE_READY", "ERROR"}

Init ==
  /\ state = "WAIT_START"
  /\ length_field = << >> /\ body = << >> /\ checksum_field = << >>
  /\ expected_body_length = 0
  /\ byte = NUL
  /\ result = "IN_PROGRESS" /\ message = NoMessage
  /\ window = << >>

-----------------------------------------------------------------------------
(* Helpers of parser.c. *)

parser_hex_byte(field) == HexByte(field[1], field[2])

\* Mutant: the checksum is read and not compared.
ChecksumIgnored == TRUE

\* Mutant: the length digits are left out of the checksum.
ChecksumWithoutLength ==
  protocol_compute_checksum(body) = parser_hex_byte(checksum_field)

parser_checksum_matches ==
  protocol_compute_checksum(length_field \o <<SEP>> \o body)
    = parser_hex_byte(checksum_field)

\* parser_reset, then the state the caller leaves the parser in.
ResetTo(s) ==
  /\ state' = s
  /\ length_field' = << >> /\ body' = << >> /\ checksum_field' = << >>
  /\ expected_body_length' = 0

parser_reset == ResetTo("WAIT_START")

Return(r, m) == result' = r /\ message' = m

InProgress(b) ==
  /\ Return("IN_PROGRESS", NoMessage)
  /\ window' = Append(window, b)

\* Mutant: the byte that broke the frame is never looked at again.
ErrorDropsStart(b) ==
  Return("ERROR", NoMessage) /\ parser_reset /\ window' = Append(window, b)

\* The frame is discarded; an '@' that broke it opens the next one.
parser_error(b) ==
  /\ Return("ERROR", NoMessage)
  /\ \/ b = START /\ ResetTo("READ_LEN_HI") /\ window' = <<START>>
     \/ b # START /\ parser_reset /\ window' = Append(window, b)

-----------------------------------------------------------------------------
(* parser_consume_byte: one action per case of the switch. *)

IgnoreCarriageReturn(b) ==
  /\ b = CR
  /\ Return("IN_PROGRESS", NoMessage)
  /\ window' = IF state = "WAIT_START" THEN << >> ELSE window
  /\ UNCHANGED parser_t

WaitStart(b) ==
  /\ state = "WAIT_START"
  /\ Return("IN_PROGRESS", NoMessage)
  /\ \/ b = START /\ state' = "READ_LEN_HI" /\ window' = <<START>>
     \/ b # START /\ UNCHANGED state /\ window' = << >>
  /\ UNCHANGED <<length_field, body, checksum_field, expected_body_length>>

ReadLenHi(b) ==
  /\ state = "READ_LEN_HI"
  /\ \/ ~IsHex(b) /\ parser_error(b)
     \/ /\ IsHex(b)
        /\ length_field' = <<b>>
        /\ state' = "READ_LEN_LO"
        /\ InProgress(b)
        /\ UNCHANGED <<body, checksum_field, expected_body_length>>

\* Mutant: a length above PROTOCOL_MAX_BODY_SIZE is let through.
LengthWithoutUpperBound(b) ==
  LET length == HexByte(length_field[1], b)
  IN  /\ state = "READ_LEN_LO"
      /\ \/ ~IsHex(b) /\ parser_error(b)
         \/ /\ IsHex(b)
            /\ length_field' = Append(length_field, b)
            /\ expected_body_length' = length
            /\ state' = "EXPECT_LEN_SEPARATOR"
            /\ InProgress(b)
            /\ UNCHANGED <<body, checksum_field>>

ReadLenLo(b) ==
  LET length == HexByte(length_field[1], b)
  IN  /\ state = "READ_LEN_LO"
      /\ \/ ~IsHex(b) /\ parser_error(b)
         \/ IsHex(b) /\ length \notin TypeLength + 1 .. MaxBody /\ parser_error(b)
         \/ /\ IsHex(b) /\ length \in TypeLength + 1 .. MaxBody
            /\ length_field' = Append(length_field, b)
            /\ expected_body_length' = length
            /\ state' = "EXPECT_LEN_SEPARATOR"
            /\ InProgress(b)
            /\ UNCHANGED <<body, checksum_field>>

ExpectLenSeparator(b) ==
  /\ state = "EXPECT_LEN_SEPARATOR"
  /\ \/ b # SEP /\ parser_error(b)
     \/ /\ b = SEP
        /\ body' = << >>
        /\ state' = "READ_BODY"
        /\ InProgress(b)
        /\ UNCHANGED <<length_field, checksum_field, expected_body_length>>

\* Any byte is taken, '@' and '\n' included.
ReadBody(b) ==
  /\ state = "READ_BODY"
  /\ body' = Append(body, b)
  /\ state' = IF Len(body') >= expected_body_length
              THEN "EXPECT_CHECK_SEPARATOR" ELSE state
  /\ InProgress(b)
  /\ UNCHANGED <<length_field, checksum_field, expected_body_length>>

\* Mutant: the separator is waited for instead of demanded.
SkipToCheckSeparator(b) ==
  /\ state = "EXPECT_CHECK_SEPARATOR"
  /\ state' = IF b = SEP THEN "READ_CHECK_HI" ELSE state
  /\ InProgress(b)
  /\ UNCHANGED <<length_field, body, checksum_field, expected_body_length>>

ExpectCheckSeparator(b) ==
  /\ state = "EXPECT_CHECK_SEPARATOR"
  /\ \/ b # SEP /\ parser_error(b)
     \/ /\ b = SEP
        /\ state' = "READ_CHECK_HI"
        /\ InProgress(b)
        /\ UNCHANGED <<length_field, body, checksum_field, expected_body_length>>

ReadCheckHi(b) ==
  /\ state = "READ_CHECK_HI"
  /\ \/ ~IsHex(b) /\ parser_error(b)
     \/ /\ IsHex(b)
        /\ checksum_field' = <<b>>
        /\ state' = "READ_CHECK_LO"
        /\ InProgress(b)
        /\ UNCHANGED <<length_field, body, expected_body_length>>

ReadCheckLo(b) ==
  /\ state = "READ_CHECK_LO"
  /\ \/ ~IsHex(b) /\ parser_error(b)
     \/ /\ IsHex(b)
        /\ checksum_field' = Append(checksum_field, b)
        /\ state' = "EXPECT_END"
        /\ InProgress(b)
        /\ UNCHANGED <<length_field, body, expected_body_length>>

\* A complete frame resets the parser whether it is delivered or refused.
ExpectEnd(b) ==
  LET decoded == protocol_decode_body(body)
  IN  /\ state = "EXPECT_END"
      /\ \/ b # END /\ parser_error(b)
         \/ /\ b = END
            /\ parser_reset
            /\ window' = Append(window, b)
            /\ \/ /\ parser_checksum_matches /\ decoded # NoMessage
                  /\ Return("MESSAGE_READY", decoded)
               \/ /\ ~parser_checksum_matches \/ decoded = NoMessage
                  /\ Return("ERROR", NoMessage)

parser_consume_byte(b) ==
  /\ byte' = b
  /\ \/ IgnoreCarriageReturn(b)
     \/ /\ b # CR
        /\ \/ WaitStart(b)
           \/ ReadLenHi(b)
           \/ ReadLenLo(b)
           \/ ExpectLenSeparator(b)
           \/ ReadBody(b)
           \/ ExpectCheckSeparator(b)
           \/ ReadCheckHi(b)
           \/ ReadCheckLo(b)
           \/ ExpectEnd(b)

Next == \E b \in Input : parser_consume_byte(b)

Spec == Init /\ [][Next]_vars

-----------------------------------------------------------------------------
(* Properties. *)

BodySize == MaxBody + 1    \* of the array body in parser_t

\* The type invariant of parser_t and of the results of parser_consume_byte.
TypeOK ==
  /\ state \in States
  /\ length_field \in Seq(Byte) /\ Len(length_field) <= 2
  /\ checksum_field \in Seq(Byte) /\ Len(checksum_field) <= 2
  /\ body \in Seq(Byte)
  /\ expected_body_length \in 0..MaxBody
  /\ byte \in Byte
  /\ result \in Results
  /\ message \in Message \union {NoMessage}
  /\ window \in Seq(Byte)

\* READ_BODY tests no bound of its own: it writes the byte at body_index and, when
\* that was the last one expected, the terminator after it.  Both places are
\* inside body[PROTOCOL_MAX_BODY_SIZE + 1], whatever length the line announced.
BodyInBounds ==
  /\ Len(body) + 1 <= BodySize
  /\ state = "READ_BODY" => Len(body) + 2 <= BodySize

\* Reading byte by byte decides what the batch validation decides on the whole
\* frame: a call returns a message exactly when the bytes since the '@' pass the
\* tests of protocol_validate_frame, told their number instead of calling strlen
\* (for a NUL see ValidatorAcceptsDelivered), and it is the same message.
AgreesWithValidateFrame ==
  /\ message = ValidateBytes(window)
  /\ result = "MESSAGE_READY" <=> message # NoMessage

\* One wrong length digit holds the parser for a bounded time: a frame is
\* delivered, refused or abandoned within MaxBody + 8 bytes of its '@', so
\* noise cannot swallow more of the stream than that.
FrameIsBounded ==
  /\ Len(window) <= MaxBody + 8
  /\ Len(window) = MaxBody + 8 => state = "WAIT_START"

\* parser_error reuses the '@' that breaks a frame: outside the body, where an
\* '@' is data, every '@' opens a frame whatever the parser was doing.
StartAlwaysOpensAFrame ==
  [][byte' = START /\ state # "READ_BODY" => state' = "READ_LEN_HI"]_vars

\* protocol.c, 268-270: the incremental parser makes the same validation as
\* protocol_validate_frame, which is handed the whole frame as a string.
ValidatorAcceptsDelivered ==
  result = "MESSAGE_READY" => protocol_validate_frame(window) = message
=============================================================================
