------------------------------ MODULE Protocol ------------------------------
(***************************************************************************)
(* firmware/protocol/protocol.{h,c}: the frame codec, as pure operators.   *)
(*                                                                         *)
(*     @LL:TTT:PAYLOAD:CC\n                                                *)
(*                                                                         *)
(* A byte is its code, a buffer is a sequence of bytes.  A function of the *)
(* C code that returns false yields NoMessage or NoFrame here.  The widths *)
(* of the type field and of the payload are constants, so that TLC can     *)
(* enumerate whole frames and the proofs hold for every width.             *)
(***************************************************************************)
EXTENDS Integers, Sequences, FiniteSets, Functions

CONSTANTS TypeLength,   \* PROTOCOL_TYPE_LENGTH
          MaxPayload,   \* PROTOCOL_MAX_PAYLOAD_LENGTH
          MaxFrame,     \* PROTOCOL_MAX_FRAME_SIZE, the size of a frame buffer
          TypeText      \* message type |-> the bytes of its text

Byte  == 0..255
NUL   == 0
END   == 10             \* PROTOCOL_END_CHAR
CR    == 13
SEP   == 58             \* PROTOCOL_SEPARATOR_CHAR
START == 64             \* PROTOCOL_START_CHAR

MessageType == DOMAIN TypeText
MaxBody     == TypeLength + 1 + MaxPayload

\* What the widths and the texts of a build have to be.
ProtocolOK ==
  /\ TypeLength \in Nat \ {0}
  /\ MaxPayload \in Nat
  /\ MaxFrame \in Nat
  /\ MaxBody <= 255                      \* LL is two hexadecimal digits
  /\ \A t \in MessageType : /\ TypeText[t] \in Seq(Byte \ {NUL})
                            /\ Len(TypeText[t]) = TypeLength
  /\ \A t, u \in MessageType : TypeText[t] = TypeText[u] => t = u
  /\ "INVALID" \notin MessageType

ASSUME ProtocolAssumption == ProtocolOK

Message   == [type : MessageType, payload : Seq(Byte)]
NoMessage == [type |-> "INVALID", payload |-> << >>]
NoFrame   == << >>

-----------------------------------------------------------------------------
(* Characters and strings. *)

\* What strlen, strcmp and "%s" see of a buffer: the bytes before the first NUL.
CString(buffer) ==
  LET nuls == {i \in DOMAIN buffer : buffer[i] = NUL}
  IN  IF nuls = {} THEN buffer
      ELSE SubSeq(buffer, 1, (CHOOSE i \in nuls : \A j \in nuls : i <= j) - 1)

hex_char_to_nibble(c) == CASE c \in 48..57  -> c - 48
                           [] c \in 65..70  -> c - 55
                           [] c \in 97..102 -> c - 87
                           [] OTHER         -> -1

IsHex(c) == hex_char_to_nibble(c) >= 0

nibble_to_hex(value) == LET v == value % 16 IN IF v < 10 THEN 48 + v ELSE 55 + v

\* (uint8_t)((hi << 4) | lo) for two hexadecimal digits.
HexByte(hi, lo) == 16 * hex_char_to_nibble(hi) + hex_char_to_nibble(lo)

\* The two digits "%02X" and the length field write for a byte.
HexText(value) == <<nibble_to_hex(value \div 16), nibble_to_hex(value)>>

\* The exclusive or of the bytes: a bit of it is set when an odd number of the
\* bytes have it set.
protocol_compute_checksum(data) ==
  LET bit(weight) ==
        Cardinality({i \in DOMAIN data : (data[i] \div weight) % 2 = 1}) % 2
  IN  bit(1) + 2 * bit(2) + 4 * bit(4) + 8 * bit(8)
        + 16 * bit(16) + 32 * bit(32) + 64 * bit(64) + 128 * bit(128)

-----------------------------------------------------------------------------
(* Types and messages. *)

protocol_type_to_text(type) ==
  IF type \in MessageType THEN TypeText[type] ELSE << >>

protocol_type_from_text(text) ==
  IF \E t \in MessageType : TypeText[t] = text
  THEN CHOOSE t \in MessageType : TypeText[t] = text
  ELSE "INVALID"

protocol_message_set(type, payload) ==
  IF type \in MessageType /\ Len(CString(payload)) <= MaxPayload
  THEN [type |-> type, payload |-> CString(payload)]
  ELSE NoMessage

\* The body is "TTT:PAYLOAD".  The bytes of the payload are not looked at.
protocol_decode_body(body) ==
  LET type == protocol_type_from_text(SubSeq(body, 1, TypeLength))
  IN  IF /\ Len(body) \in TypeLength + 1 .. MaxBody
         /\ body[TypeLength + 1] = SEP
         /\ type # "INVALID"
      THEN [type    |-> type,
            payload |-> SubSeq(body, TypeLength + 2, Len(body))]
      ELSE NoMessage

-----------------------------------------------------------------------------
(* Frames. *)

\* A payload whose strlen is not payload_length, that is, one that holds a
\* NUL, is refused, and so is a buffer without room for the terminator.
protocol_encode_frame(message, frame_size) ==
  LET body           == protocol_type_to_text(message.type)
                          \o <<SEP>> \o message.payload
      checksum_input == HexText(Len(body)) \o <<SEP>> \o body
      frame          == <<START>> \o checksum_input \o <<SEP>>
                          \o HexText(protocol_compute_checksum(checksum_input))
                          \o <<END>>
  IN  IF /\ message.type \in MessageType
         /\ NUL \notin Range(message.payload)
         /\ Len(message.payload) <= MaxPayload
         /\ frame_size > Len(frame)
      THEN frame
      ELSE NoFrame

\* The shape and the checksum protocol_validate_frame asks of a frame.
WellFormed(frame) ==
  /\ Len(frame) >= TypeLength + 9
  /\ frame[1] = START /\ frame[4] = SEP /\ frame[Len(frame)] = END
  /\ IsHex(frame[2]) /\ IsHex(frame[3])
  /\ LET length == HexByte(frame[2], frame[3])
     IN  /\ length \in TypeLength + 1 .. MaxBody
         /\ Len(frame) = length + 8
         /\ frame[length + 5] = SEP
         /\ IsHex(frame[length + 6]) /\ IsHex(frame[length + 7])
         /\ protocol_compute_checksum(SubSeq(frame, 2, length + 4))
              = HexByte(frame[length + 6], frame[length + 7])

\* What protocol_validate_frame finds in a buffer once its length is known.
ValidateBytes(frame) ==
  IF WellFormed(frame)
  THEN protocol_decode_body(SubSeq(frame, 5, Len(frame) - 4))
  ELSE NoMessage

protocol_validate_frame(frame) == ValidateBytes(CString(frame))
=============================================================================
