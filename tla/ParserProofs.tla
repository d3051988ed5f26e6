---------------------------- MODULE ParserProofs ----------------------------
(***************************************************************************)
(* Proofs about the incremental parser, for every type width, payload      *)
(* width, set of types and set of input bytes.                             *)
(*                                                                         *)
(* AgreesWithValidateFrame is not inductive: it relates the window to the  *)
(* message of a finished frame only.  Progress adds what the fields of     *)
(* parser_t say about the window while the frame is being read.            *)
(***************************************************************************)
EXTENDS Parser, SequenceTheorems, FiniteSetTheorems, TLAPS

AfterLength    == States \ {"WAIT_START", "READ_LEN_HI", "READ_LEN_LO"}
AfterSeparator == AfterLength \ {"EXPECT_LEN_SEPARATOR"}
AfterBody      == AfterSeparator \ {"READ_BODY"}
AfterCheckSep  == AfterBody \ {"EXPECT_CHECK_SEPARATOR"}

\* Len(s) = n, as two inequalities: the form in which the SMT backend keeps it
\* as arithmetic.
HasLen(s, n) == Len(s) <= n /\ n <= Len(s)

\* The bytes of the window consumed in each state but WAIT_START.
WindowHas ==
  /\ state = "READ_LEN_HI"            => HasLen(window, 1)
  /\ state = "READ_LEN_LO"            => HasLen(window, 2)
  /\ state = "EXPECT_LEN_SEPARATOR"   => HasLen(window, 3)
  /\ state = "READ_BODY"              => HasLen(window, 4 + Len(body))
  /\ state = "EXPECT_CHECK_SEPARATOR" => HasLen(window, 4 + expected_body_length)
  /\ state = "READ_CHECK_HI"          => HasLen(window, 5 + expected_body_length)
  /\ state = "READ_CHECK_LO"          => HasLen(window, 6 + expected_body_length)
  /\ state = "EXPECT_END"             => HasLen(window, 7 + expected_body_length)

\* The fields of parser_t are the window, cut up.
LengthRead ==
  /\ HasLen(length_field, 2)
  /\ IsHex(length_field[1]) /\ IsHex(length_field[2])
  /\ window[2] = length_field[1] /\ window[3] = length_field[2]
  /\ expected_body_length = HexByte(length_field[1], length_field[2])
  /\ expected_body_length \in TypeLength + 1 .. MaxBody

BodyRead ==
  /\ window[4] = SEP
  /\ \A i \in 1..Len(body) : window[4 + i] = body[i]

CheckHiRead ==
  /\ Len(checksum_field) >= 1
  /\ IsHex(checksum_field[1])
  /\ window[6 + expected_body_length] = checksum_field[1]

CheckLoRead ==
  /\ HasLen(checksum_field, 2)
  /\ IsHex(checksum_field[2])
  /\ window[7 + expected_body_length] = checksum_field[2]

Reading ==
  /\ window[1] = START
  /\ WindowHas
  /\ state = "READ_LEN_LO" => /\ HasLen(length_field, 1)
                              /\ IsHex(length_field[1])
                              /\ window[2] = length_field[1]
  /\ state \in AfterLength    => LengthRead
  /\ state \notin AfterSeparator => body = << >>
  /\ state \in AfterSeparator => BodyRead
  /\ state = "READ_BODY"      => Len(body) < expected_body_length
  /\ state \in AfterBody      => HasLen(body, expected_body_length)
  /\ state \in AfterCheckSep  => window[5 + expected_body_length] = SEP
  /\ state \in {"READ_CHECK_LO", "EXPECT_END"} => CheckHiRead
  /\ state = "READ_CHECK_LO"  => HasLen(checksum_field, 1)
  /\ state = "EXPECT_END"     => CheckLoRead

Progress ==
  IF state = "WAIT_START"
  THEN /\ body = << >>
       /\ message = ValidateBytes(window)
       /\ result = "MESSAGE_READY" <=> message # NoMessage
       /\ Len(window) <= MaxBody + 8
  ELSE /\ Reading
       /\ result # "MESSAGE_READY" /\ message = NoMessage

IInv == TypeOK /\ Progress

-----------------------------------------------------------------------------
(* Lemmas about the codec. *)

\* The assumption of Protocol, as the proofs use it.
LEMMA ProtocolFacts ==
  /\ TypeLength \in Nat \ {0} /\ MaxPayload \in Nat /\ MaxBody <= 255
  /\ \A t \in MessageType : /\ TypeText[t] \in Seq(Byte \ {NUL})
                            /\ Len(TypeText[t]) = TypeLength
  /\ \A t, u \in MessageType : TypeText[t] = TypeText[u] => t = u
  /\ "INVALID" \notin MessageType
BY ProtocolAssumption DEF ProtocolOK

LEMMA Widths ==
  /\ TypeLength \in Nat /\ TypeLength >= 1
  /\ MaxBody \in Nat /\ MaxBody >= TypeLength + 1
BY ProtocolFacts DEF MaxBody

\* protocol_decode_body returns a message with a known type, or nothing.
LEMMA DecodeType ==
  ASSUME NEW b \in Seq(Byte)
  PROVE  protocol_decode_body(b) \in Message \union {NoMessage}
<1> DEFINE type == protocol_type_from_text(SubSeq(b, 1, TypeLength))
<1>1. CASE /\ Len(b) \in TypeLength + 1 .. MaxBody
           /\ b[TypeLength + 1] = SEP
           /\ type # "INVALID"
  <2>1. type \in MessageType
    BY <1>1 DEF protocol_type_from_text
  <2>2. SubSeq(b, TypeLength + 2, Len(b)) \in Seq(Byte)
    <3>1. TypeLength + 2 \in Int /\ Len(b) \in Int
      BY ProtocolFacts
    <3>2. \A i \in TypeLength + 2 .. Len(b) : b[i] \in Byte
      BY ProtocolFacts
    <3> QED BY <3>1, <3>2, SubSeqProperties
  <2> QED BY <1>1, <2>1, <2>2 DEF protocol_decode_body, Message
<1>2. CASE ~ (/\ Len(b) \in TypeLength + 1 .. MaxBody
              /\ b[TypeLength + 1] = SEP
              /\ type # "INVALID")
  BY <1>2 DEF protocol_decode_body
<1> QED BY <1>1, <1>2

\* A sequence of the wrong length is no frame.
LEMMA WrongLengthIsInvalid ==
  ASSUME NEW f \in Seq(Byte),
         \/ Len(f) < TypeLength + 9
         \/ Len(f) # HexByte(f[2], f[3]) + 8
  PROVE  ValidateBytes(f) = NoMessage
BY ProtocolFacts DEF ValidateBytes, WellFormed

\* HasLen is what it says.
LEMMA HasLenIsLen ==
  ASSUME NEW s \in Seq(Byte), NEW k \in Nat
  PROVE  HasLen(s, k) <=> Len(s) = k
<1>1. PICK n \in Nat : n = Len(s)
  BY LenProperties
<1>2. HasLen(s, k) <=> n = k
  BY <1>1 DEF HasLen
<1> QED BY <1>1, <1>2, Zenon

-----------------------------------------------------------------------------
(* The invariant. *)

LEMMA InitInv == Init => IInv
<1> SUFFICES ASSUME Init PROVE IInv
  OBVIOUS
<1>1. TypeOK
  BY ProtocolFacts DEF Init, TypeOK, States, Results, Byte, NUL, MaxBody
<1>2. ValidateBytes(window) = NoMessage
  <2>1. << >> \in Seq(Byte) /\ Len(<< >>) = 0
    BY EmptySeq
  <2>2. Len(<< >>) < TypeLength + 9
    BY <2>1, ProtocolFacts
  <2> QED BY <2>1, <2>2, WrongLengthIsInvalid DEF Init
<1> QED BY <1>1, <1>2, ProtocolFacts DEF Init, IInv, Progress, MaxBody

\* While a frame is being read its window is too short to be a frame.
LEMMA WindowBounds ==
  ASSUME IInv, state # "WAIT_START"
  PROVE  /\ window \in Seq(Byte)
         /\ Len(window) \in 1 .. MaxBody + 7
         /\ state \in AfterLength =>
              Len(window) \in 3 .. expected_body_length + 7
         /\ state \in AfterLength \ {"EXPECT_END"} =>
              Len(window) < expected_body_length + 7
         /\ state \notin AfterLength => Len(window) < 3
<1>1. /\ state \in States /\ expected_body_length \in Nat
      /\ window \in Seq(Byte) /\ Len(window) \in Nat /\ Len(body) \in Nat
  BY DEF IInv, TypeOK
<1>2. /\ WindowHas
      /\ state = "READ_BODY" => Len(body) < expected_body_length
      /\ state \in AfterLength => expected_body_length \in TypeLength + 1 .. MaxBody
  BY DEF IInv, Progress, Reading, LengthRead
<1>3. MaxBody \in Nat /\ TypeLength \in Nat /\ MaxBody >= 1
  BY Widths
<1>4. CASE state \in {"READ_LEN_HI", "READ_LEN_LO"}
  BY <1>1, <1>2, <1>3, <1>4 DEF WindowHas, HasLen, AfterLength, States
<1>5. CASE state \in AfterLength
  <2>1. Len(window) \in 3 .. expected_body_length + 7
    BY <1>1, <1>2, <1>3, <1>5 DEF WindowHas, HasLen, AfterLength, States
  <2>2. state # "EXPECT_END" => Len(window) < expected_body_length + 7
    BY <1>1, <1>2, <1>3, <1>5 DEF WindowHas, HasLen, AfterLength, States
  <2> QED BY <1>1, <1>2, <1>3, <1>5, <2>1, <2>2
<1> QED BY <1>1, <1>4, <1>5 DEF AfterLength, States

\* One more byte does not make it a frame either, unless the byte is the one
\* EXPECT_END waits for.
LEMMA LongerIsInvalid ==
  ASSUME IInv, state # "WAIT_START",
         NEW f \in Seq(Byte), Len(f) = Len(window) + 1,
         \A i \in 1..Len(window) : f[i] = window[i],
         state # "EXPECT_END" \/ f[Len(f)] # END
  PROVE  ValidateBytes(f) = NoMessage
<1> USE ProtocolFacts
<1>1. CASE state \notin AfterLength
  <2>1. Len(f) < TypeLength + 9
    BY <1>1, WindowBounds
  <2> QED BY <2>1, WrongLengthIsInvalid
<1>2. CASE state = "EXPECT_END"
  BY <1>2 DEF ValidateBytes, WellFormed
<1>3. CASE state \in AfterLength \ {"EXPECT_END"}
  <2>1. LengthRead
    BY <1>3 DEF IInv, Progress, Reading, AfterLength
  <2>2. HexByte(f[2], f[3]) = expected_body_length
    BY <1>3, <2>1, WindowBounds DEF LengthRead
  <2>3. Len(f) # HexByte(f[2], f[3]) + 8
    BY <1>3, <2>1, <2>2, WindowBounds DEF LengthRead
  <2> QED BY <2>3, WrongLengthIsInvalid
<1> QED BY <1>1, <1>2, <1>3

LEMMA AppendIsInvalid ==
  ASSUME IInv, state # "WAIT_START", NEW b \in Byte,
         state # "EXPECT_END" \/ b # END
  PROVE  ValidateBytes(Append(window, b)) = NoMessage
<1>1. window \in Seq(Byte) /\ Len(window) \in Nat
  BY WindowBounds
<1>2. /\ Append(window, b) \in Seq(Byte)
      /\ Len(Append(window, b)) = Len(window) + 1
      /\ \A i \in 1..Len(window) : Append(window, b)[i] = window[i]
      /\ Append(window, b)[Len(Append(window, b))] = b
  BY <1>1, AppendProperties
<1> QED BY <1>2, LongerIsInvalid

-----------------------------------------------------------------------------
(* The steps. *)

\* A frame that is abandoned leaves nothing behind.
LEMMA ErrorStep ==
  ASSUME IInv, NEW b \in Byte, byte' = b, parser_error(b),
         state # "WAIT_START", state # "EXPECT_END" \/ b # END
  PROVE  IInv'
<1>1. TypeOK'
  <2>1. TypeOK
    BY DEF IInv
  <2>2. window' \in Seq(Byte)
    <3>1. Append(window, b) \in Seq(Byte)
      BY <2>1, AppendProperties DEF TypeOK
    <3>2. <<START>> \in Seq(Byte)
      BY DEF Byte, START
    <3> QED BY <3>1, <3>2 DEF parser_error
  <2>3. message' \in Message \union {NoMessage} /\ result' \in Results
    BY DEF parser_error, Return, Results
  <2>4. /\ state' \in States /\ expected_body_length' = 0
        /\ length_field' = << >> /\ body' = << >> /\ checksum_field' = << >>
    BY DEF parser_error, parser_reset, ResetTo, States
  <2>5. << >> \in Seq(Byte) /\ Len(<< >>) = 0 /\ 0 \in 0..MaxBody
    BY EmptySeq, Widths
  <2> QED BY <2>2, <2>3, <2>4, <2>5 DEF TypeOK
<1>2. CASE b = START
  <2>1. /\ state' = "READ_LEN_HI" /\ window' = <<START>> /\ body' = << >>
        /\ result' = "ERROR" /\ message' = NoMessage
    BY <1>2 DEF parser_error, ResetTo, Return, parser_reset
  <2>2. Reading'
    BY <2>1 DEF Reading, WindowHas, HasLen, AfterLength, AfterSeparator, AfterBody,
                AfterCheckSep, States
  <2> QED BY <1>1, <2>1, <2>2 DEF IInv, Progress
<1>3. CASE b # START
  <2>1. /\ state' = "WAIT_START" /\ window' = Append(window, b)
        /\ body' = << >> /\ result' = "ERROR" /\ message' = NoMessage
    BY <1>3 DEF parser_error, ResetTo, Return, parser_reset
  <2>2. ValidateBytes(window') = NoMessage
    BY <2>1, AppendIsInvalid
  <2>3. Len(window') <= MaxBody + 8
    BY <2>1, WindowBounds, Widths, AppendProperties
  <2> QED BY <1>1, <2>1, <2>2, <2>3 DEF IInv, Progress
<1> QED BY <1>2, <1>3

\* A byte that continues the frame is added to the window.
LEMMA WindowGrows ==
  ASSUME IInv, NEW b \in Byte, state # "WAIT_START", InProgress(b)
  PROVE  /\ window' \in Seq(Byte)
         /\ Len(window') \in Nat
         /\ Len(window') = Len(window) + 1
         /\ \A i \in 1..Len(window) : window'[i] = window[i]
         /\ window'[Len(window) + 1] = b
         /\ result' = "IN_PROGRESS" /\ message' = NoMessage
<1>1. window \in Seq(Byte) /\ window' = Append(window, b)
  BY DEF IInv, TypeOK, InProgress
<1>2. window' \in Seq(Byte) /\ Len(window') = Len(window) + 1
  BY <1>1, AppendProperties
<1> QED BY <1>1, <1>2, AppendProperties DEF InProgress, Return

LEMMA ReadLenHiStep ==
  ASSUME IInv, NEW b \in Byte, byte' = b, ReadLenHi(b)
  PROVE  IInv'
<1>1. CASE ~IsHex(b)
  BY <1>1, ErrorStep DEF ReadLenHi
<1>2. CASE IsHex(b)
  <2>1. /\ state = "READ_LEN_HI" /\ state' = "READ_LEN_LO" /\ InProgress(b)
        /\ length_field' = <<b>> /\ body' = body
        /\ checksum_field' = checksum_field
        /\ expected_body_length' = expected_body_length
    BY <1>2 DEF ReadLenHi, parser_error
  <2>2. /\ HasLen(window, 1) /\ window[1] = START /\ body = << >> /\ TypeOK
    BY <2>1 DEF IInv, Progress, Reading, WindowHas, AfterSeparator, AfterLength
  <2>3. TypeOK'
    BY <2>1, <2>2, WindowGrows DEF TypeOK, States, Results
  <2>4. Reading'
    BY <2>1, <2>2, <1>2, WindowGrows
       DEF Reading, WindowHas, HasLen, AfterLength, AfterSeparator, AfterBody,
           AfterCheckSep, TypeOK
  <2> QED BY <2>1, <2>3, <2>4, WindowGrows DEF IInv, Progress
<1> QED BY <1>1, <1>2

LEMMA ReadLenLoStep ==
  ASSUME IInv, NEW b \in Byte, byte' = b, ReadLenLo(b)
  PROVE  IInv'
<1> DEFINE length == HexByte(length_field[1], b)
<1>1. CASE ~IsHex(b) \/ length \notin TypeLength + 1 .. MaxBody
  BY <1>1, ErrorStep DEF ReadLenLo
<1>2. CASE IsHex(b) /\ length \in TypeLength + 1 .. MaxBody
  <2>1. /\ state = "READ_LEN_LO" /\ state' = "EXPECT_LEN_SEPARATOR"
        /\ InProgress(b)
        /\ length_field' = Append(length_field, b) /\ body' = body
        /\ checksum_field' = checksum_field
        /\ expected_body_length' = length
    BY <1>2 DEF ReadLenLo
  <2>2. /\ HasLen(window, 2) /\ window[1] = START /\ body = << >> /\ TypeOK
        /\ HasLen(length_field, 1) /\ IsHex(length_field[1])
        /\ window[2] = length_field[1]
    BY <2>1 DEF IInv, Progress, Reading, WindowHas, AfterSeparator, AfterLength
  <2>3. /\ length_field' \in Seq(Byte) /\ HasLen(length_field', 2)
        /\ length_field'[1] = length_field[1] /\ length_field'[2] = b
    BY <2>1, <2>2, AppendProperties DEF HasLen, TypeOK
  <2>4. TypeOK'
    BY <2>1, <2>2, <2>3, <1>2, WindowGrows, Widths DEF TypeOK, HasLen, States, Results
  <2>5. LengthRead'
    BY <2>1, <2>2, <2>3, <1>2, WindowGrows DEF LengthRead, HasLen, TypeOK
  <2>6. Reading'
    BY <2>1, <2>2, <2>5, WindowGrows
       DEF Reading, WindowHas, HasLen, AfterLength, AfterSeparator, AfterBody,
           AfterCheckSep, TypeOK
  <2> QED BY <2>1, <2>4, <2>6, WindowGrows DEF IInv, Progress
<1> QED BY <1>1, <1>2

\* What IInv says of the window in the states after the length.
LEMMA AfterLengthFacts ==
  ASSUME IInv, state \in AfterLength
  PROVE  /\ TypeOK /\ LengthRead /\ WindowHas /\ window[1] = START
         /\ result # "MESSAGE_READY" /\ message = NoMessage
         /\ state # "EXPECT_LEN_SEPARATOR" => BodyRead
         /\ state = "EXPECT_LEN_SEPARATOR" => body = << >>
         /\ state = "READ_BODY" => Len(body) < expected_body_length
         /\ state \in AfterBody => HasLen(body, expected_body_length)
BY DEF IInv, Progress, Reading, AfterLength, AfterSeparator

LEMMA ExpectLenSeparatorStep ==
  ASSUME IInv, NEW b \in Byte, byte' = b, ExpectLenSeparator(b)
  PROVE  IInv'
<1>1. CASE b # SEP
  BY <1>1, ErrorStep DEF ExpectLenSeparator
<1>2. CASE b = SEP
  <2>1. /\ state = "EXPECT_LEN_SEPARATOR" /\ state' = "READ_BODY"
        /\ InProgress(b) /\ body' = << >>
        /\ UNCHANGED <<length_field, checksum_field, expected_body_length>>
    BY <1>2 DEF ExpectLenSeparator, parser_error
  <2>2. TypeOK /\ LengthRead /\ HasLen(window, 3) /\ window[1] = START
    BY <2>1, AfterLengthFacts DEF WindowHas, AfterLength, States
  <2>3. TypeOK'
    BY <2>1, <2>2, WindowGrows DEF TypeOK, States, Results
  <2>4. LengthRead'
    BY <2>1, <2>2, WindowGrows DEF LengthRead, HasLen, TypeOK
  <2>5. BodyRead' /\ WindowHas' /\ Len(body') < expected_body_length'
    BY <2>1, <2>2, <1>2, WindowGrows, Widths
       DEF BodyRead, WindowHas, HasLen, LengthRead, TypeOK
  <2>6. window'[1] = START
    <3>1. 1 \in 1..Len(window)
      BY <2>2 DEF HasLen, TypeOK
    <3> QED BY <2>1, <2>2, <3>1, WindowGrows
  <2>7. Reading'
    BY <2>1, <2>4, <2>5, <2>6
       DEF Reading, AfterLength, AfterSeparator, AfterBody, AfterCheckSep
  <2> QED BY <2>1, <2>3, <2>7, WindowGrows DEF IInv, Progress
<1> QED BY <1>1, <1>2

LEMMA ReadBodyStep ==
  ASSUME IInv, NEW b \in Byte, byte' = b, ReadBody(b)
  PROVE  IInv'
<1>1. /\ state = "READ_BODY" /\ state' \in {"READ_BODY", "EXPECT_CHECK_SEPARATOR"}
      /\ state' = "READ_BODY" <=> ~(Len(body') >= expected_body_length)
      /\ InProgress(b) /\ body' = Append(body, b)
      /\ UNCHANGED <<length_field, checksum_field, expected_body_length>>
  BY DEF ReadBody
<1>2. /\ TypeOK /\ LengthRead /\ BodyRead /\ Len(body) < expected_body_length
      /\ HasLen(window, 4 + Len(body)) /\ window[1] = START
  BY <1>1, AfterLengthFacts DEF WindowHas, AfterLength, States
<1>3. /\ body' \in Seq(Byte) /\ Len(body') = Len(body) + 1
      /\ \A i \in 1..Len(body) : body'[i] = body[i]
      /\ body'[Len(body) + 1] = b
  BY <1>1, <1>2, AppendProperties DEF TypeOK
<1>4. /\ Len(body) \in Nat /\ expected_body_length \in Nat /\ Len(window) \in Nat
      /\ Len(window) = 4 + Len(body)
  BY <1>2 DEF TypeOK, HasLen
<1>5. TypeOK'
  BY <1>1, <1>2, <1>3, WindowGrows DEF TypeOK, States, Results
<1>6. LengthRead'
  BY <1>1, <1>2, <1>4, WindowGrows DEF LengthRead, HasLen
<1>7. BodyRead'
  <2>1. window'[4] = SEP
    BY <1>1, <1>2, <1>4, WindowGrows DEF BodyRead
  <2>2. ASSUME NEW i \in 1..Len(body')
        PROVE  window'[4 + i] = body'[i]
    <3>1. CASE i \in 1..Len(body)
      BY <1>1, <1>2, <1>3, <1>4, <3>1, WindowGrows DEF BodyRead
    <3>2. CASE i = Len(body) + 1
      BY <1>1, <1>3, <1>4, <3>2, WindowGrows
    <3> QED BY <1>3, <1>4, <3>1, <3>2
  <2> QED BY <2>1, <2>2 DEF BodyRead
<1>8. WindowHas' /\ Len(body') <= expected_body_length'
  <2>1. HasLen(window', 4 + Len(body'))
    BY <1>1, <1>3, <1>4, WindowGrows DEF HasLen
  <2>2. Len(body') <= expected_body_length'
    BY <1>1, <1>2, <1>3, <1>4
  <2>3. state' = "EXPECT_CHECK_SEPARATOR" =>
          HasLen(window', 4 + expected_body_length')
    BY <1>1, <1>3, <1>4, <2>1, <2>2 DEF HasLen
  <2> QED BY <1>1, <2>1, <2>2, <2>3 DEF WindowHas
<1>9. window'[1] = START
  BY <1>1, <1>2, <1>4, WindowGrows
<1>10. /\ state' = "READ_BODY" => Len(body') < expected_body_length'
       /\ state' # "READ_BODY" => HasLen(body', expected_body_length')
  BY <1>1, <1>3, <1>4, <1>8 DEF HasLen
<1>11. Reading'
  BY <1>1, <1>6, <1>7, <1>8, <1>9, <1>10
     DEF Reading, AfterLength, AfterSeparator, AfterBody, AfterCheckSep, States
<1> QED BY <1>1, <1>5, <1>11, WindowGrows DEF IInv, Progress

\* The facts the last states share, in a form that survives one more byte.
LEMMA AfterBodyFacts ==
  ASSUME IInv, state \in AfterBody
  PROVE  /\ TypeOK /\ LengthRead /\ BodyRead /\ WindowHas
         /\ HasLen(body, expected_body_length)
         /\ window[1] = START /\ message = NoMessage
         /\ Len(window) \in Nat /\ Len(window) >= 4 + expected_body_length
         /\ expected_body_length \in Nat /\ Len(body) \in Nat
         /\ state # "EXPECT_CHECK_SEPARATOR" => window[5 + expected_body_length] = SEP
         /\ state \in {"READ_CHECK_LO", "EXPECT_END"} => CheckHiRead
         /\ state = "READ_CHECK_LO" => HasLen(checksum_field, 1)
         /\ state = "EXPECT_END" => CheckLoRead
<1>1. state \in AfterLength
  BY DEF AfterBody, AfterSeparator
<1>2. /\ TypeOK /\ LengthRead /\ BodyRead /\ WindowHas
      /\ HasLen(body, expected_body_length)
      /\ window[1] = START /\ message = NoMessage
  BY <1>1, AfterLengthFacts DEF AfterBody, AfterSeparator
<1>3. Len(window) \in Nat /\ expected_body_length \in Nat /\ Len(body) \in Nat
  BY <1>2 DEF TypeOK
<1>4. Len(window) >= 4 + expected_body_length
  BY <1>2, <1>3 DEF WindowHas, HasLen, AfterBody, AfterSeparator, AfterLength, States
<1> QED BY <1>1, <1>2, <1>3, <1>4
        DEF IInv, Progress, Reading, AfterBody, AfterSeparator, AfterLength,
            AfterCheckSep, States

LEMMA AfterBodyKept ==
  ASSUME IInv, state \in AfterBody, NEW b \in Byte, InProgress(b),
         UNCHANGED <<length_field, body, expected_body_length>>
  PROVE  LengthRead' /\ BodyRead' /\ window'[1] = START
<1>1. /\ TypeOK /\ LengthRead /\ BodyRead /\ window[1] = START
      /\ Len(window) \in Nat /\ Len(window) >= 4 + expected_body_length
      /\ expected_body_length \in Nat /\ HasLen(body, expected_body_length)
      /\ Len(body) \in Nat /\ state # "WAIT_START"
  BY AfterBodyFacts DEF AfterBody, AfterSeparator, AfterLength
<1>2. \A i \in 1 .. 4 + expected_body_length : window'[i] = window[i]
  BY <1>1, WindowGrows
<1>3. LengthRead'
  BY <1>1, <1>2 DEF LengthRead, HasLen
<1>4. BodyRead'
  BY <1>1, <1>2 DEF BodyRead, HasLen
<1> QED BY <1>1, <1>2, <1>3, <1>4

LEMMA ExpectCheckSeparatorStep ==
  ASSUME IInv, NEW b \in Byte, byte' = b, ExpectCheckSeparator(b)
  PROVE  IInv'
<1>1. CASE b # SEP
  BY <1>1, ErrorStep DEF ExpectCheckSeparator
<1>2. CASE b = SEP
  <2>1. /\ state = "EXPECT_CHECK_SEPARATOR" /\ state' = "READ_CHECK_HI"
        /\ InProgress(b)
        /\ UNCHANGED <<length_field, body, checksum_field, expected_body_length>>
    BY <1>2 DEF ExpectCheckSeparator
  <2>2. state \in AfterBody
    BY <2>1 DEF AfterBody, AfterSeparator, AfterLength, States
  <2>3. /\ TypeOK /\ HasLen(body, expected_body_length)
        /\ HasLen(window, 4 + expected_body_length)
        /\ expected_body_length \in Nat /\ Len(window) \in Nat
    BY <2>1, <2>2, AfterBodyFacts DEF WindowHas
  <2>4. LengthRead' /\ BodyRead' /\ window'[1] = START
    BY <2>1, <2>2, AfterBodyKept
  <2>5. TypeOK'
    BY <2>1, <2>3, WindowGrows DEF TypeOK, States, Results
  <2>6. /\ WindowHas' /\ HasLen(body', expected_body_length')
        /\ window'[5 + expected_body_length'] = SEP
    BY <1>2, <2>1, <2>3, WindowGrows DEF WindowHas, HasLen
  <2>7. Reading'
    BY <2>1, <2>4, <2>6
       DEF Reading, AfterLength, AfterSeparator, AfterBody, AfterCheckSep, States
  <2> QED BY <2>1, <2>5, <2>7, WindowGrows DEF IInv, Progress
<1> QED BY <1>1, <1>2

LEMMA ReadCheckHiStep ==
  ASSUME IInv, NEW b \in Byte, byte' = b, ReadCheckHi(b)
  PROVE  IInv'
<1>1. CASE ~IsHex(b)
  BY <1>1, ErrorStep DEF ReadCheckHi
<1>2. CASE IsHex(b)
  <2>1. /\ state = "READ_CHECK_HI" /\ state' = "READ_CHECK_LO"
        /\ InProgress(b) /\ checksum_field' = <<b>>
        /\ UNCHANGED <<length_field, body, expected_body_length>>
    BY <1>2 DEF ReadCheckHi
  <2>2. state \in AfterBody
    BY <2>1 DEF AfterBody, AfterSeparator, AfterLength, States
  <2>3. /\ TypeOK /\ HasLen(body, expected_body_length)
        /\ HasLen(window, 5 + expected_body_length)
        /\ window[5 + expected_body_length] = SEP
        /\ expected_body_length \in Nat /\ Len(window) \in Nat
    BY <2>1, <2>2, AfterBodyFacts DEF WindowHas
  <2>4. LengthRead' /\ BodyRead' /\ window'[1] = START
    BY <2>1, <2>2, AfterBodyKept
  <2>5. TypeOK'
    BY <2>1, <2>3, WindowGrows DEF TypeOK, States, Results
  <2>6. /\ WindowHas' /\ HasLen(body', expected_body_length')
        /\ window'[5 + expected_body_length'] = SEP
    BY <2>1, <2>3, WindowGrows DEF WindowHas, HasLen
  <2>7. HasLen(checksum_field', 1) /\ checksum_field'[1] = b
    BY <2>1 DEF HasLen
  <2>8. CheckHiRead'
    BY <1>2, <2>1, <2>3, <2>7, WindowGrows DEF CheckHiRead, HasLen
  <2>9. Reading'
    BY <2>1, <2>4, <2>6, <2>7, <2>8
       DEF Reading, AfterLength, AfterSeparator, AfterBody, AfterCheckSep, States
  <2> QED BY <2>1, <2>5, <2>9, WindowGrows DEF IInv, Progress
<1> QED BY <1>1, <1>2

LEMMA ReadCheckLoStep ==
  ASSUME IInv, NEW b \in Byte, byte' = b, ReadCheckLo(b)
  PROVE  IInv'
<1>1. CASE ~IsHex(b)
  BY <1>1, ErrorStep DEF ReadCheckLo
<1>2. CASE IsHex(b)
  <2>1. /\ state = "READ_CHECK_LO" /\ state' = "EXPECT_END"
        /\ InProgress(b) /\ checksum_field' = Append(checksum_field, b)
        /\ UNCHANGED <<length_field, body, expected_body_length>>
    BY <1>2 DEF ReadCheckLo
  <2>2. state \in AfterBody
    BY <2>1 DEF AfterBody, AfterSeparator, AfterLength, States
  <2>3. /\ TypeOK /\ HasLen(body, expected_body_length)
        /\ HasLen(window, 6 + expected_body_length)
        /\ window[5 + expected_body_length] = SEP
        /\ expected_body_length \in Nat /\ Len(window) \in Nat
        /\ CheckHiRead /\ HasLen(checksum_field, 1)
    BY <2>1, <2>2, AfterBodyFacts DEF WindowHas
  <2>4. LengthRead' /\ BodyRead' /\ window'[1] = START
    BY <2>1, <2>2, AfterBodyKept
  <2>5. /\ checksum_field' \in Seq(Byte) /\ HasLen(checksum_field', 2)
        /\ checksum_field'[1] = checksum_field[1] /\ checksum_field'[2] = b
    BY <2>1, <2>3, AppendProperties DEF HasLen, TypeOK
  <2>6. TypeOK'
    BY <2>1, <2>3, <2>5, WindowGrows DEF TypeOK, HasLen, States, Results
  <2>7. /\ WindowHas' /\ HasLen(body', expected_body_length')
        /\ window'[5 + expected_body_length'] = SEP
    BY <2>1, <2>3, WindowGrows DEF WindowHas, HasLen
  <2>8. CheckHiRead' /\ CheckLoRead'
    BY <1>2, <2>1, <2>3, <2>5, WindowGrows DEF CheckHiRead, CheckLoRead, HasLen
  <2>9. Reading'
    BY <2>1, <2>4, <2>7, <2>8
       DEF Reading, AfterLength, AfterSeparator, AfterBody, AfterCheckSep, States
  <2> QED BY <2>1, <2>6, <2>9, WindowGrows DEF IInv, Progress
<1> QED BY <1>1, <1>2

\* The data the parser computes the checksum over.
LEMMA LengthSepBody ==
  ASSUME NEW l \in Seq(Byte), NEW s \in Seq(Byte), NEW n \in Nat,
         HasLen(l, 2), HasLen(s, n)
  PROVE  /\ l \o <<SEP>> \o s \in Seq(Byte)
         /\ HasLen(l \o <<SEP>> \o s, n + 3)
         /\ (l \o <<SEP>> \o s)[1] = l[1]
         /\ (l \o <<SEP>> \o s)[2] = l[2]
         /\ (l \o <<SEP>> \o s)[3] = SEP
         /\ \A i \in 1..n : (l \o <<SEP>> \o s)[3 + i] = s[i]
<1> DEFINE head == l \o <<SEP>>
<1>1. SEP \in Byte
  BY DEF SEP, Byte
<1>2. /\ head \in Seq(Byte) /\ HasLen(head, 3)
      /\ head[1] = l[1] /\ head[2] = l[2] /\ head[3] = SEP
  BY <1>1 DEF HasLen
<1> HIDE DEF head
<1>3. head \o s \in Seq(Byte) /\ HasLen(head \o s, n + 3)
  BY <1>2 DEF HasLen
<1>4. \A i \in 1..n : (head \o s)[3 + i] = s[i]
  BY <1>2 DEF HasLen
<1>5. /\ (head \o s)[1] = head[1] /\ (head \o s)[2] = head[2]
      /\ (head \o s)[3] = head[3]
  BY <1>2 DEF HasLen
<1> QED BY <1>2, <1>3, <1>4, <1>5 DEF head

\* Sequences with the same length and elements are equal.
LEMMA SameSequence ==
  ASSUME NEW s \in Seq(Byte), NEW t \in Seq(Byte), NEW n \in Nat,
         HasLen(s, n), HasLen(t, n), \A i \in 1..n : s[i] = t[i]
  PROVE  s = t
<1>1. Len(s) = n /\ Len(t) = n
  BY HasLenIsLen
<1> QED BY <1>1, SeqEqual

\* The bytes the checksum of a frame covers, and the body in it.
LEMMA ChecksumStretch ==
  ASSUME NEW f \in Seq(Byte), NEW d \in Seq(Byte), NEW n \in Nat,
         NEW l \in Seq(Byte), NEW b \in Seq(Byte),
         HasLen(f, n + 8), HasLen(d, n + 3),
         d[1] = l[1], d[2] = l[2], d[3] = SEP, \A i \in 1..n : d[3 + i] = b[i],
         f[2] = l[1], f[3] = l[2], f[4] = SEP, \A i \in 1..n : f[4 + i] = b[i]
  PROVE  SubSeq(f, 2, n + 4) = d
<1> DEFINE g == SubSeq(f, 2, n + 4)
<1>1. \A i \in 2 .. n + 4 : f[i] \in Byte
  BY DEF HasLen
<1>2. g \in Seq(Byte)
  BY <1>1, SubSeqProperties
<1>3. HasLen(g, n + 3)
  BY <1>1, SubSeqProperties DEF HasLen
<1>4. \A i \in 1 .. n + 3 : g[i] = f[1 + i]
  BY <1>1, SubSeqProperties
<1> HIDE DEF g
<1>5. ASSUME NEW i \in 1 .. n + 3
      PROVE  g[i] = d[i]
  <2>0. g[i] = f[1 + i]
    BY <1>4
  <2>1. CASE i \in 1..3
    <3>1. CASE i = 1
      <4>1. g[1] = f[2]
        BY <2>0, <3>1
      <4> QED BY <3>1, <4>1
    <3>2. CASE i = 2
      <4>1. g[2] = f[3]
        BY <2>0, <3>2
      <4> QED BY <3>2, <4>1
    <3>3. CASE i = 3
      <4>1. g[3] = f[4]
        BY <2>0, <3>3
      <4> QED BY <3>3, <4>1
    <3> QED BY <2>1, <3>1, <3>2, <3>3
  <2>2. CASE i \in 4 .. n + 3
    <3>1. i - 3 \in 1..n /\ i = 3 + (i - 3) /\ 1 + i = 4 + (i - 3)
      BY <2>2
    <3>2. g[i] = f[4 + (i - 3)] /\ d[i] = b[i - 3]
      BY <1>4, <3>1
    <3> QED BY <3>1, <3>2
  <2>3. i \in 1..3 \/ i \in 4 .. n + 3
    OBVIOUS
  <2> QED BY <2>1, <2>2, <2>3, Zenon
<1>6. g = d
  BY <1>2, <1>3, <1>5, SameSequence
<1> QED BY <1>6 DEF g

LEMMA BodyStretch ==
  ASSUME NEW f \in Seq(Byte), NEW b \in Seq(Byte), NEW n \in Nat, n >= 1,
         HasLen(f, n + 8), HasLen(b, n), \A i \in 1..n : f[4 + i] = b[i]
  PROVE  SubSeq(f, 5, n + 4) = b
<1> DEFINE g == SubSeq(f, 5, n + 4)
<1>1. \A i \in 5 .. n + 4 : f[i] \in Byte
  BY DEF HasLen
<1>2. g \in Seq(Byte)
  BY <1>1, SubSeqProperties
<1>3. HasLen(g, n)
  BY <1>1, SubSeqProperties DEF HasLen
<1>4. \A i \in 1..n : g[i] = f[4 + i]
  BY <1>1, SubSeqProperties
<1> HIDE DEF g
<1>5. g = b
  BY <1>2, <1>3, <1>4, SameSequence
<1> QED BY <1>5 DEF g

\* The frame f is '@', the length l, a body b of n bytes, the checksum
\* digits c and the end character, with the separators in their places.
HasParts(f, l, b, c, n) ==
  /\ HasLen(f, n + 8) /\ HasLen(l, 2) /\ HasLen(b, n)
  /\ IsHex(l[1]) /\ IsHex(l[2]) /\ IsHex(c[1]) /\ IsHex(c[2])
  /\ HexByte(l[1], l[2]) = n
  /\ f[1] = START /\ f[2] = l[1] /\ f[3] = l[2] /\ f[4] = SEP
  /\ \A i \in 1..n : f[4 + i] = b[i]
  /\ f[n + 5] = SEP /\ f[n + 6] = c[1] /\ f[n + 7] = c[2] /\ f[n + 8] = END

\* protocol_validate_frame on a frame whose parts have the right shape: the
\* checksum decides, and the message is the one the body holds.
LEMMA ValidateParts ==
  ASSUME NEW f \in Seq(Byte), NEW l \in Seq(Byte), NEW b \in Seq(Byte),
         NEW c, NEW n \in TypeLength + 1 .. MaxBody,
         HasParts(f, l, b, c, n)
  PROVE  ValidateBytes(f) =
           IF protocol_compute_checksum(l \o <<SEP>> \o b) = HexByte(c[1], c[2])
           THEN protocol_decode_body(b) ELSE NoMessage
<1>1. n \in Nat /\ n >= 2 /\ n + 3 \in Nat /\ n + 4 \in Nat /\ n + 8 \in Nat
  BY Widths
<1>2. SubSeq(f, 2, n + 4) = l \o <<SEP>> \o b
  <2>1. PICK d : d = l \o <<SEP>> \o b
    OBVIOUS
  <2>2. d \in Seq(Byte) /\ HasLen(d, n + 3)
    BY <1>1, <2>1, LengthSepBody, Zenon DEF HasParts
  <2>3. d[1] = l[1] /\ d[2] = l[2] /\ d[3] = SEP
    BY <1>1, <2>1, LengthSepBody, Zenon DEF HasParts
  <2>4. \A i \in 1..n : d[3 + i] = b[i]
    <3>1. \A i \in 1..n : (l \o <<SEP>> \o b)[3 + i] = b[i]
      <4>1. HasLen(l, 2) /\ HasLen(b, n)
        BY Zenon DEF HasParts
      <4> QED BY <1>1, <4>1, LengthSepBody, Zenon
    <3> QED BY <2>1, <3>1, Zenon
  <2>5. SubSeq(f, 2, n + 4) = d
    <3>1. /\ HasLen(f, n + 8)
          /\ f[2] = l[1] /\ f[3] = l[2] /\ f[4] = SEP
          /\ \A i \in 1..n : f[4 + i] = b[i]
      BY DEF HasParts
    <3> QED BY <1>1, <2>2, <2>3, <2>4, <3>1, ChecksumStretch, Zenon
  <2> QED BY <2>1, <2>5
<1>3. SubSeq(f, 5, n + 4) = b
  <2>1. n >= 1
    BY <1>1
  <2> QED BY <1>1, <2>1, BodyStretch, Zenon DEF HasParts
<1>4. Len(f) = n + 8
  BY <1>1, HasLenIsLen, Zenon DEF HasParts
<1>5. f[Len(f)] = END /\ Len(f) >= TypeLength + 9 /\ Len(f) - 4 = n + 4
  <2>1. n + 8 >= TypeLength + 9 /\ (n + 8) - 4 = n + 4
    BY <1>1, Widths
  <2> QED BY <1>4, <2>1, Zenon DEF HasParts
<1>6. WellFormed(f) <=>
        protocol_compute_checksum(l \o <<SEP>> \o b) = HexByte(c[1], c[2])
  BY <1>2, <1>4, <1>5, Zenon DEF WellFormed, HasParts
<1> QED BY <1>3, <1>5, <1>6, Zenon DEF ValidateBytes

\* The window of a complete frame passes exactly the tests EXPECT_END makes:
\* the two readings of the frame compute the same checksum and decode the same
\* body.
LEMMA CompleteFrame ==
  ASSUME IInv, state = "EXPECT_END",
         NEW f \in Seq(Byte), Len(f) = Len(window) + 1, f[Len(window) + 1] = END,
         \A i \in 1..Len(window) : f[i] = window[i]
  PROVE  ValidateBytes(f) = IF parser_checksum_matches
                            THEN protocol_decode_body(body) ELSE NoMessage
<1>1. state \in AfterBody
  BY DEF AfterBody, AfterSeparator, AfterLength, States
<1>2. PICK n : n = expected_body_length
  OBVIOUS
<1>3. /\ TypeOK /\ LengthRead /\ BodyRead /\ CheckHiRead /\ CheckLoRead
      /\ HasLen(body, n) /\ HasLen(window, 7 + n)
      /\ window[1] = START /\ window[5 + n] = SEP
  BY <1>1, <1>2, AfterBodyFacts DEF WindowHas
<1>4. /\ n \in TypeLength + 1 .. MaxBody
      /\ HasLen(length_field, 2) /\ IsHex(length_field[1]) /\ IsHex(length_field[2])
      /\ HexByte(length_field[1], length_field[2]) = n
      /\ IsHex(checksum_field[1]) /\ IsHex(checksum_field[2])
      /\ window[2] = length_field[1] /\ window[3] = length_field[2]
      /\ window[4] = SEP /\ \A i \in 1..Len(body) : window[4 + i] = body[i]
      /\ window[6 + n] = checksum_field[1] /\ window[7 + n] = checksum_field[2]
  BY <1>2, <1>3 DEF LengthRead, BodyRead, CheckHiRead, CheckLoRead
<1>5. n \in Nat /\ n >= 1 /\ Len(window) \in Nat /\ Len(body) \in Nat
  <2>1. n \in Nat /\ n >= 1
    BY <1>4, Widths
  <2>2. Len(window) \in Nat /\ Len(body) \in Nat
    BY <1>3 DEF TypeOK
  <2> QED BY <2>1, <2>2
<1>6. HasLen(f, n + 8) /\ f[n + 8] = END
  BY <1>3, <1>5 DEF HasLen
<1>7. \A i \in 1 .. n + 7 : f[i] = window[i]
  BY <1>3, <1>5 DEF HasLen
<1>8. /\ f[1] = START /\ f[2] = length_field[1] /\ f[3] = length_field[2]
      /\ f[4] = SEP
  BY <1>3, <1>4, <1>5, <1>7
<1>9. f[n + 5] = SEP /\ f[n + 6] = checksum_field[1] /\ f[n + 7] = checksum_field[2]
  BY <1>3, <1>4, <1>5, <1>7
<1>10. \A i \in 1..n : f[4 + i] = body[i]
  <2> SUFFICES ASSUME NEW i \in 1..n
               PROVE  f[4 + i] = body[i]
    OBVIOUS
  <2>1. 4 + i \in 1 .. n + 7 /\ i \in 1..Len(body)
    BY <1>3, <1>5 DEF HasLen
  <2> QED BY <1>4, <1>7, <2>1
<1>11. length_field \in Seq(Byte) /\ body \in Seq(Byte)
  BY <1>3 DEF TypeOK
<1>12. ValidateBytes(f) =
         IF protocol_compute_checksum(length_field \o <<SEP>> \o body)
              = HexByte(checksum_field[1], checksum_field[2])
         THEN protocol_decode_body(body) ELSE NoMessage
  <2>1. HasParts(f, length_field, body, checksum_field, n)
    BY <1>3, <1>4, <1>6, <1>8, <1>9, <1>10, Zenon DEF HasParts
  <2> QED BY <1>4, <1>11, <2>1, ValidateParts, ZenonT(60)
<1> QED BY <1>12, Zenon DEF parser_checksum_matches, parser_hex_byte

LEMMA ExpectEndStep ==
  ASSUME IInv, NEW b \in Byte, byte' = b, ExpectEnd(b)
  PROVE  IInv'
<1>1. CASE b # END
  BY <1>1, ErrorStep DEF ExpectEnd
<1>2. CASE b = END
  <2> DEFINE decoded == protocol_decode_body(body)
  <2>1. /\ state = "EXPECT_END" /\ state' = "WAIT_START"
        /\ window' = Append(window, END)
        /\ length_field' = << >> /\ body' = << >> /\ checksum_field' = << >>
        /\ expected_body_length' = 0
        /\ \/ /\ parser_checksum_matches /\ decoded # NoMessage
              /\ result' = "MESSAGE_READY" /\ message' = decoded
           \/ /\ ~parser_checksum_matches \/ decoded = NoMessage
              /\ result' = "ERROR" /\ message' = NoMessage
    BY <1>2 DEF ExpectEnd, parser_reset, ResetTo, Return
  <2>2. /\ window \in Seq(Byte) /\ body \in Seq(Byte) /\ END \in Byte
        /\ Len(window) \in 1 .. MaxBody + 7
    BY <2>1, WindowBounds DEF IInv, TypeOK, END, Byte
  <2>3. /\ window' \in Seq(Byte) /\ Len(window') = Len(window) + 1
        /\ window'[Len(window) + 1] = END
        /\ \A i \in 1..Len(window) : window'[i] = window[i]
    BY <2>1, <2>2, AppendProperties
  <2>4. ValidateBytes(window') =
          IF parser_checksum_matches THEN decoded ELSE NoMessage
    BY <2>1, <2>3, CompleteFrame
  <2>5. message' = ValidateBytes(window')
    BY <2>1, <2>4
  <2>6. result' = "MESSAGE_READY" <=> message' # NoMessage
    BY <2>1
  <2>7. decoded \in Message \union {NoMessage}
    BY <2>2, DecodeType
  <2>8. TypeOK'
    <3>1. << >> \in Seq(Byte) /\ Len(<< >>) = 0 /\ 0 \in 0..MaxBody
      BY EmptySeq, Widths
    <3>2. message' \in Message \union {NoMessage} /\ result' \in Results
      BY <2>1, <2>7 DEF Results
    <3> QED BY <2>1, <2>3, <3>1, <3>2 DEF TypeOK, States
  <2>9. Len(window') <= MaxBody + 8
    BY <2>2, <2>3, Widths
  <2> QED BY <2>1, <2>5, <2>6, <2>8, <2>9 DEF IInv, Progress
<1> QED BY <1>1, <1>2

\* A window of at most one byte is no frame.
LEMMA EmptyIsInvalid == ValidateBytes(<< >>) = NoMessage
<1>1. << >> \in Seq(Byte) /\ Len(<< >>) = 0
  BY EmptySeq
<1>2. Len(<< >>) < TypeLength + 9
  BY <1>1, Widths
<1> QED BY <1>1, <1>2, WrongLengthIsInvalid

LEMMA WaitStartStep ==
  ASSUME IInv, NEW b \in Byte, byte' = b, WaitStart(b)
  PROVE  IInv'
<1>1. /\ state = "WAIT_START" /\ TypeOK /\ body = << >>
      /\ result' = "IN_PROGRESS" /\ message' = NoMessage
      /\ UNCHANGED <<length_field, body, checksum_field, expected_body_length>>
  BY DEF WaitStart, Return, IInv, Progress
<1>2. CASE b = START
  <2>1. state' = "READ_LEN_HI" /\ window' = <<START>>
    BY <1>2 DEF WaitStart
  <2>2. TypeOK'
    BY <1>1, <2>1 DEF TypeOK, States, Results, Byte, START
  <2>3. Reading'
    BY <1>1, <2>1 DEF Reading, WindowHas, HasLen, AfterLength, AfterSeparator,
                      AfterBody, AfterCheckSep, States
  <2> QED BY <1>1, <2>1, <2>2, <2>3 DEF IInv, Progress
<1>3. CASE b # START
  <2>1. state' = state /\ window' = << >>
    BY <1>3 DEF WaitStart
  <2>2. TypeOK'
    BY <1>1, <2>1 DEF TypeOK, Results
  <2>3. Len(<< >>) <= MaxBody + 8
    BY EmptySeq, Widths
  <2> QED BY <1>1, <2>1, <2>2, <2>3, EmptyIsInvalid DEF IInv, Progress
<1> QED BY <1>2, <1>3

\* '\r' changes no field, so the window stays the one that was being read.
LEMMA CarriageReturnStep ==
  ASSUME IInv, NEW b \in Byte, byte' = b, IgnoreCarriageReturn(b)
  PROVE  IInv'
<1>1. /\ result' = "IN_PROGRESS" /\ message' = NoMessage /\ TypeOK
      /\ UNCHANGED <<state, length_field, body, checksum_field,
                     expected_body_length>>
  BY DEF IgnoreCarriageReturn, Return, parser_t, IInv
<1>2. CASE state = "WAIT_START"
  <2>1. window' = << >> /\ body = << >>
    BY <1>2 DEF IgnoreCarriageReturn, IInv, Progress
  <2>2. TypeOK'
    BY <1>1, <2>1 DEF TypeOK, Results
  <2>3. Len(<< >>) <= MaxBody + 8
    BY EmptySeq, Widths
  <2> QED BY <1>1, <1>2, <2>1, <2>2, <2>3, EmptyIsInvalid DEF IInv, Progress
<1>3. CASE state # "WAIT_START"
  <2>1. window' = window /\ Reading
    BY <1>3 DEF IgnoreCarriageReturn, IInv, Progress
  <2>2. TypeOK'
    BY <1>1, <2>1 DEF TypeOK, Results
  <2>3. Reading'
    BY <1>1, <2>1 DEF Reading, WindowHas, HasLen, LengthRead, BodyRead,
                      CheckHiRead, CheckLoRead
  <2> QED BY <1>1, <1>3, <2>2, <2>3 DEF IInv, Progress
<1> QED BY <1>2, <1>3

\* parser_consume_byte keeps the invariant, whatever the byte.
LEMMA ConsumeInv ==
  ASSUME IInv, NEW b \in Byte, parser_consume_byte(b)
  PROVE  IInv'
<1>1. byte' = b
  BY DEF parser_consume_byte
<1>2. CASE IgnoreCarriageReturn(b)
  BY <1>1, <1>2, CarriageReturnStep
<1>3. CASE WaitStart(b)
  BY <1>1, <1>3, WaitStartStep
<1>4. CASE ReadLenHi(b)
  BY <1>1, <1>4, ReadLenHiStep
<1>5. CASE ReadLenLo(b)
  BY <1>1, <1>5, ReadLenLoStep
<1>6. CASE ExpectLenSeparator(b)
  BY <1>1, <1>6, ExpectLenSeparatorStep
<1>7. CASE ReadBody(b)
  BY <1>1, <1>7, ReadBodyStep
<1>8. CASE ExpectCheckSeparator(b)
  BY <1>1, <1>8, ExpectCheckSeparatorStep
<1>9. CASE ReadCheckHi(b)
  BY <1>1, <1>9, ReadCheckHiStep
<1>10. CASE ReadCheckLo(b)
  BY <1>1, <1>10, ReadCheckLoStep
<1>11. CASE ExpectEnd(b)
  BY <1>1, <1>11, ExpectEndStep
<1> QED BY <1>2, <1>3, <1>4, <1>5, <1>6, <1>7, <1>8, <1>9, <1>10, <1>11
        DEF parser_consume_byte

LEMMA NextInv ==
  ASSUME IInv, [Next]_vars
  PROVE  IInv'
<1>1. CASE UNCHANGED vars
  BY <1>1 DEF vars, parser_t, IInv, TypeOK, Progress, Reading, WindowHas,
              HasLen, LengthRead, BodyRead, CheckHiRead, CheckLoRead
<1>2. CASE Next
  <2>1. PICK b \in Byte : parser_consume_byte(b)
    BY <1>2, InputAssumption DEF Next, InputOK
  <2> QED BY <2>1, ConsumeInv
<1> QED BY <1>1, <1>2

-----------------------------------------------------------------------------
(* What the invariant gives. *)

LEMMA InvImplies ==
  ASSUME IInv
  PROVE  TypeOK /\ BodyInBounds /\ AgreesWithValidateFrame /\ FrameIsBounded
<1>1. TypeOK
  BY DEF IInv
<1>2. BodyInBounds
  <2>1. /\ Len(body) \in Nat /\ state \in States
        /\ expected_body_length \in 0 .. MaxBody
    BY <1>1 DEF TypeOK
  <2>2. CASE state \in AfterSeparator
    <3>1. /\ state = "READ_BODY" => Len(body) < expected_body_length
          /\ state \in AfterBody => HasLen(body, expected_body_length)
      BY <2>2, AfterLengthFacts DEF AfterSeparator
    <3> QED BY <2>1, <2>2, <3>1, Widths DEF BodyInBounds, BodySize, AfterBody, HasLen
  <2>3. CASE state \notin AfterSeparator
    <3>1. body = << >>
      BY <2>3 DEF IInv, Progress, Reading
    <3>2. Len(body) = 0
      BY <3>1, EmptySeq
    <3> QED BY <2>1, <2>3, <3>2, Widths
            DEF BodyInBounds, BodySize, AfterSeparator, AfterLength, States
  <2> QED BY <2>2, <2>3
<1>3. AgreesWithValidateFrame /\ FrameIsBounded
  <2>1. CASE state = "WAIT_START"
    BY <2>1 DEF IInv, Progress, AgreesWithValidateFrame, FrameIsBounded
  <2>2. CASE state # "WAIT_START"
    <3>1. result # "MESSAGE_READY" /\ message = NoMessage
      BY <2>2 DEF IInv, Progress
    <3>2. ValidateBytes(window) = NoMessage
      <4>1. CASE state \in AfterLength
        <5>1. /\ LengthRead /\ Len(window) \in 3 .. expected_body_length + 7
              /\ window \in Seq(Byte)
          BY <2>2, <4>1, AfterLengthFacts, WindowBounds
        <5>2. Len(window) # HexByte(window[2], window[3]) + 8
          BY <5>1, Widths DEF LengthRead
        <5> QED BY <5>1, <5>2, WrongLengthIsInvalid
      <4>2. CASE state \notin AfterLength
        <5>1. Len(window) < TypeLength + 9 /\ window \in Seq(Byte)
          BY <2>2, <4>2, WindowBounds, Widths
        <5> QED BY <5>1, WrongLengthIsInvalid
      <4> QED BY <4>1, <4>2
    <3>3. Len(window) < MaxBody + 8
      BY <2>2, WindowBounds, Widths
    <3> QED BY <3>1, <3>2, <3>3, Widths
            DEF AgreesWithValidateFrame, FrameIsBounded
  <2> QED BY <2>1, <2>2
<1> QED BY <1>1, <1>2, <1>3

-----------------------------------------------------------------------------
(* A whole frame, read byte by byte.                                        *)

\* f is a frame with a body of n bytes, as far as its shape goes, and without
\* the carriage returns the parser does not see.
Shape(f, n) ==
  /\ HasLen(f, n + 8)
  /\ f[1] = START /\ IsHex(f[2]) /\ IsHex(f[3]) /\ HexByte(f[2], f[3]) = n /\ f[4] = SEP
  /\ f[n + 5] = SEP /\ IsHex(f[n + 6]) /\ IsHex(f[n + 7]) /\ f[n + 8] = END
  /\ \A i \in 1 .. n + 8 : f[i] # CR

\* The first p bytes of f have been read.
HasRead(f, p) == HasLen(window, p) /\ \A i \in 1 .. p : window[i] = f[i]

LEMMA ReadOneMore ==
  ASSUME IInv, NEW f, NEW p \in Nat, p >= 1, HasRead(f, p), state # "WAIT_START",
         f[p + 1] \in Byte, window' = Append(window, f[p + 1])
  PROVE  HasRead(f, p + 1)'
<1> DEFINE b == f[p + 1]
           w == Append(window, b)
<1>1. window \in Seq(Byte)
  BY DEF IInv, TypeOK
<1>2. Len(window) = p
  BY <1>1, HasLenIsLen DEF HasRead
<1>3. /\ w \in Seq(Byte) /\ Len(w) = p + 1
      /\ \A i \in 1 .. p : w[i] = window[i]
      /\ w[p + 1] = b
  BY <1>1, <1>2, AppendProperties
<1>4. window' = w
  OBVIOUS
<1> HIDE DEF w
<1>5. HasLen(w, p + 1)
  BY <1>3, HasLenIsLen
<1>6. \A i \in 1 .. p + 1 : w[i] = f[i]
  <2> SUFFICES ASSUME NEW i \in 1 .. p + 1 PROVE w[i] = f[i]
    OBVIOUS
  <2>1. CASE i = p + 1
    BY <1>3, <2>1
  <2>2. CASE i # p + 1
    <3>1. i \in 1 .. p
      BY <2>2
    <3> QED BY <1>3, <3>1 DEF HasRead
  <2> QED BY <2>1, <2>2
<1> QED BY <1>4, <1>5, <1>6 DEF HasRead, HasLen

\* Where the parser is in a frame follows from how much of it has been read.
LEMMA PlaceInFrame ==
  ASSUME IInv, state # "WAIT_START",
         NEW f \in Seq(Byte), NEW n \in TypeLength + 1 .. MaxBody, Shape(f, n),
         NEW p \in 1 .. n + 7, HasRead(f, p)
  PROVE  /\ state = "READ_LEN_HI" => p = 1
         /\ state = "READ_LEN_LO" => p = 2 /\ length_field[1] = f[2]
         /\ state \in AfterLength => expected_body_length = n
         /\ state = "EXPECT_LEN_SEPARATOR" => p = 3
         /\ state = "READ_BODY" => p = 4 + Len(body) /\ Len(body) < n
         /\ state = "EXPECT_CHECK_SEPARATOR" => p = 4 + n
         /\ state = "READ_CHECK_HI" => p = 5 + n
         /\ state = "READ_CHECK_LO" => p = 6 + n
         /\ state = "EXPECT_END" => p = 7 + n
<1>1. p \in Nat /\ n \in Nat /\ p >= 1 /\ Len(window) \in Nat /\ Len(body) \in Nat
  BY Widths DEF IInv, TypeOK
<1>2. /\ Len(window) <= p /\ p <= Len(window)
      /\ \A i \in 1 .. p : window[i] = f[i]
  BY DEF HasRead, HasLen
<1>3. /\ WindowHas
      /\ state = "READ_LEN_LO" => window[2] = length_field[1]
      /\ state \in AfterLength => LengthRead
      /\ state = "READ_BODY" => Len(body) < expected_body_length
  BY DEF IInv, Progress, Reading
<1>4. state = "READ_LEN_HI" => p = 1
  BY <1>1, <1>2, <1>3 DEF WindowHas, HasLen
<1>5. state = "READ_LEN_LO" => p = 2
  BY <1>1, <1>2, <1>3 DEF WindowHas, HasLen
<1>6. state = "READ_LEN_LO" => length_field[1] = f[2]
  BY <1>1, <1>2, <1>3, <1>5
<1>7. state \in AfterLength => expected_body_length = n
  <2> SUFFICES ASSUME state \in AfterLength PROVE expected_body_length = n
    OBVIOUS
  <2>1. Len(window) >= 3
    BY WindowBounds
  <2>2. 2 \in 1 .. p /\ 3 \in 1 .. p
    BY <1>1, <1>2, <2>1
  <2>3. window[2] = f[2] /\ window[3] = f[3]
    BY <1>2, <2>2
  <2>4. /\ window[2] = length_field[1] /\ window[3] = length_field[2]
        /\ expected_body_length = HexByte(length_field[1], length_field[2])
    BY <1>3 DEF LengthRead
  <2>5. HexByte(f[2], f[3]) = n
    BY DEF Shape
  <2> QED BY <2>3, <2>4, <2>5
<1>8. state = "EXPECT_LEN_SEPARATOR" => p = 3
  BY <1>1, <1>2, <1>3 DEF WindowHas, HasLen
<1>9. state = "READ_BODY" => p = 4 + Len(body) /\ Len(body) < n
  BY <1>1, <1>2, <1>3, <1>7 DEF WindowHas, HasLen, AfterLength, States
<1>10. state = "EXPECT_CHECK_SEPARATOR" => p = 4 + n
  BY <1>1, <1>2, <1>3, <1>7 DEF WindowHas, HasLen, AfterLength, States
<1>11. state = "READ_CHECK_HI" => p = 5 + n
  BY <1>1, <1>2, <1>3, <1>7 DEF WindowHas, HasLen, AfterLength, States
<1>12. state = "READ_CHECK_LO" => p = 6 + n
  BY <1>1, <1>2, <1>3, <1>7 DEF WindowHas, HasLen, AfterLength, States
<1>13. state = "EXPECT_END" => p = 7 + n
  BY <1>1, <1>2, <1>3, <1>7 DEF WindowHas, HasLen, AfterLength, States
<1> QED BY <1>4, <1>5, <1>6, <1>7, <1>8, <1>9, <1>10, <1>11, <1>12, <1>13

LEMMA FirstByte ==
  ASSUME IInv, state = "WAIT_START", NEW f \in Seq(Byte), NEW n \in Nat, Shape(f, n),
         parser_consume_byte(f[1])
  PROVE  /\ state' # "WAIT_START" /\ result' = "IN_PROGRESS" /\ HasRead(f, 1)'
<1>1. f[1] = START /\ START # CR
  BY DEF Shape, START, CR
<1>2. WaitStart(f[1])
  BY <1>1 DEF parser_consume_byte, IgnoreCarriageReturn, ReadLenHi, ReadLenLo,
              ExpectLenSeparator, ReadBody, ExpectCheckSeparator, ReadCheckHi,
              ReadCheckLo, ExpectEnd
<1>3. window' = <<START>> /\ state' = "READ_LEN_HI" /\ result' = "IN_PROGRESS"
  BY <1>1, <1>2 DEF WaitStart, Return
<1>4. HasLen(<<START>>, 1)
  BY DEF HasLen
<1>5. \A i \in 1 .. 1 : <<START>>[i] = f[i]
  BY <1>1
<1> QED BY <1>3, <1>4, <1>5 DEF HasRead, HasLen

\* Between two frames a byte that opens none is skipped without a word.
LEMMA Skips ==
  ASSUME NEW b, b # START, state = "WAIT_START", parser_consume_byte(b)
  PROVE  state' = "WAIT_START" /\ result' = "IN_PROGRESS"
<1>1. IgnoreCarriageReturn(b) \/ WaitStart(b)
  BY DEF parser_consume_byte, ReadLenHi, ReadLenLo, ExpectLenSeparator, ReadBody,
         ExpectCheckSeparator, ReadCheckHi, ReadCheckLo, ExpectEnd
<1> QED BY <1>1 DEF IgnoreCarriageReturn, WaitStart, Return, parser_t

\* A byte the frame goes on with is read by the case of the switch for the state.
LEMMA StateReads ==
  ASSUME NEW b, b # CR, parser_consume_byte(b)
  PROVE  /\ state = "READ_LEN_HI" => ReadLenHi(b)
         /\ state = "READ_LEN_LO" => ReadLenLo(b)
         /\ state = "EXPECT_LEN_SEPARATOR" => ExpectLenSeparator(b)
         /\ state = "READ_BODY" => ReadBody(b)
         /\ state = "EXPECT_CHECK_SEPARATOR" => ExpectCheckSeparator(b)
         /\ state = "READ_CHECK_HI" => ReadCheckHi(b)
         /\ state = "READ_CHECK_LO" => ReadCheckLo(b)
         /\ state = "EXPECT_END" => ExpectEnd(b)
BY DEF parser_consume_byte, IgnoreCarriageReturn, WaitStart, ReadLenHi, ReadLenLo,
       ExpectLenSeparator, ReadBody, ExpectCheckSeparator, ReadCheckHi,
       ReadCheckLo, ExpectEnd

\* A byte after the first one, two or three of a frame, which need be no frame
\* that was sent: an '@' opens another one, and any other byte breaks the frame
\* off, unless it goes on with the length or ends one that is in range.
LEMMA AfterStart ==
  ASSUME IInv, state # "WAIT_START", NEW k \in 1 .. 3, HasLen(window, k),
         NEW b \in Byte, b # CR, parser_consume_byte(b)
  PROVE  /\ result' # "MESSAGE_READY"
         /\ \/ b = START /\ state' # "WAIT_START" /\ window' = <<START>>
            \/ b # START /\ state' = "WAIT_START"
            \/ /\ b # START /\ state' # "WAIT_START" /\ k <= 2
               /\ window' = Append(window, b)
            \/ /\ k = 3 /\ b = SEP /\ IsHex(window[2]) /\ IsHex(window[3])
               /\ HexByte(window[2], window[3]) \in TypeLength + 1 .. MaxBody
<1>1. PICK w \in Nat : w = Len(window) /\ w <= k /\ k <= w
  <2>1. window \in Seq(Byte)
    BY DEF IInv, TypeOK
  <2>2. Len(window) \in Nat
    BY <2>1, LenProperties
  <2> QED BY <2>2 DEF HasLen
<1>2. WindowHas /\ state \in States /\ Len(body) \in Nat
  <2>1. body \in Seq(Byte) /\ state \in States
    BY DEF IInv, TypeOK
  <2>2. Len(body) \in Nat
    BY <2>1, LenProperties
  <2> QED BY <2>1, <2>2 DEF IInv, Progress, Reading
<1>3. \/ state = "READ_LEN_HI" /\ k = 1
      \/ state = "READ_LEN_LO" /\ k = 2
      \/ state = "EXPECT_LEN_SEPARATOR" /\ k = 3
  <2>1. expected_body_length \in Nat
    BY Widths DEF IInv, TypeOK
  <2> QED BY <1>1, <1>2, <2>1 DEF WindowHas, HasLen, States
<1>4. ~IsHex(START) /\ START # SEP
  BY DEF IsHex, hex_char_to_nibble, START, SEP
<1>5. parser_error(b) =>
        /\ result' = "ERROR"
        /\ \/ b = START /\ state' # "WAIT_START" /\ window' = <<START>>
           \/ b # START /\ state' = "WAIT_START"
  BY DEF parser_error, parser_reset, ResetTo, Return
<1>6. InProgress(b) => result' = "IN_PROGRESS" /\ window' = Append(window, b)
  BY DEF InProgress, Return
<1>7. CASE state = "READ_LEN_HI" /\ k = 1
  <2>1. ReadLenHi(b)
    BY <1>7, StateReads
  <2>2. parser_error(b) \/ (IsHex(b) /\ state' = "READ_LEN_LO" /\ InProgress(b))
    BY <2>1 DEF ReadLenHi
  <2> QED BY <1>4, <1>5, <1>6, <1>7, <2>2
<1>8. CASE state = "READ_LEN_LO" /\ k = 2
  <2>1. ReadLenLo(b)
    BY <1>8, StateReads
  <2>2. parser_error(b) \/ (IsHex(b) /\ state' = "EXPECT_LEN_SEPARATOR" /\ InProgress(b))
    BY <2>1 DEF ReadLenLo
  <2> QED BY <1>4, <1>5, <1>6, <1>8, <2>2
<1>9. CASE state = "EXPECT_LEN_SEPARATOR" /\ k = 3
  <2>1. ExpectLenSeparator(b)
    BY <1>9, StateReads
  <2>2. parser_error(b) \/ (b = SEP /\ InProgress(b))
    BY <2>1 DEF ExpectLenSeparator
  <2>3. LengthRead
    BY <1>9 DEF IInv, Progress, Reading, AfterLength, States
  <2>4. /\ IsHex(window[2]) /\ IsHex(window[3])
        /\ HexByte(window[2], window[3]) \in TypeLength + 1 .. MaxBody
    BY <2>3 DEF LengthRead
  <2> QED BY <1>4, <1>5, <1>6, <1>9, <2>2, <2>4
<1> QED BY <1>3, <1>7, <1>8, <1>9

\* An '@' between two frames opens one.
LEMMA FrameStarts ==
  ASSUME state = "WAIT_START", parser_consume_byte(START)
  PROVE  state' # "WAIT_START" /\ window' = <<START>> /\ result' = "IN_PROGRESS"
<1>1. START # CR
  BY DEF START, CR
<1>2. WaitStart(START)
  BY <1>1 DEF parser_consume_byte, IgnoreCarriageReturn, ReadLenHi, ReadLenLo,
              ExpectLenSeparator, ReadBody, ExpectCheckSeparator, ReadCheckHi,
              ReadCheckLo, ExpectEnd
<1> QED BY <1>2 DEF WaitStart, Return

\* No byte of a frame but the last ends the reading or breaks it off.
LEMMA MiddleByte ==
  ASSUME IInv, state # "WAIT_START",
         NEW f \in Seq(Byte), NEW n \in TypeLength + 1 .. MaxBody, Shape(f, n),
         NEW p \in 1 .. n + 6, HasRead(f, p), parser_consume_byte(f[p + 1])
  PROVE  state' # "WAIT_START" /\ InProgress(f[p + 1])
<1> DEFINE b == f[p + 1]
<1>1. p \in 1 .. n + 7 /\ p + 1 \in 1 .. n + 8 /\ n \in Nat
  BY Widths
<1>2. b # CR
  BY <1>1 DEF Shape
<1>3. /\ state = "READ_LEN_HI" => ReadLenHi(b)
      /\ state = "READ_LEN_LO" => ReadLenLo(b)
      /\ state = "EXPECT_LEN_SEPARATOR" => ExpectLenSeparator(b)
      /\ state = "READ_BODY" => ReadBody(b)
      /\ state = "EXPECT_CHECK_SEPARATOR" => ExpectCheckSeparator(b)
      /\ state = "READ_CHECK_HI" => ReadCheckHi(b)
      /\ state = "READ_CHECK_LO" => ReadCheckLo(b)
      /\ state = "EXPECT_END" => ExpectEnd(b)
  BY <1>2, StateReads
<1>4. /\ state = "READ_LEN_HI" => p = 1
      /\ state = "READ_LEN_LO" => p = 2 /\ length_field[1] = f[2]
      /\ state = "EXPECT_LEN_SEPARATOR" => p = 3
      /\ state = "EXPECT_CHECK_SEPARATOR" => p = 4 + n
      /\ state = "READ_CHECK_HI" => p = 5 + n
      /\ state = "READ_CHECK_LO" => p = 6 + n
      /\ state # "EXPECT_END"
  BY <1>1, PlaceInFrame
<1>5. state \in States
  BY DEF IInv, TypeOK
<1>6. CASE state = "READ_LEN_HI"
  <2>1. b = f[2] /\ IsHex(b) /\ ReadLenHi(b)
    BY <1>3, <1>4, <1>6 DEF Shape
  <2> QED BY <2>1 DEF ReadLenHi
<1>7. CASE state = "READ_LEN_LO"
  <2>1. b = f[3] /\ IsHex(b) /\ ReadLenLo(b) /\ length_field[1] = f[2]
    BY <1>3, <1>4, <1>7 DEF Shape
  <2>2. HexByte(length_field[1], b) = n
    BY <2>1 DEF Shape
  <2> QED BY <2>1, <2>2 DEF ReadLenLo
<1>8. CASE state = "EXPECT_LEN_SEPARATOR"
  <2>1. b = f[4] /\ b = SEP /\ ExpectLenSeparator(b)
    BY <1>3, <1>4, <1>8 DEF Shape
  <2> QED BY <2>1 DEF ExpectLenSeparator
<1>9. CASE state = "READ_BODY"
  BY <1>3, <1>9 DEF ReadBody
<1>10. CASE state = "EXPECT_CHECK_SEPARATOR"
  <2>1. p + 1 = n + 5
    BY <1>1, <1>4, <1>10
  <2>2. b = SEP /\ ExpectCheckSeparator(b)
    BY <2>1, <1>3, <1>10 DEF Shape
  <2> QED BY <2>2 DEF ExpectCheckSeparator
<1>11. CASE state = "READ_CHECK_HI"
  <2>1. p + 1 = n + 6
    BY <1>1, <1>4, <1>11
  <2>2. IsHex(b) /\ ReadCheckHi(b)
    BY <2>1, <1>3, <1>11 DEF Shape
  <2> QED BY <2>2 DEF ReadCheckHi
<1>12. CASE state = "READ_CHECK_LO"
  <2>1. p + 1 = n + 7
    BY <1>1, <1>4, <1>12
  <2>2. IsHex(b) /\ ReadCheckLo(b)
    BY <2>1, <1>3, <1>12 DEF Shape
  <2> QED BY <2>2 DEF ReadCheckLo
<1> QED BY <1>4, <1>5, <1>6, <1>7, <1>8, <1>9, <1>10, <1>11, <1>12 DEF States

LEMMA ReadsOn ==
  ASSUME IInv, state # "WAIT_START",
         NEW f \in Seq(Byte), NEW n \in TypeLength + 1 .. MaxBody, Shape(f, n),
         NEW p \in 1 .. n + 6, HasRead(f, p), parser_consume_byte(f[p + 1])
  PROVE  state' # "WAIT_START" /\ result' = "IN_PROGRESS" /\ HasRead(f, p + 1)'
<1>1. state' # "WAIT_START" /\ InProgress(f[p + 1])
  BY MiddleByte
<1>2. p \in Nat /\ p >= 1 /\ n \in Nat
  BY Widths
<1>3. p + 1 \in 1 .. n + 8
  BY <1>2
<1>4. Len(f) = n + 8
  BY <1>2, HasLenIsLen DEF Shape
<1>5. f[p + 1] \in Byte
  BY <1>3, <1>4
<1>6. result' = "IN_PROGRESS" /\ window' = Append(window, f[p + 1])
  BY <1>1 DEF InProgress, Return
<1>7. HasRead(f, p + 1)'
  BY <1>2, <1>5, <1>6, ReadOneMore
<1> QED BY <1>1, <1>6, <1>7

\* The last byte of a frame yields what the batch validator finds in the frame.
LEMMA ReadsWhole ==
  ASSUME IInv, state # "WAIT_START",
         NEW f \in Seq(Byte), NEW n \in TypeLength + 1 .. MaxBody, Shape(f, n),
         HasRead(f, n + 7), parser_consume_byte(f[n + 8])
  PROVE  /\ state' = "WAIT_START" /\ message' = ValidateBytes(f)
         /\ result' = IF ValidateBytes(f) = NoMessage THEN "ERROR" ELSE "MESSAGE_READY"
<1>1. n \in Nat /\ n + 7 \in 1 .. n + 7 /\ n + 7 \in Nat /\ n + 7 >= 1
      /\ n + 8 \in 1 .. n + 8 /\ (n + 7) + 1 = n + 8
  BY Widths
<1>2. f[n + 8] = END /\ END # CR
  BY <1>1 DEF Shape, END, CR
<1>3. state \in States /\ n < n + 7
  BY <1>1 DEF IInv, TypeOK
<1>4. state = "EXPECT_END"
  <2>1. /\ state = "READ_LEN_HI" => n + 7 = 1
        /\ state = "READ_LEN_LO" => n + 7 = 2
        /\ state = "EXPECT_LEN_SEPARATOR" => n + 7 = 3
        /\ state = "READ_BODY" => n + 7 = 4 + Len(body) /\ Len(body) < n
        /\ state = "EXPECT_CHECK_SEPARATOR" => n + 7 = 4 + n
        /\ state = "READ_CHECK_HI" => n + 7 = 5 + n
        /\ state = "READ_CHECK_LO" => n + 7 = 6 + n
    BY <1>1, PlaceInFrame
  <2>2. Len(body) \in Nat
    BY DEF IInv, TypeOK
  <2> QED BY <1>1, <1>3, <2>1, <2>2 DEF States
<1>5. ExpectEnd(END)
  BY <1>2, <1>4, StateReads
<1>6. state' = "WAIT_START" /\ window' = Append(window, END)
      /\ result' \in {"MESSAGE_READY", "ERROR"}
  BY <1>5 DEF ExpectEnd, parser_reset, ResetTo, Return
<1>7. IInv'
  <2>1. END \in Byte /\ byte' = END
    BY <1>2 DEF END, Byte, parser_consume_byte
  <2> QED BY <1>5, <2>1, ExpectEndStep
<1>8. HasRead(f, n + 8)'
  <2>1. END \in Byte
    BY DEF END, Byte
  <2>2. HasRead(f, (n + 7) + 1)'
    BY <1>1, <1>2, <1>6, <2>1, ReadOneMore
  <2> QED BY <1>1, <2>2
<1>9. window' = f
  <2>1. PICK w : w = window'
    OBVIOUS
  <2>2. w \in Seq(Byte) /\ HasLen(w, n + 8) /\ \A i \in 1 .. n + 8 : w[i] = f[i]
    BY <1>7, <1>8, <2>1 DEF IInv, TypeOK, HasRead, HasLen
  <2>3. HasLen(f, n + 8) /\ n + 8 \in Nat
    BY <1>1 DEF Shape
  <2> QED BY <2>1, <2>2, <2>3, SameSequence
<1>10. message' = ValidateBytes(f) /\ (result' = "MESSAGE_READY" <=> message' # NoMessage)
  BY <1>6, <1>7, <1>9 DEF IInv, Progress
<1> QED BY <1>6, <1>10

-----------------------------------------------------------------------------
(* What the checksum tells apart.                                           *)

\* The bytes of s with the bit of weight w, and whether they are an odd number.
Ones(s, w)   == {i \in DOMAIN s : (s[i] \div w) % 2 = 1}
Parity(s, w) == Cardinality(Ones(s, w)) % 2

Weights == {1, 2, 4, 8, 16, 32, 64, 128}

\* A byte is the sum of its bits, so two bytes differ in one of them.
LEMMA SumOfBits ==
  ASSUME NEW x \in 0 .. 255
  PROVE  x = ((x \div 1) % 2) + 2 * ((x \div 2) % 2) + 4 * ((x \div 4) % 2)
               + 8 * ((x \div 8) % 2) + 16 * ((x \div 16) % 2) + 32 * ((x \div 32) % 2)
               + 64 * ((x \div 64) % 2) + 128 * ((x \div 128) % 2)
OBVIOUS

LEMMA SomeBitDiffers ==
  ASSUME NEW x \in 0 .. 255, NEW y \in 0 .. 255, x # y
  PROVE  \E w \in Weights : (x \div w) % 2 # (y \div w) % 2
<1> SUFFICES ASSUME \A w \in Weights : (x \div w) % 2 = (y \div w) % 2
             PROVE  FALSE
  OBVIOUS
<1>1. PICK a, b, c, d, e, f, g, h :
        /\ a = (x \div 1) % 2 /\ b = (x \div 2) % 2 /\ c = (x \div 4) % 2
        /\ d = (x \div 8) % 2 /\ e = (x \div 16) % 2 /\ f = (x \div 32) % 2
        /\ g = (x \div 64) % 2 /\ h = (x \div 128) % 2
  OBVIOUS
<1>2. /\ a = (y \div 1) % 2 /\ b = (y \div 2) % 2 /\ c = (y \div 4) % 2
      /\ d = (y \div 8) % 2 /\ e = (y \div 16) % 2 /\ f = (y \div 32) % 2
      /\ g = (y \div 64) % 2 /\ h = (y \div 128) % 2
  <2>1. \A w \in {1, 2, 4, 8, 16, 32, 64, 128} : (x \div w) % 2 = (y \div w) % 2
    BY DEF Weights
  <2> QED BY <1>1, <2>1, Zenon
<1>3. x = a + 2 * b + 4 * c + 8 * d + 16 * e + 32 * f + 64 * g + 128 * h
  BY <1>1, SumOfBits, Zenon
<1>4. y = a + 2 * b + 4 * c + 8 * d + 16 * e + 32 * f + 64 * g + 128 * h
  BY <1>2, SumOfBits, Zenon
<1> QED BY <1>3, <1>4, Zenon

LEMMA BitIsBit ==
  ASSUME NEW x \in 0 .. 255, NEW w \in Weights
  PROVE  (x \div w) % 2 \in 0 .. 1
<1>1. w \in Nat /\ w > 0
  BY DEF Weights
<1>2. x \div w \in Nat
  BY <1>1
<1>3. PICK q \in Nat : q = x \div w
  BY <1>2
<1>4. q % 2 \in 0 .. 1
  OBVIOUS
<1> QED BY <1>3, <1>4

LEMMA OnesAreFinite ==
  ASSUME NEW s \in Seq(Byte), NEW w
  PROVE  IsFiniteSet(Ones(s, w)) /\ Cardinality(Ones(s, w)) \in Nat /\ Parity(s, w) \in 0 .. 1
<1>1. DOMAIN s = 1 .. Len(s) /\ Len(s) \in Nat
  BY LenProperties
<1>2. IsFiniteSet(DOMAIN s)
  BY <1>1, FS_Interval
<1>3. Ones(s, w) \subseteq DOMAIN s
  BY DEF Ones
<1>4. IsFiniteSet(Ones(s, w))
  BY <1>2, <1>3, FS_Subset
<1>5. PICK c \in Nat : c = Cardinality(Ones(s, w))
  BY <1>4, FS_CardinalityType
<1>6. c % 2 \in 0 .. 1
  OBVIOUS
<1> QED BY <1>4, <1>5, <1>6 DEF Parity

\* One more byte with the bit turns its parity.
LEMMA OneMoreOne ==
  ASSUME NEW s \in Seq(Byte), NEW t \in Seq(Byte), Len(s) = Len(t), NEW w,
         NEW k \in 1 .. Len(s), \A j \in 1 .. Len(s) : j # k => s[j] = t[j],
         (s[k] \div w) % 2 = 0, (t[k] \div w) % 2 = 1
  PROVE  Parity(s, w) # Parity(t, w)
<1>1. DOMAIN s = 1 .. Len(s) /\ DOMAIN t = 1 .. Len(s)
  BY LenProperties
<1>2. Ones(t, w) = Ones(s, w) \union {k} /\ k \notin Ones(s, w)
  BY <1>1 DEF Ones
<1>3. IsFiniteSet(Ones(s, w)) /\ Cardinality(Ones(s, w)) \in Nat
  BY OnesAreFinite
<1>4. Cardinality(Ones(t, w)) = Cardinality(Ones(s, w)) + 1
  BY <1>2, <1>3, FS_AddElement
<1>5. PICK c \in Nat : c = Cardinality(Ones(s, w))
  BY <1>3
<1>6. c % 2 # (c + 1) % 2
  OBVIOUS
<1> QED BY <1>4, <1>5, <1>6 DEF Parity

LEMMA ChecksumOfParities ==
  ASSUME NEW d
  PROVE  protocol_compute_checksum(d) =
           Parity(d, 1) + 2 * Parity(d, 2) + 4 * Parity(d, 4) + 8 * Parity(d, 8)
             + 16 * Parity(d, 16) + 32 * Parity(d, 32) + 64 * Parity(d, 64)
             + 128 * Parity(d, 128)
BY Zenon DEF protocol_compute_checksum, Parity, Ones

\* Two numbers of eight bits are equal only when their bits are.
LEMMA EqualBits ==
  ASSUME NEW a \in 0 .. 1, NEW b \in 0 .. 1, NEW c \in 0 .. 1, NEW d \in 0 .. 1,
         NEW e \in 0 .. 1, NEW f \in 0 .. 1, NEW g \in 0 .. 1, NEW h \in 0 .. 1,
         NEW p \in 0 .. 1, NEW q \in 0 .. 1, NEW r \in 0 .. 1, NEW s \in 0 .. 1,
         NEW t \in 0 .. 1, NEW u \in 0 .. 1, NEW v \in 0 .. 1, NEW w \in 0 .. 1,
         a + 2 * b + 4 * c + 8 * d + 16 * e + 32 * f + 64 * g + 128 * h
           = p + 2 * q + 4 * r + 8 * s + 16 * t + 32 * u + 64 * v + 128 * w
  PROVE  a = p /\ b = q /\ c = r /\ d = s /\ e = t /\ f = u /\ g = v /\ h = w
OBVIOUS

\* The eight bits of the checksum of s, the lowest first.
AreBits(s, a, b, c, d, e, f, g, h) ==
  /\ a = Parity(s, 1) /\ b = Parity(s, 2) /\ c = Parity(s, 4) /\ d = Parity(s, 8)
  /\ e = Parity(s, 16) /\ f = Parity(s, 32) /\ g = Parity(s, 64) /\ h = Parity(s, 128)
  /\ protocol_compute_checksum(s) =
       a + 2 * b + 4 * c + 8 * d + 16 * e + 32 * f + 64 * g + 128 * h

LEMMA ChecksumBits ==
  ASSUME NEW s \in Seq(Byte)
  PROVE  \E a, b, c, d, e, f, g, h \in 0 .. 1 : AreBits(s, a, b, c, d, e, f, g, h)
<1>1. \A w : Parity(s, w) \in 0 .. 1
  BY OnesAreFinite
<1>2. AreBits(s, Parity(s, 1), Parity(s, 2), Parity(s, 4), Parity(s, 8),
                 Parity(s, 16), Parity(s, 32), Parity(s, 64), Parity(s, 128))
  BY ChecksumOfParities, Zenon DEF AreBits
<1> QED BY <1>1, <1>2

LEMMA EqualChecksums ==
  ASSUME NEW s \in Seq(Byte), NEW t \in Seq(Byte), NEW w \in Weights,
         protocol_compute_checksum(s) = protocol_compute_checksum(t)
  PROVE  Parity(s, w) = Parity(t, w)
<1>1. PICK a \in 0 .. 1, b \in 0 .. 1, c \in 0 .. 1, d \in 0 .. 1,
           e \in 0 .. 1, f \in 0 .. 1, g \in 0 .. 1, h \in 0 .. 1 :
        AreBits(s, a, b, c, d, e, f, g, h)
  BY ChecksumBits
<1>2. PICK i \in 0 .. 1, j \in 0 .. 1, k \in 0 .. 1, l \in 0 .. 1,
           m \in 0 .. 1, n \in 0 .. 1, o \in 0 .. 1, p \in 0 .. 1 :
        AreBits(t, i, j, k, l, m, n, o, p)
  BY ChecksumBits
<1>3. a + 2 * b + 4 * c + 8 * d + 16 * e + 32 * f + 64 * g + 128 * h
        = i + 2 * j + 4 * k + 8 * l + 16 * m + 32 * n + 64 * o + 128 * p
  <2>1. protocol_compute_checksum(s) =
          a + 2 * b + 4 * c + 8 * d + 16 * e + 32 * f + 64 * g + 128 * h
    BY <1>1, Zenon DEF AreBits
  <2>2. protocol_compute_checksum(t) =
          i + 2 * j + 4 * k + 8 * l + 16 * m + 32 * n + 64 * o + 128 * p
    BY <1>2, Zenon DEF AreBits
  <2> QED BY <2>1, <2>2, Zenon
<1>4. a = i /\ b = j /\ c = k /\ d = l /\ e = m /\ f = n /\ g = o /\ h = p
  BY <1>3, EqualBits, SMT
<1>5. /\ Parity(s, 1) = Parity(t, 1) /\ Parity(s, 2) = Parity(t, 2)
      /\ Parity(s, 4) = Parity(t, 4) /\ Parity(s, 8) = Parity(t, 8)
      /\ Parity(s, 16) = Parity(t, 16) /\ Parity(s, 32) = Parity(t, 32)
      /\ Parity(s, 64) = Parity(t, 64) /\ Parity(s, 128) = Parity(t, 128)
  <2>1. /\ a = Parity(s, 1) /\ b = Parity(s, 2) /\ c = Parity(s, 4) /\ d = Parity(s, 8)
        /\ e = Parity(s, 16) /\ f = Parity(s, 32) /\ g = Parity(s, 64)
        /\ h = Parity(s, 128)
    BY <1>1, Zenon DEF AreBits
  <2>2. /\ i = Parity(t, 1) /\ j = Parity(t, 2) /\ k = Parity(t, 4) /\ l = Parity(t, 8)
        /\ m = Parity(t, 16) /\ n = Parity(t, 32) /\ o = Parity(t, 64)
        /\ p = Parity(t, 128)
    BY <1>2, Zenon DEF AreBits
  <2>3. /\ Parity(s, 1) = Parity(t, 1) /\ Parity(s, 2) = Parity(t, 2)
        /\ Parity(s, 4) = Parity(t, 4) /\ Parity(s, 8) = Parity(t, 8)
    <3>1. a = i /\ b = j /\ c = k /\ d = l
      BY <1>4
    <3>2. a = Parity(s, 1) /\ b = Parity(s, 2) /\ c = Parity(s, 4) /\ d = Parity(s, 8)
      BY <2>1, Zenon
    <3>3. i = Parity(t, 1) /\ j = Parity(t, 2) /\ k = Parity(t, 4) /\ l = Parity(t, 8)
      BY <2>2, Zenon
    <3> QED BY <3>1, <3>2, <3>3, Zenon
  <2>4. /\ Parity(s, 16) = Parity(t, 16) /\ Parity(s, 32) = Parity(t, 32)
        /\ Parity(s, 64) = Parity(t, 64) /\ Parity(s, 128) = Parity(t, 128)
    <3>1. e = m /\ f = n /\ g = o /\ h = p
      BY <1>4
    <3>2. e = Parity(s, 16) /\ f = Parity(s, 32) /\ g = Parity(s, 64) /\ h = Parity(s, 128)
      BY <2>1, Zenon
    <3>3. m = Parity(t, 16) /\ n = Parity(t, 32) /\ o = Parity(t, 64) /\ p = Parity(t, 128)
      BY <2>2, Zenon
    <3> QED BY <3>1, <3>2, <3>3, Zenon
  <2> QED BY <2>3, <2>4
<1>6. \/ w = 1 \/ w = 2 \/ w = 4 \/ w = 8 \/ w = 16 \/ w = 32 \/ w = 64 \/ w = 128
  BY DEF Weights
<1> QED BY <1>5, <1>6, Zenon

\* Bytes that differ in one place only have another checksum.
LEMMA OneByteTurnsTheChecksum ==
  ASSUME NEW s \in Seq(Byte), NEW t \in Seq(Byte), Len(s) = Len(t),
         NEW k \in 1 .. Len(s), \A j \in 1 .. Len(s) : j # k => s[j] = t[j],
         s[k] # t[k]
  PROVE  protocol_compute_checksum(s) # protocol_compute_checksum(t)
<1>1. s[k] \in 0 .. 255 /\ t[k] \in 0 .. 255
  <2>1. k \in 1 .. Len(s) /\ k \in 1 .. Len(t)
    OBVIOUS
  <2>2. s[k] \in Byte /\ t[k] \in Byte
    BY <2>1, ElementOfSeq
  <2> QED BY <2>2 DEF Byte
<1>2. PICK w \in Weights : (s[k] \div w) % 2 # (t[k] \div w) % 2
  BY <1>1, SomeBitDiffers
<1>3. (s[k] \div w) % 2 \in 0 .. 1 /\ (t[k] \div w) % 2 \in 0 .. 1
  BY <1>1, BitIsBit
<1>4. Parity(s, w) # Parity(t, w)
  <2>1. CASE (s[k] \div w) % 2 = 0 /\ (t[k] \div w) % 2 = 1
    BY <2>1, OneMoreOne
  <2>2. CASE (t[k] \div w) % 2 = 0 /\ (s[k] \div w) % 2 = 1
    <3>1. k \in 1 .. Len(t) /\ \A j \in 1 .. Len(t) : j # k => t[j] = s[j]
      OBVIOUS
    <3> QED BY <2>2, <3>1, OneMoreOne
  <2>3. \A x, y \in 0 .. 1 : x # y => (x = 0 /\ y = 1) \/ (y = 0 /\ x = 1)
    OBVIOUS
  <2> QED BY <1>2, <1>3, <2>1, <2>2, <2>3
<1> QED BY <1>4, EqualChecksums

-----------------------------------------------------------------------------
(* Encoding, and decoding what was encoded.                                 *)

\* The digits nibble_to_hex writes.
Digit == 48 .. 57 \union 65 .. 70

LEMMA NibbleRoundTrip ==
  ASSUME NEW v \in 0 .. 255, NEW d \in 0 .. 15, v % 16 = d
  PROVE  /\ hex_char_to_nibble(nibble_to_hex(v)) = d
         /\ nibble_to_hex(v) \in Digit
<1>1. CASE d < 10
  <2>1. nibble_to_hex(v) = 48 + d /\ 48 + d \in 48 .. 57
    BY <1>1 DEF nibble_to_hex
  <2> QED BY <2>1 DEF hex_char_to_nibble, Digit
<1>2. CASE d >= 10
  <2>1. nibble_to_hex(v) = 55 + d /\ 55 + d \in 65 .. 70 /\ 55 + d \notin 48 .. 57
    BY <1>2 DEF nibble_to_hex
  <2> QED BY <2>1 DEF hex_char_to_nibble, Digit
<1> QED BY <1>1, <1>2

\* The two digits of a byte are digits, and HexByte reads them back.
LEMMA HexRoundTrip ==
  ASSUME NEW v \in 0 .. 255
  PROVE  /\ HexByte(HexText(v)[1], HexText(v)[2]) = v
         /\ IsHex(HexText(v)[1]) /\ IsHex(HexText(v)[2])
         /\ HexText(v) \in Seq(Byte) /\ HasLen(HexText(v), 2)
         /\ HexText(v)[1] \in Digit /\ HexText(v)[2] \in Digit
<1> DEFINE hi == v \div 16
           lo == v % 16
<1>1. hi \in 0 .. 15 /\ lo \in 0 .. 15 /\ v = 16 * hi + lo
  OBVIOUS
<1>2. hi % 16 = hi /\ hi \in 0 .. 255
  BY <1>1
<1>3. /\ hex_char_to_nibble(nibble_to_hex(hi)) = hi /\ nibble_to_hex(hi) \in Digit
      /\ hex_char_to_nibble(nibble_to_hex(v)) = lo /\ nibble_to_hex(v) \in Digit
  BY <1>1, <1>2, NibbleRoundTrip
<1>4. HexText(v) = <<nibble_to_hex(hi), nibble_to_hex(v)>>
  BY DEF HexText
<1>5. HexText(v)[1] = nibble_to_hex(hi) /\ HexText(v)[2] = nibble_to_hex(v)
  BY <1>4
<1>6. HexText(v) \in Seq(Byte) /\ HasLen(HexText(v), 2)
  BY <1>3, <1>4 DEF HasLen, Byte, Digit
<1>7. HexByte(HexText(v)[1], HexText(v)[2]) = v
  BY <1>1, <1>3, <1>5 DEF HexByte
<1> QED BY <1>1, <1>3, <1>5, <1>6, <1>7 DEF IsHex

LEMMA EightBits ==
  ASSUME NEW a \in 0 .. 1, NEW b \in 0 .. 1, NEW c \in 0 .. 1, NEW d \in 0 .. 1,
         NEW e \in 0 .. 1, NEW f \in 0 .. 1, NEW g \in 0 .. 1, NEW h \in 0 .. 1
  PROVE  a + 2 * b + 4 * c + 8 * d + 16 * e + 32 * f + 64 * g + 128 * h \in 0 .. 255
OBVIOUS

\* A checksum is a byte.
LEMMA ChecksumIsByte ==
  ASSUME NEW s \in Seq(Byte)
  PROVE  protocol_compute_checksum(s) \in 0 .. 255
<1>1. PICK a \in 0 .. 1, b \in 0 .. 1, c \in 0 .. 1, d \in 0 .. 1,
           e \in 0 .. 1, f \in 0 .. 1, g \in 0 .. 1, h \in 0 .. 1 :
        AreBits(s, a, b, c, d, e, f, g, h)
  BY ChecksumBits
<1>2. protocol_compute_checksum(s) =
        a + 2 * b + 4 * c + 8 * d + 16 * e + 32 * f + 64 * g + 128 * h
  BY <1>1, Zenon DEF AreBits
<1> QED BY <1>2, EightBits

\* x is s, p bytes long, and then t, q bytes long.
IsJoin(x, s, t, p, q) ==
  /\ x \in Seq(Byte) /\ HasLen(x, p + q)
  /\ \A i \in 1 .. p : x[i] = s[i]
  /\ \A i \in 1 .. q : x[p + i] = t[i]

LEMMA Joined ==
  ASSUME NEW s \in Seq(Byte), NEW t \in Seq(Byte), NEW p \in Nat, NEW q \in Nat,
         HasLen(s, p), HasLen(t, q), NEW x, x = s \o t
  PROVE  IsJoin(x, s, t, p, q)
<1>1. Len(s) = p /\ Len(t) = q
  BY HasLenIsLen
<1>2. /\ x \in Seq(Byte) /\ Len(x) = p + q
      /\ \A i \in 1 .. p + q : x[i] = IF i <= p THEN s[i] ELSE t[i - p]
  BY <1>1, ConcatProperties
<1>3. HasLen(x, p + q)
  <2>1. p + q \in Nat
    OBVIOUS
  <2> QED BY <1>2, <2>1, HasLenIsLen, Zenon
<1>4. ASSUME NEW i \in 1 .. p PROVE x[i] = s[i]
  <2>1. i \in 1 .. p + q /\ i <= p
    OBVIOUS
  <2> QED BY <1>2, <2>1
<1>5. ASSUME NEW i \in 1 .. q PROVE x[p + i] = t[i]
  <2>1. p + i \in 1 .. p + q /\ ~(p + i <= p) /\ (p + i) - p = i
    OBVIOUS
  <2> QED BY <1>2, <2>1
<1> QED BY <1>2, <1>3, <1>4, <1>5 DEF IsJoin

\* The frame protocol_encode_frame puts together has the parts HasParts names.
LEMMA FrameHasParts ==
  ASSUME NEW b \in Seq(Byte), NEW n \in Nat, HasLen(b, n),
         NEW l \in Seq(Byte), NEW c \in Seq(Byte), HasLen(l, 2), HasLen(c, 2),
         IsHex(l[1]), IsHex(l[2]), IsHex(c[1]), IsHex(c[2]), HexByte(l[1], l[2]) = n
  PROVE  LET f == <<START>> \o (l \o <<SEP>> \o b) \o <<SEP>> \o c \o <<END>>
         IN  f \in Seq(Byte) /\ HasParts(f, l, b, c, n)
<1>d. PICK d : d = l \o <<SEP>> \o b
  OBVIOUS
<1>s1. PICK s1 : s1 = <<START>> \o d
  OBVIOUS
<1>s2. PICK s2 : s2 = s1 \o <<SEP>>
  OBVIOUS
<1>s3. PICK s3 : s3 = s2 \o c
  OBVIOUS
<1>f. PICK f : f = s3 \o <<END>>
  OBVIOUS
<1>1. PICK st, sp, en : st = <<START>> /\ sp = <<SEP>> /\ en = <<END>>
  OBVIOUS
<1>0. /\ st \in Seq(Byte) /\ HasLen(st, 1) /\ st[1] = START
      /\ sp \in Seq(Byte) /\ HasLen(sp, 1) /\ sp[1] = SEP
      /\ en \in Seq(Byte) /\ HasLen(en, 1) /\ en[1] = END
  BY <1>1 DEF START, SEP, END, Byte, HasLen
<1>2. /\ d \in Seq(Byte) /\ HasLen(d, n + 3)
      /\ d[1] = l[1] /\ d[2] = l[2] /\ d[3] = SEP /\ \A i \in 1 .. n : d[3 + i] = b[i]
  <2>1. SEP \in Byte
    BY DEF SEP, Byte
  <2>2. /\ l \o <<SEP>> \o b \in Seq(Byte)
        /\ HasLen(l \o <<SEP>> \o b, n + 3)
        /\ (l \o <<SEP>> \o b)[1] = l[1]
        /\ (l \o <<SEP>> \o b)[2] = l[2]
        /\ (l \o <<SEP>> \o b)[3] = SEP
        /\ \A i \in 1..n : (l \o <<SEP>> \o b)[3 + i] = b[i]
    BY <2>1, LengthSepBody
  <2> QED BY <1>d, <2>2, Zenon
<1>3. /\ s1 \in Seq(Byte) /\ HasLen(s1, 1 + (n + 3))
      /\ \A i \in 1 .. 1 : s1[i] = st[i]
      /\ \A i \in 1 .. n + 3 : s1[1 + i] = d[i]
  <2>1. 1 \in Nat /\ n + 3 \in Nat
    OBVIOUS
  <2>2. s1 = st \o d
    BY <1>s1, <1>1
  <2>3. /\ st \in Seq(Byte) /\ HasLen(st, 1)
        /\ d \in Seq(Byte) /\ HasLen(d, n + 3)
    BY <1>0, <1>2
  <2>4. IsJoin(s1, st, d, 1, n + 3)
    BY <2>2, <2>1, <2>3, Joined, Zenon
  <2> QED BY <2>4 DEF IsJoin
<1>4. /\ s1 \in Seq(Byte) /\ HasLen(s1, n + 4)
      /\ s1[1] = START /\ s1[2] = l[1] /\ s1[3] = l[2] /\ s1[4] = SEP
      /\ \A i \in 1 .. n : s1[4 + i] = b[i]
  <2>1. 1 + (n + 3) = n + 4 /\ 1 \in 1 .. 1
    OBVIOUS
  <2>2. s1[1] = START
    BY <1>0, <1>3, <2>1
  <2>3. /\ 1 \in 1 .. n + 3 /\ 2 \in 1 .. n + 3 /\ 3 \in 1 .. n + 3
        /\ 1 + 1 = 2 /\ 1 + 2 = 3 /\ 1 + 3 = 4
    OBVIOUS
  <2>4. s1[1 + 1] = d[1] /\ s1[1 + 2] = d[2] /\ s1[1 + 3] = d[3]
    BY <1>3, <2>3
  <2>5. ASSUME NEW i \in 1 .. n PROVE s1[4 + i] = b[i]
    <3>1. 3 + i \in 1 .. n + 3 /\ 1 + (3 + i) = 4 + i
      OBVIOUS
    <3>2. s1[1 + (3 + i)] = d[3 + i]
      BY <1>3, <3>1
    <3> QED BY <1>2, <3>1, <3>2
  <2>6. HasLen(s1, n + 4)
    BY <1>3, <2>1
  <2> QED BY <1>2, <1>3, <2>2, <2>3, <2>4, <2>5, <2>6
<1>5. /\ s2 \in Seq(Byte) /\ HasLen(s2, n + 5)
      /\ \A i \in 1 .. n + 4 : s2[i] = s1[i]
      /\ s2[n + 5] = SEP
  <2>1. 1 \in Nat /\ n + 4 \in Nat /\ (n + 4) + 1 = n + 5 /\ 1 \in 1 .. 1
    OBVIOUS
  <2>2. s2 = s1 \o sp
    BY <1>s2, <1>1
  <2>3. /\ s1 \in Seq(Byte) /\ HasLen(s1, n + 4)
        /\ sp \in Seq(Byte) /\ HasLen(sp, 1)
    BY <1>0, <1>4
  <2>4. IsJoin(s2, s1, sp, n + 4, 1)
    BY <2>2, <2>1, <2>3, Joined, Zenon
  <2>5. /\ s2 \in Seq(Byte) /\ HasLen(s2, (n + 4) + 1)
        /\ \A i \in 1 .. n + 4 : s2[i] = s1[i]
        /\ \A i \in 1 .. 1 : s2[(n + 4) + i] = sp[i]
    BY <2>4 DEF IsJoin
  <2> QED BY <1>0, <2>1, <2>5
<1>6. /\ s3 \in Seq(Byte) /\ HasLen(s3, n + 7)
      /\ \A i \in 1 .. n + 5 : s3[i] = s2[i]
      /\ s3[n + 6] = c[1] /\ s3[n + 7] = c[2]
  <2>1. /\ 2 \in Nat /\ n + 5 \in Nat /\ (n + 5) + 2 = n + 7 /\ (n + 5) + 1 = n + 6
        /\ 1 \in 1 .. 2 /\ 2 \in 1 .. 2
    OBVIOUS
  <2>2. s3 = s2 \o c
    BY <1>s3, <1>1
  <2>3. /\ s2 \in Seq(Byte) /\ HasLen(s2, n + 5)
        /\ c \in Seq(Byte) /\ HasLen(c, 2)
    BY <1>5
  <2>4. IsJoin(s3, s2, c, n + 5, 2)
    BY <2>2, <2>1, <2>3, Joined, Zenon
  <2>5. /\ s3 \in Seq(Byte) /\ HasLen(s3, (n + 5) + 2)
        /\ \A i \in 1 .. n + 5 : s3[i] = s2[i]
        /\ \A i \in 1 .. 2 : s3[(n + 5) + i] = c[i]
    BY <2>4 DEF IsJoin
  <2> QED BY <2>1, <2>5
<1>7. /\ f \in Seq(Byte) /\ HasLen(f, n + 8)
      /\ \A i \in 1 .. n + 7 : f[i] = s3[i]
      /\ f[n + 8] = END
  <2>1. 1 \in Nat /\ n + 7 \in Nat /\ (n + 7) + 1 = n + 8 /\ 1 \in 1 .. 1
    OBVIOUS
  <2>2. f = s3 \o en
    BY <1>f, <1>1
  <2>3. /\ s3 \in Seq(Byte) /\ HasLen(s3, n + 7)
        /\ en \in Seq(Byte) /\ HasLen(en, 1)
    BY <1>0, <1>6
  <2>4. IsJoin(f, s3, en, n + 7, 1)
    BY <2>2, <2>1, <2>3, Joined, Zenon
  <2>5. /\ f \in Seq(Byte) /\ HasLen(f, (n + 7) + 1)
        /\ \A i \in 1 .. n + 7 : f[i] = s3[i]
        /\ \A i \in 1 .. 1 : f[(n + 7) + i] = en[i]
    BY <2>4 DEF IsJoin
  <2> QED BY <1>0, <2>1, <2>5
<1>8. ASSUME NEW i \in 1 .. n + 4 PROVE f[i] = s1[i]
  <2>1. i \in 1 .. n + 5 /\ i \in 1 .. n + 7
    OBVIOUS
  <2> QED BY <1>5, <1>6, <1>7, <2>1
<1>9. f[1] = START /\ f[2] = l[1] /\ f[3] = l[2] /\ f[4] = SEP
  <2>1. 1 \in 1 .. n + 4 /\ 2 \in 1 .. n + 4 /\ 3 \in 1 .. n + 4 /\ 4 \in 1 .. n + 4
    OBVIOUS
  <2> QED BY <1>4, <1>8, <2>1
<1>10. ASSUME NEW i \in 1 .. n PROVE f[4 + i] = b[i]
  <2>1. 4 + i \in 1 .. n + 4
    OBVIOUS
  <2> QED BY <1>4, <1>8, <2>1
<1>11. f[n + 5] = SEP /\ f[n + 6] = c[1] /\ f[n + 7] = c[2]
  <2>1. /\ n + 5 \in 1 .. n + 5 /\ n + 5 \in 1 .. n + 7 /\ n + 6 \in 1 .. n + 7
        /\ n + 7 \in 1 .. n + 7
    OBVIOUS
  <2> QED BY <1>5, <1>6, <1>7, <2>1
<1>12. f \in Seq(Byte) /\ HasParts(f, l, b, c, n)
  BY <1>7, <1>9, <1>10, <1>11 DEF HasParts
<1> QED BY <1>12, <1>f, <1>s3, <1>s2, <1>s1, <1>d, Zenon

\* x is a text s of p bytes, a separator, and a text t of q bytes.
IsPair(x, s, t, p, q) ==
  /\ x \in Seq(Byte) /\ HasLen(x, p + 1 + q)
  /\ \A i \in 1 .. p : x[i] = s[i]
  /\ x[p + 1] = SEP
  /\ \A i \in 1 .. q : x[p + 1 + i] = t[i]

LEMMA TextSepText ==
  ASSUME NEW s \in Seq(Byte), NEW t \in Seq(Byte), NEW p \in Nat, NEW q \in Nat,
         HasLen(s, p), HasLen(t, q), NEW x, x = s \o <<SEP>> \o t
  PROVE  IsPair(x, s, t, p, q)
<1>1. PICK sp : sp = <<SEP>>
  OBVIOUS
<1>2. PICK y : y = s \o sp
  OBVIOUS
<1>3. sp \in Seq(Byte) /\ HasLen(sp, 1) /\ sp[1] = SEP
  BY <1>1 DEF SEP, Byte, HasLen
<1>4. x = y \o t
  BY <1>1, <1>2
<1>5. 1 \in Nat /\ p + 1 \in Nat /\ 1 \in 1 .. 1
  OBVIOUS
<1>6. IsJoin(y, s, sp, p, 1)
  BY <1>2, <1>3, <1>5, Joined, Zenon
<1>7. /\ y \in Seq(Byte) /\ HasLen(y, p + 1)
      /\ \A i \in 1 .. p : y[i] = s[i]
      /\ \A i \in 1 .. 1 : y[p + i] = sp[i]
  BY <1>6 DEF IsJoin
<1>8. IsJoin(x, y, t, p + 1, q)
  BY <1>4, <1>5, <1>7, Joined, Zenon
<1>9. /\ x \in Seq(Byte) /\ HasLen(x, p + 1 + q)
      /\ \A i \in 1 .. p + 1 : x[i] = y[i]
      /\ \A i \in 1 .. q : x[p + 1 + i] = t[i]
  BY <1>8 DEF IsJoin
<1>10. ASSUME NEW i \in 1 .. p PROVE x[i] = s[i]
  <2>1. i \in 1 .. p + 1
    OBVIOUS
  <2> QED BY <1>7, <1>9, <2>1
<1>11. x[p + 1] = SEP
  <2>1. p + 1 \in 1 .. p + 1
    OBVIOUS
  <2>2. x[p + 1] = y[p + 1]
    BY <1>9, <2>1
  <2> QED BY <1>3, <1>5, <1>7, <2>2
<1> QED BY <1>9, <1>10, <1>11 DEF IsPair

\* After its first a bytes x has the p bytes of s.
Carries(x, a, s, p) ==
  HasLen(s, p) /\ Len(x) >= a + p /\ \A i \in 1 .. p : x[a + i] = s[i]

LEMMA Stretch ==
  ASSUME NEW x \in Seq(Byte), NEW s \in Seq(Byte), NEW a \in Nat, NEW p \in Nat,
         Carries(x, a, s, p)
  PROVE  SubSeq(x, a + 1, a + p) = s
<1>0. HasLen(s, p) /\ Len(x) >= a + p /\ \A i \in 1 .. p : x[a + i] = s[i]
  BY DEF Carries
<1>1. PICK n \in Nat : n = Len(x)
  BY LenProperties
<1>2. \A i \in a + 1 .. a + p : x[i] \in Byte
  <2> SUFFICES ASSUME NEW i \in a + 1 .. a + p PROVE x[i] \in Byte
    OBVIOUS
  <2>1. i \in 1 .. n
    BY <1>0, <1>1
  <2> QED BY <1>1, <2>1, ElementOfSeq
<1>3. PICK g : g = SubSeq(x, a + 1, a + p)
  OBVIOUS
<1>4. g \in Seq(Byte)
  BY <1>2, <1>3, SubSeqProperties
<1>5. Len(g) = p
  <2>1. Len(g) = IF a + 1 <= a + p THEN (a + p) - (a + 1) + 1 ELSE 0
    BY <1>2, <1>3, SubSeqProperties
  <2> QED BY <2>1
<1>6. ASSUME NEW i \in 1 .. p PROVE g[i] = s[i]
  <2>1. \A k \in 1 .. (a + p) - (a + 1) + 1 : g[k] = x[(a + 1) + k - 1]
    BY <1>2, <1>3, SubSeqProperties
  <2>2. i \in 1 .. (a + p) - (a + 1) + 1 /\ (a + 1) + i - 1 = a + i
    OBVIOUS
  <2>3. g[i] = x[a + i]
    BY <2>1, <2>2
  <2> QED BY <1>0, <2>3
<1>7. HasLen(g, p)
  BY <1>4, <1>5, HasLenIsLen
<1> QED BY <1>0, <1>3, <1>4, <1>6, <1>7, SameSequence

\* The texts of the types are sequences of bytes.
LEMMA TypeTexts ==
  ASSUME NEW t \in MessageType
  PROVE  TypeText[t] \in Seq(Byte) /\ TypeLength \in Nat /\ Len(TypeText[t]) = TypeLength
<1>1. TypeText[t] \in Seq(Byte \ {NUL}) /\ Len(TypeText[t]) = TypeLength
  BY ProtocolFacts
<1>2. TypeText[t] \in Seq(Byte)
  BY <1>1
<1> QED BY <1>1, <1>2, ProtocolFacts

\* The body of a message is decoded into that message.
LEMMA BodyRoundTrip ==
  ASSUME NEW m \in Message, Len(m.payload) <= MaxPayload, NEW b,
         b = TypeText[m.type] \o <<SEP>> \o m.payload
  PROVE  /\ b \in Seq(Byte) /\ Len(b) \in TypeLength + 1 .. MaxBody
         /\ protocol_decode_body(b) = m
<1> DEFINE text == TypeText[m.type]
<1>1. PICK q : q = Len(m.payload)
  OBVIOUS
<1>2. m.type \in MessageType /\ m.payload \in Seq(Byte) /\ q \in Nat /\ q <= MaxPayload
  BY <1>1, LenProperties DEF Message
<1>3. TypeLength \in Nat /\ TypeLength >= 1 /\ MaxPayload \in Nat
  BY ProtocolFacts
<1>4. text \in Seq(Byte) /\ Len(text) = TypeLength
  BY <1>2, TypeTexts, Zenon
<1> HIDE DEF text
<1>5. HasLen(text, TypeLength) /\ HasLen(m.payload, q)
  BY <1>1, <1>2, <1>3, <1>4, HasLenIsLen
<1>6. b = text \o <<SEP>> \o m.payload
  BY DEF text
<1>a. IsPair(b, text, m.payload, TypeLength, q)
  BY <1>2, <1>3, <1>4, <1>5, <1>6, TextSepText, Zenon
<1>7. /\ b \in Seq(Byte) /\ HasLen(b, TypeLength + 1 + q)
      /\ \A i \in 1 .. TypeLength : b[i] = text[i]
      /\ b[TypeLength + 1] = SEP
      /\ \A i \in 1 .. q : b[TypeLength + 1 + i] = m.payload[i]
  BY <1>a DEF IsPair
<1>8. Len(b) = TypeLength + 1 + q
  <2>1. TypeLength + 1 + q \in Nat
    BY <1>2, <1>3
  <2> QED BY <1>7, <2>1, HasLenIsLen, Zenon
<1>9. Len(b) \in TypeLength + 1 .. MaxBody
  <2>1. TypeLength + 1 + q \in TypeLength + 1 .. MaxBody
    BY <1>2, <1>3 DEF MaxBody
  <2> QED BY <1>8, <2>1
<1>10. SubSeq(b, 1, TypeLength) = text
  <2>1. 0 \in Nat /\ 0 + 1 = 1 /\ 0 + TypeLength = TypeLength
        /\ \A i \in 1 .. TypeLength : 0 + i = i
    BY <1>3
  <2>2. \A i \in 1 .. TypeLength : b[0 + i] = text[i]
    BY <1>7, <2>1
  <2>3. Len(b) >= 0 + TypeLength
    <3>1. TypeLength + 1 + q >= 0 + TypeLength
      BY <1>2, <1>3
    <3> QED BY <1>8, <3>1, Zenon
  <2>4. Carries(b, 0, text, TypeLength)
    BY <1>5, <2>2, <2>3 DEF Carries
  <2>5. SubSeq(b, 0 + 1, 0 + TypeLength) = text
    BY <1>3, <1>4, <1>7, <2>1, <2>4, Stretch
  <2> QED BY <2>1, <2>5
<1>11. SubSeq(b, TypeLength + 2, Len(b)) = m.payload
  <2>1. TypeLength + 1 \in Nat /\ (TypeLength + 1) + 1 = TypeLength + 2
    BY <1>3
  <2>2. Len(b) >= (TypeLength + 1) + q
    <3>1. TypeLength + 1 + q >= (TypeLength + 1) + q
      BY <1>2, <1>3
    <3> QED BY <1>8, <3>1, Zenon
  <2>3. Carries(b, TypeLength + 1, m.payload, q)
    BY <1>5, <1>7, <2>2 DEF Carries
  <2>4. SubSeq(b, (TypeLength + 1) + 1, (TypeLength + 1) + q) = m.payload
    BY <1>2, <1>7, <2>1, <2>3, Stretch
  <2> QED BY <1>8, <2>1, <2>4
<1>12. protocol_type_from_text(text) = m.type
  <2>1. \E t \in MessageType : TypeText[t] = text
    BY <1>2 DEF text
  <2>2. \A t \in MessageType : TypeText[t] = text => t = m.type
    BY <1>2, ProtocolFacts DEF text
  <2> QED BY <2>1, <2>2 DEF protocol_type_from_text
<1>13. m.type # "INVALID"
  BY <1>2, ProtocolFacts
<1>14. protocol_decode_body(b) = [type |-> m.type, payload |-> m.payload]
  BY <1>7, <1>9, <1>10, <1>11, <1>12, <1>13 DEF protocol_decode_body
<1>15. m = [type |-> m.type, payload |-> m.payload]
  BY DEF Message
<1> QED BY <1>7, <1>9, <1>14, <1>15

LEMMA NoNulNoCut ==
  ASSUME NEW f \in Seq(Byte), NEW n \in Nat, Len(f) = n, \A i \in 1 .. n : f[i] # NUL
  PROVE  CString(f) = f
<1>1. {i \in DOMAIN f : f[i] = NUL} = {}
  <2>1. DOMAIN f = 1 .. n
    BY LenProperties
  <2> QED BY <2>1
<1> QED BY <1>1 DEF CString

\* What protocol_encode_frame returns, when it returns a frame.
LEMMA EncodedFrame ==
  ASSUME NEW m \in Message, NEW size, NEW f, f = protocol_encode_frame(m, size),
         f # NoFrame
  PROVE  \E b, l, c \in Seq(Byte), n \in TypeLength + 1 .. MaxBody :
           /\ b = TypeText[m.type] \o <<SEP>> \o m.payload /\ Len(b) = n
           /\ l = HexText(n) /\ c = HexText(protocol_compute_checksum(l \o <<SEP>> \o b))
           /\ HexByte(c[1], c[2]) = protocol_compute_checksum(l \o <<SEP>> \o b)
           /\ f \in Seq(Byte) /\ HasParts(f, l, b, c, n)
           /\ protocol_decode_body(b) = m
<1>1. m.type \in MessageType
  BY DEF Message
<1>2. PICK b : b = TypeText[m.type] \o <<SEP>> \o m.payload
  OBVIOUS
<1>3. PICK n : n = Len(b)
  OBVIOUS
<1>4. PICK l : l = HexText(n)
  OBVIOUS
<1>5. PICK d : d = l \o <<SEP>> \o b
  OBVIOUS
<1>6. PICK c : c = HexText(protocol_compute_checksum(d))
  OBVIOUS
<1>7. /\ Len(m.payload) <= MaxPayload
      /\ f = <<START>> \o d \o <<SEP>> \o c \o <<END>>
  BY <1>1, <1>2, <1>3, <1>4, <1>5, <1>6
     DEF protocol_encode_frame, protocol_type_to_text
<1>8. b \in Seq(Byte) /\ n \in TypeLength + 1 .. MaxBody /\ protocol_decode_body(b) = m
  BY <1>2, <1>3, <1>7, BodyRoundTrip
<1>9. n \in Nat /\ n \in 0 .. 255
  BY <1>8, Widths, ProtocolFacts
<1>10. HasLen(b, n)
  BY <1>3, <1>8, <1>9, HasLenIsLen
<1>11. /\ HexByte(l[1], l[2]) = n /\ IsHex(l[1]) /\ IsHex(l[2])
       /\ l \in Seq(Byte) /\ HasLen(l, 2)
  BY <1>4, <1>9, HexRoundTrip
<1>12. d \in Seq(Byte)
  <2>1. SEP \in Byte
    BY DEF SEP, Byte
  <2>2. l \o <<SEP>> \o b \in Seq(Byte)
    BY <1>8, <1>9, <1>10, <1>11, <2>1, LengthSepBody
  <2> QED BY <1>5, <2>2
<1>13. PICK k : k = protocol_compute_checksum(d)
  OBVIOUS
<1>14. k \in 0 .. 255
  BY <1>12, <1>13, ChecksumIsByte
<1>15. /\ HexByte(c[1], c[2]) = k /\ IsHex(c[1]) /\ IsHex(c[2])
       /\ c \in Seq(Byte) /\ HasLen(c, 2)
  <2>1. c = HexText(k)
    BY <1>6, <1>13
  <2> QED BY <1>14, <2>1, HexRoundTrip
<1>16. f \in Seq(Byte) /\ HasParts(f, l, b, c, n)
  <2>1. LET g == <<START>> \o (l \o <<SEP>> \o b) \o <<SEP>> \o c \o <<END>>
        IN  g \in Seq(Byte) /\ HasParts(g, l, b, c, n)
    BY <1>8, <1>9, <1>10, <1>11, <1>15, FrameHasParts
  <2> QED BY <1>5, <1>7, <2>1
<1> QED BY <1>2, <1>3, <1>4, <1>5, <1>6, <1>8, <1>11, <1>13, <1>15, <1>16, Zenon

\* The validator, handed the bytes of an encoded frame, finds the message in it.
LEMMA ValidatesEncoded ==
  ASSUME NEW m \in Message, NEW size, NEW f, f = protocol_encode_frame(m, size),
         f # NoFrame
  PROVE  f \in Seq(Byte) /\ ValidateBytes(f) = m
<1>1. PICK b \in Seq(Byte), l \in Seq(Byte), c \in Seq(Byte), n \in TypeLength + 1 .. MaxBody :
        /\ HexByte(c[1], c[2]) = protocol_compute_checksum(l \o <<SEP>> \o b)
        /\ f \in Seq(Byte) /\ HasParts(f, l, b, c, n)
        /\ protocol_decode_body(b) = m
  BY EncodedFrame, Zenon
<1>2. ValidateBytes(f) =
        IF protocol_compute_checksum(l \o <<SEP>> \o b) = HexByte(c[1], c[2])
        THEN protocol_decode_body(b) ELSE NoMessage
  BY <1>1, ValidateParts
<1> QED BY <1>1, <1>2

\* A place is before, at or after another.
LEMMA ThreeStretches ==
  ASSUME NEW p \in Nat, NEW n \in Nat, NEW i \in 1 .. n
  PROVE  i \in 1 .. p \/ i = p + 1 \/ i \in p + 2 .. n
OBVIOUS

\* A byte that is neither in the texts of a message nor of the frame's own
\* alphabet is in no byte of its frame after the first.
LEMMA ForeignByte ==
  ASSUME NEW m \in Message, NEW size, NEW f, f = protocol_encode_frame(m, size),
         f # NoFrame, NEW x, x \notin Digit, x # SEP, x # END,
         \A i \in 1 .. TypeLength : TypeText[m.type][i] # x,
         \A i \in 1 .. Len(m.payload) : m.payload[i] # x
  PROVE  f[1] = START /\ \A i \in 2 .. Len(f) : f[i] # x
<1>1. PICK b \in Seq(Byte), l \in Seq(Byte), c \in Seq(Byte), n \in TypeLength + 1 .. MaxBody :
        /\ b = TypeText[m.type] \o <<SEP>> \o m.payload /\ Len(b) = n
        /\ l = HexText(n) /\ c = HexText(protocol_compute_checksum(l \o <<SEP>> \o b))
        /\ f \in Seq(Byte) /\ HasParts(f, l, b, c, n)
  BY EncodedFrame, Zenon
<1>2. n \in Nat /\ n \in 0 .. 255
  <2>1. n \in Nat /\ n <= MaxBody
    BY <1>1, Widths
  <2>2. MaxBody \in Nat /\ MaxBody <= 255
    BY Widths, ProtocolFacts
  <2> QED BY <2>1, <2>2
<1>3. \A y \in Digit : y # x
  OBVIOUS
<1>4. l[1] # x /\ l[2] # x
  <2>1. l = HexText(n)
    BY <1>1
  <2>2. n \in 0 .. 255
    BY <1>2
  <2>3. l[1] \in Digit /\ l[2] \in Digit
    BY <2>1, <2>2, HexRoundTrip
  <2> QED BY <1>3, <2>3, Zenon
<1>5. HasLen(f, n + 8) /\ HasLen(l, 2) /\ HasLen(b, n)
  BY <1>1 DEF HasParts
<1>6. c[1] # x /\ c[2] # x
  <2>1. PICK d : d = l \o <<SEP>> \o b
    OBVIOUS
  <2>2. d \in Seq(Byte)
    <3>1. SEP \in Byte
      BY DEF SEP, Byte
    <3>2. l \o <<SEP>> \o b \in Seq(Byte)
      BY <1>2, <1>5, <3>1, LengthSepBody
    <3> QED BY <2>1, <3>2
  <2>3. PICK k : k = protocol_compute_checksum(d)
    OBVIOUS
  <2>4. k \in 0 .. 255
    BY <2>2, <2>3, ChecksumIsByte
  <2>5. c = HexText(k)
    BY <1>1, <2>1, <2>3
  <2>6. c[1] \in Digit /\ c[2] \in Digit
    BY <2>4, <2>5, HexRoundTrip
  <2> QED BY <1>3, <2>6, Zenon
<1>7. ASSUME NEW i \in 1 .. n PROVE b[i] # x
  <2>1. PICK text : text = TypeText[m.type]
    OBVIOUS
  <2>2. PICK pl : pl = m.payload
    OBVIOUS
  <2>3. PICK q : q = Len(pl)
    OBVIOUS
  <2>4. m.type \in MessageType /\ pl \in Seq(Byte) /\ q \in Nat
    BY <2>2, <2>3, LenProperties DEF Message
  <2>5. TypeLength \in Nat /\ text \in Seq(Byte) /\ Len(text) = TypeLength
    BY <2>1, <2>4, TypeTexts, Zenon
  <2>6. HasLen(text, TypeLength) /\ HasLen(pl, q)
    BY <2>3, <2>4, <2>5, HasLenIsLen
  <2>7. b = text \o <<SEP>> \o pl
    BY <1>1, <2>1, <2>2
  <2>8. IsPair(b, text, pl, TypeLength, q)
    BY <2>4, <2>5, <2>6, <2>7, TextSepText, Zenon
  <2>9. /\ HasLen(b, TypeLength + 1 + q)
        /\ \A j \in 1 .. TypeLength : b[j] # x
        /\ b[TypeLength + 1] # x
        /\ \A j \in 1 .. q : b[TypeLength + 1 + j] # x
    <3>1. /\ HasLen(b, TypeLength + 1 + q)
          /\ \A j \in 1 .. TypeLength : b[j] = text[j]
          /\ b[TypeLength + 1] = SEP
          /\ \A j \in 1 .. q : b[TypeLength + 1 + j] = pl[j]
      BY <2>8, Zenon DEF IsPair
    <3>2. \A j \in 1 .. TypeLength : text[j] # x
      BY <2>1, Zenon
    <3>3. \A j \in 1 .. q : pl[j] # x
      BY <2>2, <2>3, Zenon
    <3> QED BY <1>3, <3>1, <3>2, <3>3, Zenon
  <2>10. n = TypeLength + 1 + q
    <3>1. TypeLength + 1 + q \in Nat
      BY <2>4, <2>5
    <3> QED BY <1>1, <2>9, <3>1, HasLenIsLen, Zenon
  <2>11. CASE i \in 1 .. TypeLength
    BY <2>9, <2>11
  <2>12. CASE i = TypeLength + 1
    BY <2>9, <2>12
  <2>13. CASE i \in TypeLength + 2 .. n
    <3>1. i - (TypeLength + 1) \in 1 .. q /\ TypeLength + 1 + (i - (TypeLength + 1)) = i
      BY <2>4, <2>5, <2>10, <2>13
    <3> QED BY <2>9, <3>1
  <2>14. i \in 1 .. TypeLength \/ i = TypeLength + 1 \/ i \in TypeLength + 2 .. n
    BY <1>2, <2>5, ThreeStretches, Zenon
  <2> QED BY <2>11, <2>12, <2>13, <2>14
<1>8. ASSUME NEW i \in 2 .. n + 8 PROVE f[i] # x
  <2>0. /\ f[1] = START /\ f[2] = l[1] /\ f[3] = l[2] /\ f[4] = SEP
        /\ \A j \in 1..n : f[4 + j] = b[j]
        /\ f[n + 5] = SEP /\ f[n + 6] = c[1] /\ f[n + 7] = c[2] /\ f[n + 8] = END
    <3>1. HasParts(f, l, b, c, n)
      BY <1>1
    <3> QED BY <3>1, Zenon DEF HasParts
  <2>1. /\ f[2] # x /\ f[3] # x /\ f[4] # x
        /\ \A j \in 1..n : f[4 + j] # x
        /\ f[n + 5] # x /\ f[n + 6] # x /\ f[n + 7] # x /\ f[n + 8] # x
    <3>1. f[2] # x /\ f[3] # x /\ f[4] # x
      BY <1>3, <1>4, <2>0, Zenon
    <3>2. f[n + 5] # x /\ f[n + 6] # x /\ f[n + 7] # x /\ f[n + 8] # x
      BY <1>3, <1>6, <2>0, Zenon
    <3>3. \A j \in 1..n : f[4 + j] # x
      BY <1>7, <2>0, Zenon
    <3> QED BY <3>1, <3>2, <3>3
  <2>2. CASE i \in 5 .. n + 4
    <3>1. i - 4 \in 1 .. n /\ 4 + (i - 4) = i
      BY <1>2, <2>2
    <3> QED BY <2>1, <3>1
  <2>3. CASE i \in 2 .. 4
    <3>1. i = 2 \/ i = 3 \/ i = 4
      BY <2>3
    <3> QED BY <2>1, <3>1
  <2>4. CASE i \in n + 5 .. n + 8
    <3>1. i = n + 5 \/ i = n + 6 \/ i = n + 7 \/ i = n + 8
      BY <1>2, <2>4
    <3> QED BY <2>1, <3>1
  <2> QED BY <1>2, <2>2, <2>3, <2>4
<1>9. Len(f) = n + 8
  <2>1. n + 8 \in Nat
    BY <1>2
  <2> QED BY <1>1, <1>5, <2>1, HasLenIsLen
<1>10. f[1] = START
  BY <1>1, Zenon DEF HasParts
<1> QED BY <1>8, <1>9, <1>10

\* The texts of the types and an encoded payload hold no NUL.
LEMMA NoNulInFrame ==
  ASSUME NEW m \in Message, NEW size, NEW f, f = protocol_encode_frame(m, size),
         f # NoFrame
  PROVE  \A i \in 1 .. Len(f) : f[i] # NUL
<1>1. NUL \notin Range(m.payload)
  BY DEF protocol_encode_frame
<1>2. m.type \in MessageType /\ m.payload \in Seq(Byte)
  BY DEF Message
<1>3. \A i \in 1 .. TypeLength : TypeText[m.type][i] # NUL
  <2>1. TypeText[m.type] \in Seq(Byte \ {NUL}) /\ Len(TypeText[m.type]) = TypeLength
    BY <1>2, ProtocolFacts
  <2> QED BY <2>1
<1>4. \A i \in 1 .. Len(m.payload) : m.payload[i] # NUL
  BY <1>1, <1>2 DEF Range
<1>5. NUL \notin Digit /\ NUL # SEP /\ NUL # END /\ NUL # START
  BY DEF NUL, SEP, END, START, Digit
<1>6. f[1] = START /\ \A i \in 2 .. Len(f) : f[i] # NUL
  BY <1>3, <1>4, <1>5, ForeignByte
<1>7. \A i \in 1 .. Len(f) : i = 1 \/ i \in 2 .. Len(f)
  OBVIOUS
<1> QED BY <1>5, <1>6, <1>7

\* protocol.h: decoding inverts encoding.  For all widths and all messages, a
\* frame protocol_encode_frame builds is accepted by protocol_validate_frame,
\* which finds in it the message that was encoded.
THEOREM RoundTrip ==
  ASSUME NEW m \in Message, NEW size, protocol_encode_frame(m, size) # NoFrame
  PROVE  protocol_validate_frame(protocol_encode_frame(m, size)) = m
<1>1. PICK f : f = protocol_encode_frame(m, size)
  OBVIOUS
<1>2. f \in Seq(Byte) /\ ValidateBytes(f) = m /\ f # NoFrame
  BY <1>1, ValidatesEncoded
<1>3. PICK n \in Nat : n = Len(f)
  BY <1>2, LenProperties
<1>4. \A i \in 1 .. n : f[i] # NUL
  BY <1>1, <1>2, <1>3, NoNulInFrame
<1>5. CString(f) = f
  BY <1>2, <1>3, <1>4, NoNulNoCut
<1>6. protocol_validate_frame(f) = m
  BY <1>2, <1>5 DEF protocol_validate_frame
<1> QED BY <1>1, <1>6

\* A frame that passes the validator has its parts in their places.
LEMMA WellFormedFacts ==
  ASSUME NEW f \in Seq(Byte), WellFormed(f), NEW n \in Nat, Len(f) = n + 8
  PROVE  /\ n \in TypeLength + 1 .. MaxBody
         /\ protocol_compute_checksum(SubSeq(f, 2, n + 4)) = HexByte(f[n + 6], f[n + 7])
         /\ ValidateBytes(f) = protocol_decode_body(SubSeq(f, 5, n + 4))
<1>1. PICK l : l = HexByte(f[2], f[3])
  OBVIOUS
<1>2. /\ l \in TypeLength + 1 .. MaxBody /\ Len(f) = l + 8
      /\ protocol_compute_checksum(SubSeq(f, 2, l + 4)) = HexByte(f[l + 6], f[l + 7])
  BY <1>1, Zenon DEF WellFormed
<1>3. l = n
  BY <1>2, Widths
<1>4. Len(f) - 4 = n + 4
  OBVIOUS
<1>5. ValidateBytes(f) = protocol_decode_body(SubSeq(f, 5, n + 4))
  BY <1>4, Zenon DEF ValidateBytes
<1> QED BY <1>2, <1>3, <1>5

\* No byte of a frame can be altered into another message: whichever byte is
\* altered, the validator refuses the frame or still finds the message that was
\* sent in it.  (It does when a digit of CC is written in lower case.)
THEOREM AlteredByteIsNoOtherMessage ==
  ASSUME NEW m \in Message, NEW size, NEW f, f = protocol_encode_frame(m, size),
         f # NoFrame, NEW k \in 1 .. Len(f), NEW b \in Byte
  PROVE  ValidateBytes([f EXCEPT ![k] = b]) \in {m, NoMessage}
<1>1. f \in Seq(Byte) /\ ValidateBytes(f) = m
  BY ValidatesEncoded
<1>2. m # NoMessage
  BY ProtocolAssumption DEF Message, NoMessage, ProtocolOK
<1>3. WellFormed(f)
  BY <1>1, <1>2 DEF ValidateBytes
<1>4. PICK g : g = [f EXCEPT ![k] = b]
  OBVIOUS
<1>5. /\ g \in Seq(Byte) /\ Len(g) = Len(f) /\ g[k] = b
      /\ \A j \in 1 .. Len(f) : j # k => g[j] = f[j]
  BY <1>1, <1>4, ExceptSeq
<1> SUFFICES ASSUME WellFormed(g) PROVE ValidateBytes(g) = m
  BY <1>4 DEF ValidateBytes
<1>6. PICK n \in Nat : Len(f) = n + 8
  <2>1. Len(f) >= TypeLength + 9 /\ Len(f) \in Nat
    BY <1>1, <1>3, LenProperties DEF WellFormed
  <2>2. Len(f) - 8 \in Nat /\ Len(f) = (Len(f) - 8) + 8
    BY <2>1, Widths
  <2> QED BY <2>2
<1>7. /\ protocol_compute_checksum(SubSeq(f, 2, n + 4)) = HexByte(f[n + 6], f[n + 7])
      /\ m = protocol_decode_body(SubSeq(f, 5, n + 4))
  BY <1>1, <1>3, <1>6, WellFormedFacts
<1>8. /\ protocol_compute_checksum(SubSeq(g, 2, n + 4)) = HexByte(g[n + 6], g[n + 7])
      /\ ValidateBytes(g) = protocol_decode_body(SubSeq(g, 5, n + 4))
  BY <1>5, <1>6, WellFormedFacts
<1>9. CASE k \in 2 .. n + 4
  <2>1. PICK s, t : s = SubSeq(f, 2, n + 4) /\ t = SubSeq(g, 2, n + 4)
    OBVIOUS
  <2>2. /\ s \in Seq(Byte) /\ Len(s) = n + 3 /\ \A j \in 1 .. n + 3 : s[j] = f[j + 1]
    <3>1. \A j \in 2 .. n + 4 : f[j] \in Byte
      BY <1>1, <1>6, ElementOfSeq
    <3> QED BY <2>1, <3>1, SubSeqProperties
  <2>3. /\ t \in Seq(Byte) /\ Len(t) = n + 3 /\ \A j \in 1 .. n + 3 : t[j] = g[j + 1]
    <3>1. \A j \in 2 .. n + 4 : g[j] \in Byte
      BY <1>5, <1>6, ElementOfSeq
    <3> QED BY <2>1, <3>1, SubSeqProperties
  <2>4. protocol_compute_checksum(s) = protocol_compute_checksum(t)
    <3>1. g[n + 6] = f[n + 6] /\ g[n + 7] = f[n + 7]
      <4>1. /\ n + 6 \in 1 .. Len(f) /\ n + 6 # k
            /\ n + 7 \in 1 .. Len(f) /\ n + 7 # k
        BY <1>6, <1>9
      <4> QED BY <1>5, <4>1
    <3> QED BY <1>7, <1>8, <2>1, <3>1
  <2>5. \A j \in 1 .. Len(s) : j # k - 1 => s[j] = t[j]
    <3> SUFFICES ASSUME NEW j \in 1 .. n + 3, j # k - 1 PROVE s[j] = t[j]
      BY <2>2
    <3>1. j + 1 \in 1 .. Len(f) /\ j + 1 # k
      BY <1>6, <1>9
    <3> QED BY <1>5, <2>2, <2>3, <3>1
  <2>6. k - 1 \in 1 .. Len(s) /\ Len(s) = Len(t) /\ k - 1 \in 1 .. n + 3 /\ (k - 1) + 1 = k
    BY <1>9, <2>2, <2>3
  <2>7. s[k - 1] = t[k - 1]
    BY <2>2, <2>3, <2>4, <2>5, <2>6, OneByteTurnsTheChecksum
  <2>8. f[k] = g[k]
    BY <2>2, <2>3, <2>6, <2>7
  <2>9. f = g
    <3>1. \A j \in 1 .. Len(f) : f[j] = g[j]
      BY <1>5, <2>8
    <3> QED BY <1>1, <1>5, <3>1, SeqEqual
  <2> QED BY <1>1, <2>9
<1>10. CASE k \notin 2 .. n + 4
  <2>1. SubSeq(f, 5, n + 4) = SubSeq(g, 5, n + 4)
    <3>1. /\ \A j \in 5 .. n + 4 : f[j] \in Byte /\ g[j] \in Byte
          /\ \A j \in 5 .. n + 4 : f[j] = g[j]
      <4>1. \A j \in 5 .. n + 4 : j \in 1 .. Len(f) /\ j # k
        BY <1>6, <1>10
      <4> QED BY <1>1, <1>5, <4>1, ElementOfSeq
    <3>2. PICK s, t : s = SubSeq(f, 5, n + 4) /\ t = SubSeq(g, 5, n + 4)
      OBVIOUS
    <3>3. /\ s \in Seq(Byte) /\ Len(s) = (IF 5 <= n + 4 THEN (n + 4) - 5 + 1 ELSE 0)
          /\ \A j \in 1 .. (n + 4) - 5 + 1 : s[j] = f[5 + j - 1]
      BY <3>1, <3>2, SubSeqProperties
    <3>4. /\ t \in Seq(Byte) /\ Len(t) = (IF 5 <= n + 4 THEN (n + 4) - 5 + 1 ELSE 0)
          /\ \A j \in 1 .. (n + 4) - 5 + 1 : t[j] = g[5 + j - 1]
      BY <3>1, <3>2, SubSeqProperties
    <3>5. \A j \in 1 .. n : s[j] = t[j]
      BY <3>1, <3>3, <3>4
    <3>6. Len(s) = Len(t) /\ \A j \in 1 .. Len(s) : s[j] = t[j]
      BY <3>3, <3>4, <3>5
    <3> QED BY <3>2, <3>3, <3>4, <3>6, SeqEqual
  <2> QED BY <1>7, <1>8, <2>1
<1> QED BY <1>9, <1>10

\* A frame whose payload holds no carriage return is a frame as the parser
\* reads it.
LEMMA EncodedShape ==
  ASSUME NEW m \in Message, NEW size, NEW f, f = protocol_encode_frame(m, size),
         f # NoFrame,
         \A i \in 1 .. TypeLength : TypeText[m.type][i] # CR,
         \A i \in 1 .. Len(m.payload) : m.payload[i] # CR
  PROVE  \E n \in TypeLength + 1 .. MaxBody : Shape(f, n) /\ Len(f) = n + 8
<1>1. PICK b \in Seq(Byte), l \in Seq(Byte), c \in Seq(Byte), n \in TypeLength + 1 .. MaxBody :
        f \in Seq(Byte) /\ HasParts(f, l, b, c, n)
  BY EncodedFrame, Zenon
<1>2. CR \notin Digit /\ CR # SEP /\ CR # END /\ CR # START
  BY DEF CR, SEP, END, START, Digit
<1>3. \A i \in 1 .. Len(f) : f[i] # CR
  <2>1. f[1] = START /\ \A i \in 2 .. Len(f) : f[i] # CR
    BY <1>2, ForeignByte
  <2>2. \A i \in 1 .. Len(f) : i = 1 \/ i \in 2 .. Len(f)
    OBVIOUS
  <2> QED BY <1>2, <2>1, <2>2
<1>4. n \in Nat /\ n + 8 \in Nat
  BY Widths
<1>5. HasLen(f, n + 8)
  BY <1>1 DEF HasParts
<1>6. Len(f) = n + 8
  BY <1>1, <1>4, <1>5, HasLenIsLen
<1>7. Shape(f, n)
  BY <1>1, <1>3, <1>6 DEF HasParts, Shape
<1> QED BY <1>6, <1>7

\* No byte of a frame after the first is a START when the texts hold none.
LEMMA OneStart ==
  ASSUME NEW m \in Message, NEW size, NEW f, f = protocol_encode_frame(m, size),
         f # NoFrame,
         \A i \in 1 .. TypeLength : TypeText[m.type][i] # START,
         \A i \in 1 .. Len(m.payload) : m.payload[i] # START
  PROVE  \A i \in 2 .. Len(f) : f[i] # START
<1>1. START \notin Digit /\ START # SEP /\ START # END
  BY DEF START, SEP, END, Digit
<1> QED BY <1>1, ForeignByte

\* The invariant holds in every reachable state of the parser.
THEOREM InvHolds == Spec => []IInv
<1>1. Init => IInv
  BY InitInv
<1>2. IInv /\ [Next]_vars => IInv'
  BY NextInv
<1> QED BY <1>1, <1>2, PTL DEF Spec

\* Type correctness of the parser, for all widths.
THEOREM TypeCorrect == Spec => []TypeOK
BY InvHolds, InvImplies, PTL

\* No length on the line makes READ_BODY write outside body[]: for all widths,
\* bodies and streams, the next byte and the terminator both have a place in it.
THEOREM BodyNeverOverruns == Spec => []BodyInBounds
BY InvHolds, InvImplies, PTL

\* The incremental parser makes the batch validation: for every stream of bytes, it
\* returns a message exactly when the bytes since the '@' pass the tests of
\* protocol_validate_frame (told their number, which strlen gives it unless one of
\* them is a NUL), and it returns that frame's message.
THEOREM IncrementalIsBatch == Spec => []AgreesWithValidateFrame
BY InvHolds, InvImplies, PTL

\* No frame, however damaged, holds the parser for more than MaxBody + 8 bytes.
THEOREM FramesAreBounded == Spec => []FrameIsBounded
BY InvHolds, InvImplies, PTL

\* parser_error gives every '@' outside a body its chance to open a frame.
THEOREM StartIsNeverLost == Spec => StartAlwaysOpensAFrame
<1>1. ASSUME [Next]_vars
      PROVE  [byte' = START /\ state # "READ_BODY" => state' = "READ_LEN_HI"]_vars
  <2>1. CASE UNCHANGED vars
    BY <2>1
  <2>2. CASE Next
    <3> SUFFICES ASSUME byte' = START, state # "READ_BODY"
                 PROVE  state' = "READ_LEN_HI"
      OBVIOUS
    <3>1. PICK b : parser_consume_byte(b) /\ b = START
      BY <2>2 DEF Next, parser_consume_byte
    <3>2. /\ ~IsHex(START) /\ START # CR /\ START # SEP /\ START # END
      BY DEF IsHex, hex_char_to_nibble, START, CR, SEP, END
    <3>3. parser_error(b) => state' = "READ_LEN_HI"
      BY <3>1 DEF parser_error, ResetTo
    <3> QED BY <3>1, <3>2, <3>3
            DEF parser_consume_byte, IgnoreCarriageReturn, WaitStart, ReadLenHi,
                ReadLenLo, ExpectLenSeparator, ReadBody, ExpectCheckSeparator,
                ReadCheckHi, ReadCheckLo, ExpectEnd
  <2> QED BY <1>1, <2>1, <2>2
<1> QED BY <1>1, PTL DEF Spec, StartAlwaysOpensAFrame
=============================================================================
