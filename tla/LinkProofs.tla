----------------------------- MODULE LinkProofs -----------------------------
(***************************************************************************)
(* Proof that a damaged byte costs a bounded part of what is sent over a   *)
(* line, for all widths, any clean traffic and any number of damages.      *)
(*                                                                         *)
(* LossIsBounded speaks of the moments at which the line is empty.  What   *)
(* carries it from one to the next is where the parser is in the frame on  *)
(* the line, once a frame has been sent since the last damage: still in    *)
(* what the damage opened (Lost), between frames and past the '@' of this  *)
(* one (Late), or in step with the frames from some frame on (InStep).     *)
(***************************************************************************)
EXTENDS Link, ParserProofs

\* A frame of n bytes of body that the parser reads whole, with one '@'.
Whole(f, n) ==
  /\ n \in TypeLength + 1 .. MaxBody /\ f \in Seq(Byte) /\ Shape(f, n)
  /\ \A i \in 2 .. n + 8 : f[i] # START

\* The line holds what follows the first p bytes of f, with the '\r' of
\* task_uart_tx before the END.
Ahead(f, n, p) ==
  \/ /\ p <= n + 7 /\ HasLen(line, n + 9 - p)
     /\ \A i \in 1 .. n + 7 - p : line[i] = f[p + i]
     /\ line[n + 8 - p] = CR /\ line[n + 9 - p] = END
  \/ p = n + 7 /\ HasLen(line, 1) /\ line[1] = END
  \/ p = n + 8 /\ line = << >>

\* The parser has not come to the end of what the damage opened, which began
\* before all the bytes that came after the damaged frame d.
Lost(d, k, p) ==
  d > 0 /\ state # "WAIT_START" /\ start[k] - start[d + 1] + p < Len(window)

\* It has, too late to read the frame k on the line.
Late(d, k, p) ==
  d > 0 /\ state = "WAIT_START" /\ p >= 1 /\ start[k] - start[d + 1] < MaxBody + 8

\* The messages s to j are the last ones delivered.
LastAre(s, j) ==
  /\ j - s < Len(delivered)
  /\ \A i \in s .. j : delivered[Len(delivered) - j + i] = sent[i]

\* Frame s is the first after what the damage opened.
Soon(d, s) == s = d + 1 \/ (d > 0 /\ start[s - 1] - start[d + 1] < MaxBody + 8)

\* The frames s to k are read from their '@' on.
InStep(f, n, p, d, s, k) ==
  /\ s \in d + 1 .. k /\ Soon(d, s)
  /\ \/ p = 0 /\ state = "WAIT_START" /\ LastAre(s, k - 1)
     \/ p \in 1 .. n + 7 /\ state # "WAIT_START" /\ HasRead(f, p) /\ LastAre(s, k - 1)
     \/ p = n + 8 /\ state = "WAIT_START" /\ LastAre(s, k)

Follows(f, n, p, d, k) ==
  \/ Lost(d, k, p)
  \/ Late(d, k, p)
  \/ \E s \in d + 1 .. k : InStep(f, n, p, d, s, k)

\* f is the frame of the last message, k, and p bytes of it have been read.
OnTheLine(f, n, p, k) ==
  /\ Whole(f, n) /\ ValidateBytes(f) = sent[k]
  /\ start[k + 1] = start[k] + n + 8
  /\ p \in 0 .. n + 8 /\ Ahead(f, n, p)

OnTrack(d, k) ==
  \E f \in Seq(Byte), n \in TypeLength + 1 .. MaxBody, p \in Nat :
    OnTheLine(f, n, p, k) /\ Follows(f, n, p, d, k)

StreamOK ==
  /\ traffic \in Traffic
  /\ line \in Seq(Byte)
  /\ sent \in Seq(Message) /\ delivered \in Seq(Message)
  /\ damaged \in Seq(Nat) /\ LastDamaged \in 0 .. Len(sent)
  /\ start \in Seq(Nat) /\ Len(start) = Len(sent) + 1
  /\ \A i, k \in 1 .. Len(sent) + 1 : i <= k => start[i] <= start[k]
  /\ sent = << >> => state = "WAIT_START" /\ line = << >>

LinkInv ==
  /\ IInv /\ StreamOK
  /\ LastDamaged < Len(sent) => OnTrack(LastDamaged, Len(sent))

-----------------------------------------------------------------------------
(* The line.                                                                *)

\* The next byte of the line is the next of the frame, or the '\r' before END.
LEMMA NextByte ==
  ASSUME NEW f, NEW n \in Nat, NEW p \in 0 .. n + 8, f[n + 8] = END,
         line \in Seq(Byte), line # << >>, Ahead(f, n, p), line' = Tail(line)
  PROVE  \/ p = n + 7 /\ Head(line) = CR /\ Ahead(f, n, p)'
         \/ p <= n + 7 /\ Head(line) = f[p + 1] /\ Ahead(f, n, p + 1)'
<1>1. PICK t : t = Tail(line)
  OBVIOUS
<1>2. PICK l \in Nat : l = Len(line)
  BY LenProperties
<1>3. /\ t \in Seq(Byte) /\ Len(t) = l - 1 /\ l >= 1
      /\ \A i \in 1 .. l - 1 : t[i] = line[i + 1]
      /\ Head(line) = line[1]
  BY <1>1, <1>2, HeadTailProperties, EmptySeq
<1>4. CASE /\ p <= n + 7 /\ HasLen(line, n + 9 - p)
           /\ \A i \in 1 .. n + 7 - p : line[i] = f[p + i]
           /\ line[n + 8 - p] = CR /\ line[n + 9 - p] = END
  <2>1. l = n + 9 - p
    BY <1>2, <1>4 DEF HasLen
  <2>2. CASE p = n + 7
    <3>1. l = 2 /\ line[1] = CR /\ line[2] = END
      BY <1>4, <2>1, <2>2
    <3>2. HasLen(t, 1) /\ t[1] = END
      BY <1>3, <3>1 DEF HasLen
    <3>3. Ahead(f, n, p)'
      BY <1>1, <2>2, <3>2 DEF Ahead, HasLen
    <3> QED BY <1>3, <2>2, <3>1, <3>3
  <2>3. CASE p < n + 7
    <3>1. Head(line) = f[p + 1]
      BY <1>3, <1>4, <2>3
    <3>2. HasLen(t, n + 9 - (p + 1))
      BY <1>3, <2>1 DEF HasLen
    <3>3. \A i \in 1 .. n + 7 - (p + 1) : t[i] = f[(p + 1) + i]
      <4> SUFFICES ASSUME NEW i \in 1 .. n + 7 - (p + 1) PROVE t[i] = f[(p + 1) + i]
        OBVIOUS
      <4>1. i + 1 \in 1 .. n + 7 - p /\ i \in 1 .. l - 1 /\ p + (i + 1) = (p + 1) + i
        BY <2>1
      <4>2. t[i] = line[i + 1] /\ line[i + 1] = f[p + (i + 1)]
        BY <1>3, <1>4, <4>1
      <4> QED BY <4>1, <4>2
    <3>4. t[n + 8 - (p + 1)] = CR /\ t[n + 9 - (p + 1)] = END
      <4>1. PICK a, b : a = n + 8 - (p + 1) /\ b = n + 9 - (p + 1)
        OBVIOUS
      <4>2. /\ a \in 1 .. l - 1 /\ a + 1 = n + 8 - p
            /\ b \in 1 .. l - 1 /\ b + 1 = n + 9 - p
        BY <2>1, <2>3, <4>1
      <4> QED BY <1>3, <1>4, <4>1, <4>2
    <3>5. p + 1 <= n + 7
      BY <2>3
    <3>6. Ahead(f, n, p + 1)'
      BY <1>1, <3>2, <3>3, <3>4, <3>5 DEF Ahead, HasLen
    <3> QED BY <2>3, <3>1, <3>6
  <2> QED BY <1>4, <2>2, <2>3
<1>5. CASE p = n + 7 /\ HasLen(line, 1) /\ line[1] = END
  <2>1. l = 1
    BY <1>2, <1>5 DEF HasLen
  <2>2. t = << >>
    BY <1>3, <2>1, EmptySeq
  <2>3. p + 1 = n + 8
    BY <1>5
  <2>4. Ahead(f, n, p + 1)'
    BY <1>1, <2>2, <2>3 DEF Ahead
  <2> QED BY <1>3, <1>5, <2>3, <2>4
<1> QED BY <1>4, <1>5 DEF Ahead

LEMMA LastDamagedIsNatural ==
  ASSUME StreamOK
  PROVE  LastDamaged \in Nat /\ Len(sent) \in Nat /\ LastDamaged <= Len(sent)
<1>1. LastDamaged \in 0 .. Len(sent) /\ sent \in Seq(Message)
  BY DEF StreamOK
<1> QED BY <1>1, LenProperties

\* The places where frames start are numbers, in the order of the frames.
LEMMA Starts ==
  ASSUME StreamOK, NEW i \in 1 .. Len(sent) + 1, NEW k \in 1 .. Len(sent) + 1, i <= k
  PROVE  start[i] \in Nat /\ start[k] \in Nat /\ start[i] <= start[k]
<1>1. start[i] <= start[k]
  BY DEF StreamOK
<1>2. start \in Seq(Nat) /\ Len(start) = Len(sent) + 1
  BY DEF StreamOK
<1>3. \A j \in 1 .. Len(start) : start[j] \in Nat
  BY <1>2
<1> QED BY <1>1, <1>2, <1>3

-----------------------------------------------------------------------------
(* The parser.                                                              *)

\* A byte that is not the expected one takes the parser out of the frame, into
\* a new one, or on.
LEMMA LostStep ==
  ASSUME IInv, state # "WAIT_START", NEW b \in Byte, b # CR, parser_consume_byte(b)
  PROVE  \/ state' = "WAIT_START"
         \/ state' # "WAIT_START" /\ window' = Append(window, b)
         \/ b = START /\ state' # "WAIT_START" /\ window' = <<START>>
<1>1. \/ parser_error(b)
      \/ state' # "WAIT_START" /\ InProgress(b)
      \/ ExpectEnd(b)
  <2>1. \/ ReadLenHi(b) \/ ReadLenLo(b) \/ ExpectLenSeparator(b)
        \/ ReadBody(b) \/ ExpectCheckSeparator(b) \/ ReadCheckHi(b)
        \/ ReadCheckLo(b) \/ ExpectEnd(b)
    BY DEF parser_consume_byte, IgnoreCarriageReturn, WaitStart
  <2>2. CASE ReadLenHi(b) \/ ReadLenLo(b) \/ ExpectLenSeparator(b)
    BY <2>2 DEF ReadLenHi, ReadLenLo, ExpectLenSeparator
  <2>3. CASE ReadBody(b)
    BY <2>3 DEF ReadBody
  <2>4. CASE ExpectCheckSeparator(b) \/ ReadCheckHi(b) \/ ReadCheckLo(b)
    BY <2>4 DEF ExpectCheckSeparator, ReadCheckHi, ReadCheckLo
  <2> QED BY <2>1, <2>2, <2>3, <2>4
<1>2. CASE parser_error(b)
  BY <1>2 DEF parser_error, parser_reset, ResetTo
<1>3. CASE state' # "WAIT_START" /\ InProgress(b)
  BY <1>3 DEF InProgress
<1>4. CASE ExpectEnd(b)
  <2>1. parser_error(b) \/ state' = "WAIT_START"
    BY <1>4 DEF ExpectEnd, parser_reset, ResetTo
  <2> QED BY <1>2, <2>1
<1> QED BY <1>1, <1>2, <1>3, <1>4

\* The '\r' before END changes nothing.
LEMMA ReturnKeeps ==
  ASSUME NEW f, NEW n \in TypeLength + 1 .. MaxBody, NEW d \in Nat, NEW k \in Nat,
         parser_consume_byte(CR), UNCHANGED <<sent, delivered, start>>,
         Follows(f, n, n + 7, d, k)
  PROVE  Follows(f, n, n + 7, d, k)'
<1>1. IgnoreCarriageReturn(CR)
  BY DEF parser_consume_byte
<1>2. state' = state /\ window' = IF state = "WAIT_START" THEN << >> ELSE window
  BY <1>1 DEF IgnoreCarriageReturn, parser_t
<1>3. Lost(d, k, n + 7) => Lost(d, k, n + 7)'
  BY <1>2 DEF Lost
<1>4. Late(d, k, n + 7) => Late(d, k, n + 7)'
  BY <1>2 DEF Late
<1>5. ASSUME NEW s \in d + 1 .. k, InStep(f, n, n + 7, d, s, k)
      PROVE  InStep(f, n, n + 7, d, s, k)'
  <2>1. /\ Soon(d, s) /\ state # "WAIT_START" /\ HasRead(f, n + 7) /\ LastAre(s, k - 1)
        /\ n + 7 \in 1 .. n + 7
    BY <1>5, Widths DEF InStep
  <2>2. Soon(d, s)' /\ LastAre(s, k - 1)'
    BY <2>1 DEF Soon, LastAre
  <2>3. state' # "WAIT_START" /\ HasRead(f, n + 7)'
    BY <1>2, <2>1 DEF HasRead
  <2> QED BY <2>1, <2>2, <2>3 DEF InStep
<1> QED BY <1>3, <1>4, <1>5 DEF Follows

\* What the next byte of the frame does to a parser that is lost.
LEMMA LostReads ==
  ASSUME IInv, StreamOK, NEW f, NEW n, Whole(f, n), NEW p \in 0 .. n + 7,
         NEW d \in Nat, NEW k, k = Len(sent), d < k, Lost(d, k, p),
         parser_consume_byte(f[p + 1]),
         UNCHANGED <<sent, start>>, delivered' \in Seq(Message)
  PROVE  Follows(f, n, p + 1, d, k)'
<1>1. /\ n \in Nat /\ p \in Nat /\ p + 1 \in 1 .. n + 8 /\ k \in Nat
      /\ f[p + 1] \in Byte /\ f[p + 1] # CR
  <2>1. n \in Nat
    BY Widths DEF Whole
  <2>2. p + 1 \in 1 .. n + 8 /\ p \in Nat
    BY <2>1
  <2>3. Len(f) = n + 8
    BY <2>1, HasLenIsLen DEF Whole, Shape
  <2> QED BY <2>1, <2>2, <2>3, LenProperties DEF Whole, Shape, StreamOK
<1>2. PICK a \in Nat, b \in Nat, w \in Nat :
        /\ a = start[d + 1] /\ b = start[k] /\ w = Len(window)
        /\ a <= b /\ w <= MaxBody + 8 /\ b - a + p < w /\ d > 0
        /\ state # "WAIT_START"
  <2>1. d + 1 \in 1 .. Len(sent) + 1 /\ k \in 1 .. Len(sent) + 1 /\ d + 1 <= k
    BY <1>1
  <2>2. start[d + 1] \in Nat /\ start[k] \in Nat /\ start[d + 1] <= start[k]
    BY <2>1, Starts
  <2>3. Len(window) \in Nat
    BY DEF IInv, TypeOK
  <2>4. Len(window) <= MaxBody + 8
    BY InvImplies DEF FrameIsBounded
  <2> QED BY <2>2, <2>3, <2>4 DEF Lost
<1>3. MaxBody \in Nat /\ b - a < MaxBody + 8
  <2>1. MaxBody \in Nat /\ p \in Nat
    BY <1>1, Widths
  <2>2. b - a + p < w /\ w <= MaxBody + 8
    BY <1>2
  <2> QED BY <2>1, <2>2
<1>4. start'[d + 1] = a /\ start'[k] = b
  BY <1>2
<1>5. CASE state' = "WAIT_START"
  <2>1. Late(d, k, p + 1)'
    BY <1>1, <1>2, <1>3, <1>4, <1>5 DEF Late
  <2> QED BY <2>1 DEF Follows
<1>6. CASE state' # "WAIT_START" /\ window' = Append(window, f[p + 1])
  <2>1. Len(window') = w + 1
    BY <1>1, <1>2, <1>6, AppendProperties DEF IInv, TypeOK
  <2>2. b - a + (p + 1) < w + 1
    <3>1. p \in Nat /\ b - a + p < w
      BY <1>1, <1>2
    <3> QED BY <3>1
  <2>3. Lost(d, k, p + 1)'
    BY <1>2, <1>4, <1>6, <2>1, <2>2 DEF Lost
  <2> QED BY <2>3 DEF Follows
<1>7. CASE f[p + 1] = START /\ state' # "WAIT_START" /\ window' = <<START>>
  <2>1. p = 0
    <3>1. p + 1 \notin 2 .. n + 8
      BY <1>7 DEF Whole
    <3> QED BY <1>1, <3>1
  <2>2. HasRead(f, 1)'
    <3>1. HasLen(<<START>>, 1)
      BY DEF HasLen
    <3>2. \A i \in 1 .. 1 : <<START>>[i] = f[i]
      BY <1>7, <2>1
    <3> QED BY <1>7, <3>1, <3>2 DEF HasRead, HasLen
  <2>3. Soon(d, k)'
    <3>1. CASE k = d + 1
      BY <3>1 DEF Soon
    <3>2. CASE k # d + 1
      <4>1. /\ k - 1 \in 1 .. Len(sent) + 1 /\ k \in 1 .. Len(sent) + 1
            /\ k - 1 <= k
        BY <1>1, <3>2
      <4>2. start[k - 1] \in Nat /\ start[k - 1] <= start[k]
        BY <4>1, Starts
      <4>3. PICK c \in Nat : c = start[k - 1]
        BY <4>2
      <4>4. c - a < MaxBody + 8
        <5>1. c <= b
          BY <1>2, <4>2, <4>3
        <5> QED BY <1>3, <5>1
      <4>5. start'[k - 1] = c
        BY <4>3
      <4> QED BY <1>2, <1>4, <4>4, <4>5 DEF Soon
    <3> QED BY <3>1, <3>2
  <2>4. LastAre(k, k - 1)'
    <3>1. (k - 1) - k = -1 /\ k .. k - 1 = {}
      BY <1>1
    <3>2. Len(delivered') \in Nat
      BY LenProperties
    <3> QED BY <3>1, <3>2 DEF LastAre
  <2>5. k \in d + 1 .. k /\ 1 \in 1 .. n + 7
    BY <1>1
  <2>6. InStep(f, n, 1, d, k, k)'
    BY <1>7, <2>2, <2>3, <2>4, <2>5 DEF InStep
  <2>7. Follows(f, n, 1, d, k)'
    BY <2>5, <2>6 DEF Follows
  <2> QED BY <2>1, <2>7
<1> QED BY <1>1, <1>2, <1>5, <1>6, <1>7, LostStep

\* A parser that is late skips the rest of the frame.
LEMMA LateReads ==
  ASSUME NEW f, NEW n, Whole(f, n), NEW p \in 0 .. n + 7, NEW d, NEW k, Late(d, k, p),
         parser_consume_byte(f[p + 1]), UNCHANGED start
  PROVE  Follows(f, n, p + 1, d, k)' /\ result' = "IN_PROGRESS"
<1>1. n \in Nat
  BY Widths DEF Whole
<1>2. p + 1 \in 2 .. n + 8 /\ p + 1 >= 1
  BY <1>1 DEF Late
<1>3. f[p + 1] # START
  BY <1>2 DEF Whole
<1>4. state' = "WAIT_START" /\ result' = "IN_PROGRESS"
  BY <1>3, Skips DEF Late
<1>5. Late(d, k, p + 1)'
  BY <1>2, <1>4 DEF Late
<1> QED BY <1>4, <1>5 DEF Follows

\* What is delivered, and what the parser returned.
Collects ==
  delivered' = IF result' = "MESSAGE_READY" THEN Append(delivered, message')
                                            ELSE delivered

\* One more message delivered, the one whose turn it is.
LEMMA OneMoreDelivered ==
  ASSUME sent \in Seq(Message), delivered \in Seq(Message), NEW s \in Nat, NEW k \in Nat,
         s <= k, sent[k] \in Message, LastAre(s, k - 1),
         delivered' = Append(delivered, sent[k]), UNCHANGED sent
  PROVE  LastAre(s, k)'
<1>1. PICK l \in Nat : l = Len(delivered)
  BY LenProperties
<1>2. PICK e : e = Append(delivered, sent[k])
  OBVIOUS
<1>3. /\ Len(e) = l + 1 /\ e[l + 1] = sent[k]
      /\ \A i \in 1 .. l : e[i] = delivered[i]
  BY <1>1, <1>2, AppendProperties
<1>4. (k - 1) - s < l /\ \A i \in s .. k - 1 : delivered[l - (k - 1) + i] = sent[i]
  BY <1>1 DEF LastAre
<1>5. k - s < l + 1
  BY <1>4
<1>6. \A i \in s .. k : e[(l + 1) - k + i] = sent[i]
  <2> SUFFICES ASSUME NEW i \in s .. k PROVE e[(l + 1) - k + i] = sent[i]
    OBVIOUS
  <2>1. CASE i = k
    BY <1>3, <2>1
  <2>2. CASE i # k
    <3>1. /\ i \in s .. k - 1 /\ (l + 1) - k + i = l - (k - 1) + i
          /\ l - (k - 1) + i \in 1 .. l
      BY <1>4, <2>2
    <3> QED BY <1>3, <1>4, <3>1
  <2> QED BY <2>1, <2>2
<1>7. delivered' = e /\ sent' = sent
  BY <1>2
<1> QED BY <1>3, <1>5, <1>6, <1>7 DEF LastAre

\* A parser that is in step reads on, and delivers the message at its end.
LEMMA InStepReads ==
  ASSUME IInv, StreamOK, NEW f, NEW n, Whole(f, n), NEW p \in 0 .. n + 7,
         NEW d \in Nat, NEW k, k = Len(sent), NEW s \in d + 1 .. k,
         InStep(f, n, p, d, s, k), ValidateBytes(f) = sent[k],
         parser_consume_byte(f[p + 1]), Collects, UNCHANGED <<sent, start>>
  PROVE  InStep(f, n, p + 1, d, s, k)'
<1>1. n \in Nat /\ k \in Nat /\ s \in Nat /\ s <= k /\ k >= 1
  BY Widths, LenProperties DEF Whole, StreamOK
<1>2. Soon(d, s)'
  BY DEF InStep, Soon
<1>3. n \in TypeLength + 1 .. MaxBody /\ f \in Seq(Byte) /\ Shape(f, n)
  BY DEF Whole
<1>4. CASE p = 0
  <2>1. state = "WAIT_START" /\ LastAre(s, k - 1) /\ p + 1 = 1 /\ 1 \in 1 .. n + 7
    BY <1>1, <1>4 DEF InStep
  <2>2. state' # "WAIT_START" /\ result' = "IN_PROGRESS" /\ HasRead(f, 1)'
    BY <1>1, <1>3, <2>1, FirstByte
  <2>3. LastAre(s, k - 1)'
    BY <2>1, <2>2 DEF Collects, LastAre
  <2>4. InStep(f, n, 1, d, s, k)'
    BY <1>2, <2>1, <2>2, <2>3 DEF InStep
  <2> QED BY <2>1, <2>4
<1>5. CASE p \in 1 .. n + 6
  <2>1. state # "WAIT_START" /\ HasRead(f, p) /\ LastAre(s, k - 1) /\ p + 1 \in 1 .. n + 7
    BY <1>1, <1>5 DEF InStep
  <2>2. state' # "WAIT_START" /\ result' = "IN_PROGRESS" /\ HasRead(f, p + 1)'
    BY <1>3, <1>5, <2>1, ReadsOn
  <2>3. LastAre(s, k - 1)'
    BY <2>1, <2>2 DEF Collects, LastAre
  <2> QED BY <1>2, <2>1, <2>2, <2>3 DEF InStep
<1>6. CASE p = n + 7
  <2>1. /\ state # "WAIT_START" /\ HasRead(f, n + 7) /\ LastAre(s, k - 1)
        /\ p + 1 = n + 8
    BY <1>1, <1>6 DEF InStep
  <2>2. /\ state' = "WAIT_START" /\ message' = ValidateBytes(f)
        /\ result' = IF ValidateBytes(f) = NoMessage THEN "ERROR" ELSE "MESSAGE_READY"
    BY <1>3, <2>1, ReadsWhole
  <2>3. sent[k] \in Message /\ sent[k] # NoMessage
    <3>1. sent[k] \in Message
      BY <1>1 DEF StreamOK
    <3>2. \A m \in Message : m # NoMessage
      BY ProtocolAssumption DEF Message, NoMessage, ProtocolOK
    <3> QED BY <3>1, <3>2
  <2>4. delivered' = Append(delivered, sent[k])
    BY <2>2, <2>3 DEF Collects
  <2>5. LastAre(s, k)'
    BY <1>1, <2>1, <2>3, <2>4, OneMoreDelivered DEF StreamOK
  <2>6. InStep(f, n, n + 8, d, s, k)'
    BY <1>2, <2>2, <2>5 DEF InStep
  <2> QED BY <2>1, <2>6
<1>7. p = 0 \/ p \in 1 .. n + 6 \/ p = n + 7
  BY <1>1
<1> QED BY <1>4, <1>5, <1>6, <1>7

-----------------------------------------------------------------------------
(* The steps.                                                               *)

LEMMA InitLink == LinkInit => LinkInv
<1> SUFFICES ASSUME LinkInit PROVE LinkInv
  OBVIOUS
<1>1. IInv
  BY InitInv DEF LinkInit
<1>2. /\ traffic \in Traffic /\ line = << >> /\ sent = << >> /\ delivered = << >>
      /\ damaged = << >> /\ start = <<0>> /\ state = "WAIT_START"
  BY DEF LinkInit, Init
<1>3. /\ << >> \in Seq(Byte) /\ << >> \in Seq(Message) /\ << >> \in Seq(Nat)
      /\ Len(<< >>) = 0
  BY EmptySeq
<1>4. <<0>> \in Seq(Nat) /\ Len(<<0>>) = 1 /\ <<0>>[1] = 0
  OBVIOUS
<1>5. LastDamaged = 0
  BY <1>2 DEF LastDamaged
<1>6. \A i, k \in 1 .. Len(sent) + 1 : i <= k => start[i] <= start[k]
  BY <1>2, <1>3, <1>4
<1>7. StreamOK
  BY <1>2, <1>3, <1>4, <1>5, <1>6 DEF StreamOK
<1> QED BY <1>1, <1>2, <1>3, <1>5, <1>7 DEF LinkInv

\* What the parser returns can be delivered.
LEMMA CollectsMessages ==
  ASSUME IInv', Collects, delivered \in Seq(Message)
  PROVE  delivered' \in Seq(Message)
<1>1. CASE result' = "MESSAGE_READY"
  <2>1. message' # NoMessage
    BY <1>1 DEF IInv, Progress
  <2>2. message' \in Message
    BY <2>1 DEF IInv, TypeOK
  <2> QED BY <1>1, <2>2, AppendProperties DEF Collects
<1>2. CASE result' # "MESSAGE_READY"
  BY <1>2 DEF Collects
<1> QED BY <1>1, <1>2

\* The parser reads on where it is, whatever that is.
LEMMA FollowsOn ==
  ASSUME IInv, StreamOK, IInv', delivered' \in Seq(Message),
         NEW f, NEW n, Whole(f, n), NEW p \in 0 .. n + 7,
         NEW d \in Nat, NEW k, k = Len(sent), d < k,
         ValidateBytes(f) = sent[k], Follows(f, n, p, d, k),
         parser_consume_byte(f[p + 1]), Collects, UNCHANGED <<sent, start>>
  PROVE  Follows(f, n, p + 1, d, k)'
<1>1. CASE Lost(d, k, p)
  BY <1>1, LostReads
<1>2. CASE Late(d, k, p)
  BY <1>2, LateReads
<1>3. CASE \E s \in d + 1 .. k : InStep(f, n, p, d, s, k)
  <2>1. PICK s \in d + 1 .. k : InStep(f, n, p, d, s, k)
    BY <1>3
  <2>2. InStep(f, n, p + 1, d, s, k)'
    BY <2>1, InStepReads
  <2> QED BY <2>1, <2>2 DEF Follows
<1> QED BY <1>1, <1>2, <1>3 DEF Follows

LEMMA ParserKeepsTrack ==
  ASSUME LinkInv, task_parser, IInv', delivered' \in Seq(Message),
         NEW d \in Nat, NEW k, k = Len(sent), d < k, OnTrack(d, k)
  PROVE  OnTrack(d, k)'
<1>1. PICK f \in Seq(Byte), n \in TypeLength + 1 .. MaxBody, p \in Nat :
        OnTheLine(f, n, p, k) /\ Follows(f, n, p, d, k)
  BY DEF OnTrack
<1>2. n \in Nat /\ p \in 0 .. n + 8 /\ n + 7 \in Nat
  BY <1>1, Widths DEF OnTheLine
<1>3. /\ Whole(f, n) /\ f[n + 8] = END /\ ValidateBytes(f) = sent[k] /\ Ahead(f, n, p)
      /\ start[k + 1] = start[k] + n + 8
  BY <1>1 DEF OnTheLine, Whole, Shape
<1>4. /\ line \in Seq(Byte) /\ line # << >> /\ line' = Tail(line)
      /\ parser_consume_byte(Head(line)) /\ Collects
      /\ UNCHANGED <<sent, start, damaged>> /\ IInv /\ StreamOK
  BY DEF LinkInv, StreamOK, task_parser, Collects
<1>5. CASE p = n + 7 /\ Head(line) = CR /\ Ahead(f, n, p)'
  <2>1. parser_consume_byte(CR)
    BY <1>4, <1>5
  <2>2. result' = "IN_PROGRESS"
    BY <2>1 DEF parser_consume_byte, IgnoreCarriageReturn, Return
  <2>3. UNCHANGED <<sent, delivered, start>>
    BY <1>4, <2>2 DEF Collects
  <2>4. k \in Nat /\ Follows(f, n, n + 7, d, k)
    BY <1>1, <1>4, <1>5, LenProperties DEF StreamOK
  <2>5. Follows(f, n, p, d, k)'
    BY <1>5, <2>1, <2>3, <2>4, ReturnKeeps
  <2>6. OnTheLine(f, n, p, k)'
    BY <1>2, <1>3, <1>4, <1>5 DEF OnTheLine
  <2> QED BY <2>5, <2>6 DEF OnTrack
<1>6. CASE p <= n + 7 /\ Head(line) = f[p + 1] /\ Ahead(f, n, p + 1)'
  <2>1. p \in 0 .. n + 7 /\ p + 1 \in 0 .. n + 8 /\ p + 1 \in Nat
    BY <1>2, <1>6
  <2>2. parser_consume_byte(f[p + 1])
    BY <1>4, <1>6
  <2>3. Follows(f, n, p + 1, d, k)'
    BY <1>1, <1>3, <1>4, <2>1, <2>2, FollowsOn
  <2>4. OnTheLine(f, n, p + 1, k)'
    BY <1>3, <1>4, <1>6, <2>1 DEF OnTheLine
  <2> QED BY <2>1, <2>3, <2>4 DEF OnTrack
<1> QED BY <1>2, <1>3, <1>4, <1>5, <1>6, NextByte

LEMMA ParserKeepsInv ==
  ASSUME LinkInv, task_parser
  PROVE  LinkInv'
<1>1. /\ line # << >> /\ line' = Tail(line) /\ parser_consume_byte(Head(line))
      /\ Collects /\ UNCHANGED <<traffic, sent, damaged, start>>
      /\ IInv /\ StreamOK
  BY DEF LinkInv, task_parser, Collects
<1>2. line \in Seq(Byte) /\ delivered \in Seq(Message)
  BY <1>1 DEF StreamOK
<1>3. Head(line) \in Byte /\ line' \in Seq(Byte)
  BY <1>1, <1>2, HeadTailProperties
<1>4. IInv'
  BY <1>1, <1>3, ConsumeInv
<1>5. delivered' \in Seq(Message)
  BY <1>1, <1>2, <1>4, CollectsMessages
<1>6. LastDamaged' = LastDamaged
  BY <1>1 DEF LastDamaged
<1>7. sent # << >>
  BY <1>1 DEF StreamOK
<1>8. StreamOK'
  BY <1>1, <1>3, <1>5, <1>6, <1>7 DEF StreamOK
<1>9. LastDamaged < Len(sent) => OnTrack(LastDamaged, Len(sent))'
  <2> SUFFICES ASSUME LastDamaged < Len(sent)
               PROVE  OnTrack(LastDamaged, Len(sent))'
    OBVIOUS
  <2>1. PICK d \in Nat, k \in Nat : d = LastDamaged /\ k = Len(sent)
    BY <1>1, LastDamagedIsNatural
  <2>2. OnTrack(d, k) /\ d < k
    BY <2>1 DEF LinkInv
  <2>3. OnTrack(d, k)'
    BY <1>4, <1>5, <2>1, <2>2, ParserKeepsTrack
  <2>4. d = LastDamaged' /\ k = Len(sent')
    BY <1>1, <1>6, <2>1
  <2> QED BY <2>3, <2>4
<1> QED BY <1>1, <1>4, <1>6, <1>8, <1>9 DEF LinkInv

\* Every message of clean traffic has a frame, and the parser reads it whole.
LEMMA CleanFrame ==
  ASSUME CleanTraffic, NEW t \in Traffic, NEW m \in t.messages
  PROVE  /\ m \in Message
         /\ \E f \in Seq(Byte), n \in TypeLength + 1 .. MaxBody :
              /\ f = protocol_encode_frame(m, MaxFrame) /\ f # NoFrame
              /\ Len(f) = n + 8 /\ Whole(f, n) /\ ValidateBytes(f) = m
<1>1. m \in Message
  BY TrafficAssumption
<1>2. PICK f : f = protocol_encode_frame(m, MaxFrame)
  OBVIOUS
<1>3. /\ f # NoFrame
      /\ \A text \in {TypeText[m.type], m.payload} :
           \A i \in 1 .. Len(text) : text[i] \notin {CR, START}
  BY <1>2 DEF CleanTraffic
<1>4. Len(TypeText[m.type]) = TypeLength
  <2>1. m.type \in MessageType
    BY <1>1 DEF Message
  <2> QED BY <2>1, ProtocolAssumption DEF ProtocolOK
<1>5. /\ \A i \in 1 .. TypeLength : TypeText[m.type][i] \notin {CR, START}
      /\ \A i \in 1 .. Len(m.payload) : m.payload[i] \notin {CR, START}
  BY <1>3, <1>4
<1>6. f \in Seq(Byte) /\ ValidateBytes(f) = m
  BY <1>1, <1>2, <1>3, ValidatesEncoded
<1>7. PICK n \in TypeLength + 1 .. MaxBody : Shape(f, n) /\ Len(f) = n + 8
  BY <1>1, <1>2, <1>3, <1>5, EncodedShape
<1>8. \A i \in 2 .. Len(f) : f[i] # START
  BY <1>1, <1>2, <1>3, <1>5, OneStart
<1>9. Whole(f, n)
  BY <1>6, <1>7, <1>8 DEF Whole
<1> QED BY <1>1, <1>2, <1>3, <1>6, <1>7, <1>9

\* What task_uart_tx puts on an empty line.
LEMMA OnAnEmptyLine ==
  ASSUME NEW f, NEW n, Whole(f, n), Len(f) = n + 8, line' = Front(f) \o <<CR, END>>
  PROVE  line' \in Seq(Byte) /\ Ahead(f, n, 0)'
<1>1. n \in Nat /\ f \in Seq(Byte)
  BY Widths DEF Whole
<1>2. PICK r : r = Front(f)
  OBVIOUS
<1>3. r \in Seq(Byte) /\ Len(r) = n + 7 /\ \A i \in 1 .. n + 7 : r[i] = f[i]
  <2>1. r = SubSeq(f, 1, n + 7)
    BY <1>1, <1>2 DEF Front
  <2>2. \A i \in 1 .. n + 7 : f[i] \in Byte
    BY <1>1
  <2> QED BY <1>1, <2>1, <2>2, SubSeqProperties
<1>4. PICK e : e = <<CR, END>>
  OBVIOUS
<1>5. e \in Seq(Byte) /\ Len(e) = 2 /\ e[1] = CR /\ e[2] = END
  BY <1>4 DEF CR, END, Byte
<1>6. PICK l : l = r \o e
  OBVIOUS
<1>7. /\ l \in Seq(Byte) /\ Len(l) = n + 9
      /\ \A i \in 1 .. n + 9 : l[i] = IF i <= n + 7 THEN r[i] ELSE e[i - (n + 7)]
  <2>1. /\ l \in Seq(Byte) /\ Len(l) = (n + 7) + 2
        /\ \A i \in 1 .. (n + 7) + 2 : l[i] = IF i <= n + 7 THEN r[i] ELSE e[i - (n + 7)]
    <3>1. /\ r \o e \in Seq(Byte) /\ Len(r \o e) = Len(r) + Len(e)
          /\ \A i \in 1 .. Len(r) + Len(e) :
               (r \o e)[i] = IF i <= Len(r) THEN r[i] ELSE e[i - Len(r)]
      BY <1>3, <1>5, ConcatProperties, Zenon
    <3> QED BY <1>3, <1>5, <1>6, <3>1
  <2>2. (n + 7) + 2 = n + 9
    BY <1>1
  <2> QED BY <2>1, <2>2
<1>8. l[n + 8] = CR /\ l[n + 9] = END
  <2>1. PICK a \in 1 .. n + 9, b \in 1 .. n + 9 : a = n + 8 /\ b = n + 9
    BY <1>1
  <2>2. ~(a <= n + 7) /\ ~(b <= n + 7) /\ a - (n + 7) = 1 /\ b - (n + 7) = 2
    BY <1>1, <2>1
  <2>3. l[a] = e[1] /\ l[b] = e[2]
    BY <1>7, <2>2
  <2> QED BY <1>5, <2>1, <2>3
<1>9. \A i \in 1 .. n + 7 : l[i] = f[i]
  BY <1>1, <1>3, <1>7
<1>10. line' = l
  BY <1>2, <1>4, <1>6
<1>11. Ahead(f, n, 0)'
  <2>1. 0 <= n + 7 /\ n + 9 - 0 = n + 9 /\ n + 7 - 0 = n + 7 /\ n + 8 - 0 = n + 8
        /\ Len(l) <= n + 9 /\ n + 9 <= Len(l)
    BY <1>1, <1>7
  <2>2. \A i \in 1 .. n + 7 : l[i] = f[0 + i]
    <3>1. \A i \in 1 .. n + 7 : 0 + i = i
      BY <1>1
    <3> QED BY <1>9, <3>1
  <2> QED BY <1>8, <1>10, <2>1, <2>2 DEF Ahead, HasLen
<1> QED BY <1>7, <1>10, <1>11

\* The next frame starts where the last one ended.
LEMMA OneMoreStart ==
  ASSUME StreamOK, NEW m \in Message, NEW h \in Nat,
         sent' = Append(sent, m), start' = Append(start, start[Len(start)] + h),
         NEW k \in Nat, k = Len(sent)
  PROVE  /\ sent' \in Seq(Message) /\ Len(sent') = k + 1 /\ sent'[k + 1] = m
         /\ \A i \in 1 .. k : sent'[i] = sent[i]
         /\ start' \in Seq(Nat) /\ Len(start') = k + 2
         /\ start'[k + 2] = start[k + 1] + h
         /\ \A i \in 1 .. k + 1 : start'[i] = start[i]
         /\ \A i, j \in 1 .. k + 2 : i <= j => start'[i] <= start'[j]
<1>1. /\ sent \in Seq(Message) /\ start \in Seq(Nat) /\ Len(start) = k + 1
  BY DEF StreamOK
<1>2. /\ sent' \in Seq(Message) /\ Len(sent') = k + 1 /\ sent'[k + 1] = m
      /\ \A i \in 1 .. k : sent'[i] = sent[i]
  BY <1>1, AppendProperties
<1>3. PICK a \in Nat : a = start[k + 1]
  BY <1>1
<1>4. PICK z : z = Append(start, a + h)
  OBVIOUS
<1>5. a + h \in Nat /\ start' = z
  BY <1>1, <1>3, <1>4
<1>6. /\ z \in Seq(Nat) /\ Len(z) = (k + 1) + 1 /\ z[(k + 1) + 1] = a + h
      /\ \A i \in 1 .. k + 1 : z[i] = start[i]
  BY <1>1, <1>4, <1>5, AppendProperties
<1>7. (k + 1) + 1 = k + 2
  OBVIOUS
<1>8. \A i, j \in 1 .. k + 2 : i <= j => z[i] <= z[j]
  <2> SUFFICES ASSUME NEW i \in 1 .. k + 2, NEW j \in 1 .. k + 2, i <= j
               PROVE  z[i] <= z[j]
    OBVIOUS
  <2>1. CASE j \in 1 .. k + 1
    <3>1. i \in 1 .. k + 1
      BY <2>1
    <3>2. start[i] <= start[j]
      BY <2>1, <3>1, Starts
    <3> QED BY <1>6, <2>1, <3>1, <3>2
  <2>2. CASE j = k + 2 /\ i \in 1 .. k + 1
    <3>1. start[i] \in Nat /\ start[i] <= start[k + 1]
      <4>1. k + 1 \in 1 .. k + 1 /\ i <= k + 1
        BY <2>2
      <4> QED BY <2>2, <4>1, Starts
    <3>2. z[i] = start[i] /\ z[j] = a + h
      BY <1>6, <1>7, <2>2
    <3>3. PICK b \in Nat : b = start[i]
      BY <3>1
    <3>4. b <= a
      BY <1>3, <3>1, <3>3
    <3>5. b <= a + h
      BY <3>4
    <3> QED BY <3>2, <3>3, <3>5
  <2>3. CASE j = k + 2 /\ i = k + 2
    <3>1. z[i] = a + h /\ z[j] = a + h
      BY <1>6, <1>7, <2>3
    <3> QED BY <3>1
  <2> QED BY <2>1, <2>2, <2>3
<1> QED BY <1>2, <1>3, <1>5, <1>6, <1>7, <1>8

\* Once the line is empty the whole frame has been read.
LEMMA EmptyLineIsWholeFrame ==
  ASSUME NEW f, NEW n \in Nat, NEW p \in 0 .. n + 8, Ahead(f, n, p), line = << >>
  PROVE  p = n + 8
<1>1. Len(line) = 0
  BY EmptySeq
<1>2. ASSUME p <= n + 7, HasLen(line, n + 9 - p) PROVE FALSE
  BY <1>1, <1>2 DEF HasLen
<1>3. ~HasLen(line, 1)
  BY <1>1 DEF HasLen
<1> QED BY <1>2, <1>3 DEF Ahead

\* Where the parser is when a frame begins, the line being empty before it:
\* the first frame after the damage.
LEMMA FirstAfterDamage ==
  ASSUME IInv, StreamOK, UNCHANGED <<vars, delivered>>,
         NEW d \in Nat, NEW k \in Nat, k = Len(sent), d = LastDamaged, d = k,
         start' \in Seq(Nat), Len(start') = k + 2, NEW f, NEW n \in Nat
  PROVE  Follows(f, n, 0, d, k + 1)'
<1>1. state' = state /\ window' = window /\ delivered' = delivered
  BY DEF vars, parser_t
<1>2. CASE state = "WAIT_START"
  <2>1. k + 1 \in d + 1 .. k + 1 /\ Soon(d, k + 1)'
    BY DEF Soon
  <2>2. LastAre(k + 1, (k + 1) - 1)'
    <3>1. ((k + 1) - 1) - (k + 1) = -1 /\ k + 1 .. (k + 1) - 1 = {}
      OBVIOUS
    <3>2. Len(delivered') \in Nat
      BY <1>1, LenProperties DEF StreamOK
    <3> QED BY <3>1, <3>2 DEF LastAre
  <2>3. InStep(f, n, 0, d, k + 1, k + 1)'
    BY <1>1, <1>2, <2>1, <2>2 DEF InStep
  <2> QED BY <2>1, <2>3 DEF Follows
<1>3. CASE state # "WAIT_START"
  <2>1. d > 0
    <3>1. sent # << >> /\ sent \in Seq(Message)
      BY <1>3 DEF StreamOK
    <3>2. k # 0
      BY <3>1, EmptySeq
    <3> QED BY <3>2
  <2>2. Len(window) \in Nat /\ Len(window) >= 1
    BY <1>3, Widths, WindowBounds
  <2>3. PICK a \in Nat : a = start'[k + 1]
    OBVIOUS
  <2>4. a - a + 0 < Len(window)
    BY <2>2
  <2>5. Lost(d, k + 1, 0)'
    BY <1>1, <1>3, <2>1, <2>3, <2>4 DEF Lost
  <2> QED BY <2>5 DEF Follows
<1> QED BY <1>2, <1>3

\* And a later one.
LEMMA NextAfterDamage ==
  ASSUME StreamOK, UNCHANGED <<vars, delivered>>,
         NEW d \in Nat, NEW k \in Nat, k = Len(sent), d < k, OnTrack(d, k), line = << >>,
         \A i \in 1 .. k : sent'[i] = sent[i],
         \A i \in 1 .. k + 1 : start'[i] = start[i],
         NEW f, NEW n \in Nat
  PROVE  Follows(f, n, 0, d, k + 1)'
<1>1. state' = state /\ window' = window /\ delivered' = delivered
  BY DEF vars, parser_t
<1>2. PICK f0 \in Seq(Byte), n0 \in TypeLength + 1 .. MaxBody, p0 \in Nat :
        OnTheLine(f0, n0, p0, k) /\ Follows(f0, n0, p0, d, k)
  BY DEF OnTrack
<1>3. n0 \in Nat /\ p0 = n0 + 8 /\ start[k + 1] = start[k] + n0 + 8
  BY <1>2, Widths, EmptyLineIsWholeFrame DEF OnTheLine
<1>4. PICK a \in Nat, b \in Nat, c \in Nat :
        a = start[d + 1] /\ b = start[k] /\ c = start[k + 1]
  <2>1. /\ d + 1 \in 1 .. Len(sent) + 1 /\ k \in 1 .. Len(sent) + 1
        /\ k + 1 \in 1 .. Len(sent) + 1 /\ d + 1 <= k /\ k <= k + 1
    OBVIOUS
  <2> QED BY <2>1, Starts
<1>5. a = start'[d + 1] /\ b = start'[k] /\ c = start'[k + 1] /\ c = b + n0 + 8
  BY <1>3, <1>4
<1>6. CASE Lost(d, k, p0)
  <2>1. PICK w : w = Len(window)
    OBVIOUS
  <2>2. d > 0 /\ state # "WAIT_START" /\ b - a + (n0 + 8) < w
    BY <1>3, <1>4, <1>6, <2>1 DEF Lost
  <2>3. b - a + (n0 + 8) = c - a + 0
    <3>1. n0 \in Nat /\ c = b + n0 + 8
      BY <1>3, <1>5
    <3> QED BY <3>1
  <2>4. c - a + 0 < w
    BY <2>2, <2>3
  <2>5. Lost(d, k + 1, 0)'
    BY <1>1, <1>5, <2>1, <2>2, <2>4 DEF Lost
  <2> QED BY <2>5 DEF Follows
<1>7. CASE Late(d, k, p0)
  <2>1. d > 0 /\ state = "WAIT_START" /\ b - a < MaxBody + 8
    BY <1>4, <1>7 DEF Late
  <2>2. (k + 1) - 1 = k /\ k + 1 \in d + 1 .. k + 1
    OBVIOUS
  <2>3. Soon(d, k + 1)'
    BY <1>5, <2>1, <2>2 DEF Soon
  <2>4. LastAre(k + 1, (k + 1) - 1)'
    <3>1. ((k + 1) - 1) - (k + 1) = -1 /\ k + 1 .. (k + 1) - 1 = {}
      OBVIOUS
    <3>2. Len(delivered') \in Nat
      BY <1>1, LenProperties DEF StreamOK
    <3> QED BY <3>1, <3>2 DEF LastAre
  <2>5. InStep(f, n, 0, d, k + 1, k + 1)'
    BY <1>1, <2>1, <2>2, <2>3, <2>4 DEF InStep
  <2> QED BY <2>2, <2>5 DEF Follows
<1>8. CASE \E s \in d + 1 .. k : InStep(f0, n0, p0, d, s, k)
  <2>1. PICK s \in d + 1 .. k : InStep(f0, n0, p0, d, s, k)
    BY <1>8
  <2>2. state = "WAIT_START" /\ Soon(d, s) /\ LastAre(s, k)
    <3>1. n0 + 8 # 0 /\ n0 + 8 \notin 1 .. n0 + 7
      BY <1>3
    <3> QED BY <1>3, <2>1, <3>1 DEF InStep
  <2>3. (k + 1) - 1 = k /\ s \in d + 1 .. k + 1 /\ s \in Nat
    OBVIOUS
  <2>4. LastAre(s, (k + 1) - 1)'
    <3>1. \A i \in s .. k : sent'[i] = sent[i]
      <4>1. \A i \in s .. k : i \in 1 .. k
        BY <2>3
      <4> QED BY <4>1
    <3> QED BY <1>1, <2>2, <2>3, <3>1 DEF LastAre
  <2>5. Soon(d, s)'
    <3>1. CASE s = d + 1
      BY <3>1 DEF Soon
    <3>2. CASE s # d + 1
      <4>1. s - 1 \in 1 .. k + 1
        BY <2>3, <3>2
      <4>2. start'[s - 1] = start[s - 1]
        BY <4>1
      <4> QED BY <1>4, <1>5, <2>2, <4>2 DEF Soon
    <3> QED BY <3>1, <3>2
  <2>6. InStep(f, n, 0, d, s, k + 1)'
    BY <1>1, <2>2, <2>3, <2>4, <2>5 DEF InStep
  <2> QED BY <2>3, <2>6 DEF Follows
<1> QED BY <1>2, <1>6, <1>7, <1>8 DEF Follows

LEMMA SenderKeepsInv ==
  ASSUME CleanTraffic, LinkInv, task_uart_tx
  PROVE  LinkInv'
<1>1. /\ line = << >> /\ UNCHANGED <<vars, traffic, delivered, damaged>>
      /\ IInv /\ StreamOK /\ traffic \in Traffic
  BY DEF LinkInv, StreamOK, task_uart_tx
<1>2. PICK m \in traffic.messages :
        /\ line' = Transmitted(m) /\ sent' = Append(sent, m)
        /\ start' = Append(start, start[Len(start)] + Len(protocol_encode_frame(m, MaxFrame)))
  BY DEF task_uart_tx
<1>3. /\ m \in Message
      /\ \E f \in Seq(Byte), n \in TypeLength + 1 .. MaxBody :
           /\ f = protocol_encode_frame(m, MaxFrame) /\ f # NoFrame
           /\ Len(f) = n + 8 /\ Whole(f, n) /\ ValidateBytes(f) = m
  BY <1>1, CleanFrame
<1>4. PICK f \in Seq(Byte), n \in TypeLength + 1 .. MaxBody :
        /\ f = protocol_encode_frame(m, MaxFrame) /\ f # NoFrame
        /\ Len(f) = n + 8 /\ Whole(f, n) /\ ValidateBytes(f) = m
  BY <1>3
<1>5. PICK d \in Nat, k \in Nat : d = LastDamaged /\ k = Len(sent) /\ d <= k
  BY <1>1, LastDamagedIsNatural
<1>6. n \in Nat /\ n + 8 \in Nat
  BY Widths
<1>7. line' \in Seq(Byte) /\ Ahead(f, n, 0)'
  <2>1. line' = Front(f) \o <<CR, END>>
    BY <1>2, <1>4 DEF Transmitted
  <2> QED BY <1>4, <2>1, OnAnEmptyLine
<1>8. /\ sent' \in Seq(Message) /\ Len(sent') = k + 1 /\ sent'[k + 1] = m
      /\ \A i \in 1 .. k : sent'[i] = sent[i]
      /\ start' \in Seq(Nat) /\ Len(start') = k + 2
      /\ start'[k + 2] = start[k + 1] + (n + 8)
      /\ \A i \in 1 .. k + 1 : start'[i] = start[i]
      /\ \A i, j \in 1 .. k + 2 : i <= j => start'[i] <= start'[j]
  <2>1. PICK h \in Nat : h = n + 8
    BY <1>6
  <2>2. start' = Append(start, start[Len(start)] + h)
    BY <1>2, <1>4, <2>1
  <2>3. sent' = Append(sent, m) /\ StreamOK /\ m \in Message /\ k = Len(sent)
    BY <1>1, <1>2, <1>3, <1>5
  <2>4. /\ sent' \in Seq(Message) /\ Len(sent') = k + 1 /\ sent'[k + 1] = m
        /\ \A i \in 1 .. k : sent'[i] = sent[i]
        /\ start' \in Seq(Nat) /\ Len(start') = k + 2
        /\ start'[k + 2] = start[k + 1] + h
        /\ \A i \in 1 .. k + 1 : start'[i] = start[i]
        /\ \A i, j \in 1 .. k + 2 : i <= j => start'[i] <= start'[j]
    BY <2>2, <2>3, OneMoreStart
  <2> QED BY <2>1, <2>4
<1>9. Follows(f, n, 0, d, k + 1)'
  <2>1. CASE d = k
    BY <1>1, <1>5, <1>6, <1>8, <2>1, FirstAfterDamage
  <2>2. CASE d < k
    <3>1. OnTrack(d, k)
      BY <1>5, <2>2 DEF LinkInv
    <3> QED BY <1>1, <1>5, <1>6, <1>8, <2>2, <3>1, NextAfterDamage
  <2> QED BY <1>5, <2>1, <2>2
<1>10. OnTheLine(f, n, 0, k + 1)'
  <2>1. 0 \in 0 .. n + 8 /\ (k + 1) + 1 = k + 2
    BY <1>6
  <2>2. start'[(k + 1) + 1] = start'[k + 1] + n + 8
    <3>1. PICK a \in Nat : a = start[k + 1]
      <4>1. k + 1 \in 1 .. Len(sent) + 1
        BY <1>5
      <4> QED BY <1>1, <4>1, Starts
    <3>2. start'[k + 1] = a /\ start'[k + 2] = a + (n + 8)
      BY <1>8, <3>1
    <3>3. a + (n + 8) = a + n + 8
      BY <1>6
    <3> QED BY <2>1, <3>2, <3>3
  <2> QED BY <1>4, <1>7, <1>8, <2>1, <2>2 DEF OnTheLine
<1>11. OnTrack(d, k + 1)'
  BY <1>9, <1>10 DEF OnTrack
<1>12. LastDamaged' = d
  BY <1>1, <1>5 DEF LastDamaged
<1>13. IInv'
  BY <1>1, NextInv
<1>14. StreamOK'
  <2>1. (k + 1) + 1 = k + 2 /\ d \in 0 .. k + 1
    BY <1>5
  <2>2. sent' # << >>
    BY <1>8, EmptySeq
  <2>3. /\ traffic' \in Traffic /\ delivered' \in Seq(Message) /\ damaged' \in Seq(Nat)
    BY <1>1 DEF StreamOK
  <2> QED BY <1>7, <1>8, <1>12, <2>1, <2>2, <2>3 DEF StreamOK
<1>15. OnTrack(LastDamaged, Len(sent))'
  BY <1>8, <1>11, <1>12
<1> QED BY <1>13, <1>14, <1>15 DEF LinkInv

\* A damaged line is still a line.
LEMMA DamagedLine ==
  ASSUME line \in Seq(Byte), NEW i \in DOMAIN line,
         \/ line' = RemoveAt(line, i)
         \/ line' = SubSeq(line, 1, i - 1)
         \/ \E b \in Input \ {line[i]} : line' = [line EXCEPT ![i] = b]
  PROVE  line' \in Seq(Byte)
<1>1. PICK l \in Nat : l = Len(line)
  BY LenProperties
<1>2. i \in 1 .. l /\ \A j \in 1 .. l : line[j] \in Byte
  BY <1>1
<1>3. SubSeq(line, 1, i - 1) \in Seq(Byte)
  <2>1. 1 \in Int /\ i - 1 \in Int /\ \A j \in 1 .. i - 1 : line[j] \in Byte
    BY <1>2
  <2> QED BY <2>1, SubSeqProperties
<1>4. SubSeq(line, i + 1, l) \in Seq(Byte)
  <2>1. i + 1 \in Int /\ l \in Int /\ \A j \in i + 1 .. l : line[j] \in Byte
    BY <1>2
  <2> QED BY <2>1, SubSeqProperties
<1>5. CASE line' = RemoveAt(line, i)
  BY <1>1, <1>3, <1>4, <1>5, ConcatProperties DEF RemoveAt
<1>6. CASE line' = SubSeq(line, 1, i - 1)
  BY <1>3, <1>6
<1>7. CASE \E b \in Input \ {line[i]} : line' = [line EXCEPT ![i] = b]
  <2>1. PICK b \in Byte : line' = [line EXCEPT ![i] = b]
    BY <1>7, InputAssumption DEF InputOK
  <2>2. i \in 1 .. Len(line)
    BY <1>1, <1>2
  <2> QED BY <2>1, <2>2, ExceptSeq
<1> QED BY <1>5, <1>6, <1>7

LEMMA DamageKeepsInv ==
  ASSUME LinkInv, Damage
  PROVE  LinkInv'
<1>1. /\ line # << >> /\ damaged' = Append(damaged, Len(sent))
      /\ UNCHANGED <<vars, traffic, sent, delivered, start>>
      /\ IInv /\ StreamOK
  BY DEF LinkInv, Damage
<1>2. line \in Seq(Byte) /\ damaged \in Seq(Nat) /\ Len(sent) \in Nat
  BY <1>1, LastDamagedIsNatural DEF StreamOK
<1>3. line' \in Seq(Byte)
  <2>1. PICK i \in DOMAIN line :
          \/ line' = RemoveAt(line, i)
          \/ line' = SubSeq(line, 1, i - 1)
          \/ \E b \in Input \ {line[i]} : line' = [line EXCEPT ![i] = b]
    BY DEF Damage
  <2> QED BY <1>2, <2>1, DamagedLine
<1>4. PICK e : e = Append(damaged, Len(sent))
  OBVIOUS
<1>5. /\ e \in Seq(Nat) /\ Len(e) = Len(damaged) + 1 /\ e[Len(damaged) + 1] = Len(sent)
      /\ Len(damaged) \in Nat
  BY <1>2, <1>4, AppendProperties, LenProperties
<1>6. damaged' \in Seq(Nat) /\ LastDamaged' = Len(sent)
  <2>1. e # << >>
    BY <1>5, EmptySeq
  <2>2. e[Len(e)] = Len(sent)
    BY <1>5
  <2>3. damaged' = e
    BY <1>1, <1>4
  <2> QED BY <1>5, <2>1, <2>2, <2>3 DEF LastDamaged
<1>7. IInv'
  BY <1>1, NextInv
<1>8. sent # << >> /\ Len(sent) \in 0 .. Len(sent)
  BY <1>1, <1>2 DEF StreamOK
<1>9. StreamOK'
  BY <1>1, <1>3, <1>6, <1>8 DEF StreamOK
<1>10. ~(LastDamaged' < Len(sent'))
  BY <1>1, <1>2, <1>6
<1> QED BY <1>7, <1>9, <1>10 DEF LinkInv

LEMMA NothingMoves ==
  ASSUME LinkInv, UNCHANGED linkVars
  PROVE  LinkInv'
<1>1. UNCHANGED vars
  BY DEF linkVars
<1>2. /\ state' = state /\ window' = window /\ traffic' = traffic /\ line' = line
      /\ sent' = sent /\ delivered' = delivered /\ damaged' = damaged /\ start' = start
  BY DEF linkVars, vars, parser_t
<1>3. IInv'
  BY <1>1, NextInv DEF LinkInv
<1>4. LastDamaged' = LastDamaged
  BY <1>2 DEF LastDamaged
<1>5. StreamOK'
  BY <1>2, <1>4 DEF LinkInv, StreamOK
<1>6. OnTrack(LastDamaged, Len(sent)) => OnTrack(LastDamaged, Len(sent))'
  <2> SUFFICES ASSUME OnTrack(LastDamaged, Len(sent))
               PROVE  OnTrack(LastDamaged, Len(sent))'
    OBVIOUS
  <2>1. PICK d, k : d = LastDamaged /\ k = Len(sent)
    OBVIOUS
  <2>2. PICK f \in Seq(Byte), n \in TypeLength + 1 .. MaxBody, p \in Nat :
          OnTheLine(f, n, p, k) /\ Follows(f, n, p, d, k)
    BY <2>1 DEF OnTrack
  <2>3. OnTheLine(f, n, p, k)'
    BY <1>2, <2>2 DEF OnTheLine, Ahead, HasLen
  <2>4. /\ Lost(d, k, p) => Lost(d, k, p)'
        /\ Late(d, k, p) => Late(d, k, p)'
    BY <1>2 DEF Lost, Late
  <2>5. ASSUME NEW s \in d + 1 .. k, InStep(f, n, p, d, s, k)
        PROVE  InStep(f, n, p, d, s, k)'
    <3>1. /\ Soon(d, s)' = Soon(d, s) /\ HasRead(f, p)' = HasRead(f, p)
          /\ LastAre(s, k - 1)' = LastAre(s, k - 1) /\ LastAre(s, k)' = LastAre(s, k)
      BY <1>2 DEF Soon, HasRead, LastAre
    <3> QED BY <1>2, <2>5, <3>1 DEF InStep
  <2>6. Follows(f, n, p, d, k)'
    BY <2>2, <2>4, <2>5 DEF Follows
  <2>7. OnTrack(d, k)'
    BY <2>3, <2>6 DEF OnTrack
  <2>8. d = LastDamaged' /\ k = Len(sent')
    BY <1>2, <1>4, <2>1
  <2> QED BY <2>7, <2>8
<1> QED BY <1>2, <1>3, <1>4, <1>5, <1>6 DEF LinkInv

LEMMA LinkNextInv ==
  ASSUME CleanTraffic, LinkInv, [LinkNext]_linkVars
  PROVE  LinkInv'
<1>1. CASE task_uart_tx
  BY <1>1, SenderKeepsInv
<1>2. CASE Damage
  BY <1>2, DamageKeepsInv
<1>3. CASE task_parser
  BY <1>3, ParserKeepsInv
<1>4. CASE UNCHANGED linkVars
  BY <1>4, NothingMoves
<1> QED BY <1>1, <1>2, <1>3, <1>4 DEF LinkNext, Silence

\* What the invariant says when the line is empty.
LEMMA SafeAreDelivered ==
  ASSUME LinkInv
  PROVE  LossIsBounded
<1> SUFFICES ASSUME line = << >>, NEW k \in SafeFrames
             PROVE  /\ Len(sent) - k < Len(delivered)
                    /\ delivered[Len(delivered) - (Len(sent) - k)] = sent[k]
  BY DEF LossIsBounded
<1>1. IInv /\ StreamOK
  BY DEF LinkInv
<1>2. PICK d \in Nat, last \in Nat : d = LastDamaged /\ last = Len(sent)
  BY <1>1, LastDamagedIsNatural
<1>3. /\ k \in d + 1 .. last /\ k \in Nat /\ last \in Nat /\ d < last
      /\ d = 0 \/ start[k] >= start[d + 1] + MaxBody + 8
  <2>1. k \in d + 1 .. last /\ (d = 0 \/ start[k] >= start[d + 1] + MaxBody + 8)
    BY <1>2 DEF SafeFrames
  <2> QED BY <2>1
<1>4. PICK f \in Seq(Byte), n \in TypeLength + 1 .. MaxBody, p \in Nat :
        OnTheLine(f, n, p, last) /\ Follows(f, n, p, d, last)
  <2>1. OnTrack(d, last)
    BY <1>2, <1>3 DEF LinkInv
  <2> QED BY <2>1 DEF OnTrack
<1>5. n \in Nat /\ p = n + 8
  BY <1>4, Widths, EmptyLineIsWholeFrame DEF OnTheLine
<1>6. PICK a \in Nat, b \in Nat, c \in Nat :
        a = start[d + 1] /\ b = start[k] /\ c = start[last] /\ b <= c
  <2>1. /\ d + 1 \in 1 .. Len(sent) + 1 /\ k \in 1 .. Len(sent) + 1
        /\ last \in 1 .. Len(sent) + 1 /\ d + 1 <= k /\ k <= last
    BY <1>2, <1>3
  <2> QED BY <1>1, <2>1, Starts
<1>7. MaxBody \in Nat /\ (d = 0 \/ b >= a + MaxBody + 8)
  BY <1>3, <1>6, Widths
<1>8. ~Lost(d, last, p)
  <2> SUFFICES ASSUME Lost(d, last, p) PROVE FALSE
    OBVIOUS
  <2>1. PICK w \in Nat : w = Len(window)
    BY <1>1 DEF IInv, TypeOK
  <2>2. d > 0 /\ c - a + (n + 8) < w
    BY <1>5, <1>6, <2>1 DEF Lost
  <2>3. w <= MaxBody + 8
    BY <1>1, <2>1, InvImplies DEF FrameIsBounded
  <2>4. b <= c /\ b >= a + MaxBody + 8 /\ MaxBody \in Nat /\ n \in Nat
    BY <1>5, <1>6, <1>7, <2>2
  <2>5. c - a + (n + 8) < MaxBody + 8
    BY <2>2, <2>3, <2>4
  <2> QED BY <2>4, <2>5
<1>9. ~Late(d, last, p)
  <2> SUFFICES ASSUME Late(d, last, p) PROVE FALSE
    OBVIOUS
  <2>1. d > 0 /\ c - a < MaxBody + 8
    BY <1>6 DEF Late
  <2>2. b <= c /\ b >= a + MaxBody + 8 /\ MaxBody \in Nat
    BY <1>6, <1>7, <2>1
  <2> QED BY <2>1, <2>2
<1>10. PICK s \in d + 1 .. last : InStep(f, n, p, d, s, last)
  BY <1>4, <1>8, <1>9 DEF Follows
<1>11. Soon(d, s) /\ LastAre(s, last)
  <2>1. p # 0 /\ p \notin 1 .. n + 7
    BY <1>5
  <2> QED BY <1>10, <2>1 DEF InStep
<1>12. s <= k
  <2>1. CASE s = d + 1
    BY <1>3, <2>1
  <2>2. CASE s # d + 1
    <3>1. d > 0 /\ start[s - 1] - a < MaxBody + 8
      BY <1>6, <1>11, <2>2 DEF Soon
    <3>2. ASSUME k <= s - 1 PROVE FALSE
      <4>1. k \in 1 .. Len(sent) + 1 /\ s - 1 \in 1 .. Len(sent) + 1
        BY <1>2, <1>3, <2>2
      <4>2. start[s - 1] \in Nat /\ b <= start[s - 1]
        BY <1>1, <1>6, <3>2, <4>1, Starts
      <4>3. PICK e \in Nat : e = start[s - 1]
        BY <4>2
      <4>4. b <= e /\ e - a < MaxBody + 8 /\ b >= a + MaxBody + 8
        BY <1>7, <3>1, <4>2, <4>3
      <4> QED BY <1>7, <4>4
    <3> QED BY <1>3, <3>2
  <2> QED BY <2>1, <2>2
<1>13. PICK l \in Nat : l = Len(delivered)
  BY <1>1, LenProperties DEF StreamOK
<1>14. last - s < l /\ \A i \in s .. last : delivered[l - last + i] = sent[i]
  BY <1>11, <1>13 DEF LastAre
<1>15. k \in s .. last /\ last - k < l /\ l - (last - k) = l - last + k
  BY <1>3, <1>12, <1>14
<1>16. delivered[l - last + k] = sent[k]
  BY <1>14, <1>15
<1> QED BY <1>2, <1>13, <1>15, <1>16

-----------------------------------------------------------------------------
(* The theorem.                                                             *)

\* A damaged byte costs a bounded part of the stream: for all widths, types
\* and clean traffic, and for any number of damages, every frame that starts
\* MaxBody + 8 bytes after the last damaged one is delivered, in its place.
THEOREM DamageIsBounded ==
  ASSUME CleanTraffic
  PROVE  LinkSpec => []LossIsBounded
<1>1. LinkInit => LinkInv
  BY InitLink
<1>2. LinkInv /\ [LinkNext]_linkVars => LinkInv'
  BY LinkNextInv
<1>3. LinkInv => LossIsBounded
  BY SafeAreDelivered
<1> QED BY <1>1, <1>2, <1>3, PTL DEF LinkSpec
=============================================================================
