------------------------------- MODULE Report -------------------------------
(***************************************************************************)
(* firmware/app/app.c, app_build_status_message: the text of a report,     *)
(*                                                                         *)
(*     rx=..,ae=..,irq=..,pb=..,pm=..,pe=..,qd=..                          *)
(*                                                                         *)
(* which snprintf cuts to the room of a payload.  A text is the place      *)
(* where each value ends; the counters, of 32 bits, grow request by        *)
(* request.                                                                *)
(***************************************************************************)
EXTENDS Integers, FiniteSets

CONSTANTS Room,       \* PROTOCOL_MAX_PAYLOAD_LENGTH
          Limit,      \* the counters count modulo Limit, 2^32 in the firmware
          Request,    \* [bytes, errors]: the length of its frame, and what it adds to ae
          Run,        \* the lengths of runs of bytes that settle nothing
          MaxBytes, MaxErrors, MaxDrops   \* bounds: irq, pe and qd

\* A counter has at most ten digits, and there is room for three counters.
ASSUME ReportAssumption ==
  /\ Room \in Nat /\ Limit \in Nat \ {0}
  /\ (Limit - 1) \div 1000000000 < 10
  /\ Room >= 12 + 3 * 10
  /\ Request \subseteq [bytes : Nat, errors : {0, 1}]
  /\ Run \subseteq Nat
ASSUME ReportBounds == MaxBytes \in Nat /\ MaxErrors \in Nat /\ MaxDrops \in Nat

VARIABLE count

Counter == {"rx", "ae", "irq", "pb", "pm", "pe", "qd"}

Init == count = [c \in Counter |-> 0]

Add(increment) == count' = [c \in Counter |-> (count[c] + increment[c]) % Limit]

Nothing == [c \in Counter |-> 0]

\* A request that goes through the interrupt, the parser and the application.
Serve ==
  \E r \in Request :
    /\ count.irq + r.bytes <= MaxBytes
    /\ Add([Nothing EXCEPT !.irq = r.bytes, !.pb = r.bytes, !.pm = 1, !.rx = 1,
                           !.ae = r.errors])

\* A byte that breaks a frame, and a byte that finds the queue full.
Refuse == /\ count.irq < MaxBytes /\ count.pe < MaxErrors
          /\ Add([Nothing EXCEPT !.irq = 1, !.pb = 1, !.pe = 1])
Drop   == /\ count.irq < MaxBytes /\ count.qd < MaxDrops
          /\ Add([Nothing EXCEPT !.irq = 1, !.qd = 1])

\* Bytes that the interrupt counts and that the parser has not read: they wait in
\* a queue, or came before there was one.
Queue == \E n \in Run : /\ count.irq + n <= MaxBytes
                       /\ Add([Nothing EXCEPT !.irq = n])

\* Such bytes, when they wait, are read, and neither end a frame nor break one.  The
\* counters do not tell which wait.
Pass == \E n \in Run : /\ count.pb + count.qd + n <= count.irq
                      /\ Add([Nothing EXCEPT !.pb = n])

Silence == UNCHANGED count

Next == Serve \/ Refuse \/ Drop \/ Queue \/ Pass \/ Silence

Spec == Init /\ [][Next]_count

-----------------------------------------------------------------------------

PowerOfTen == <<10, 100, 1000, 10000, 100000, 1000000, 10000000, 100000000, 1000000000>>

\* The length of "%lu".
Digits(n) == 1 + Cardinality({k \in 1 .. 9 : PowerOfTen[k] <= n})

\* Mutant: irq, the longest, is written last.
IrqLast ==
  LET rx == 3 + Digits(count.rx)
      ae == rx + 4 + Digits(count.ae)
      pb == ae + 4 + Digits(count.pb)
      pm == pb + 4 + Digits(count.pm)
      pe == pm + 4 + Digits(count.pe)
      qd == pe + 4 + Digits(count.qd)
      irq == qd + 5 + Digits(count.irq)
  IN  [rx |-> rx, ae |-> ae, irq |-> irq, pb |-> pb, pm |-> pm, pe |-> pe, qd |-> qd]

\* Where each value ends in the whole text: after its name, the '=', and the
\* comma that all but the first have before them.
Ends ==
  LET rx == 3 + Digits(count.rx)
      ae == rx + 4 + Digits(count.ae)
      irq == ae + 5 + Digits(count.irq)
      pb == irq + 4 + Digits(count.pb)
      pm == pb + 4 + Digits(count.pm)
      pe == pm + 4 + Digits(count.pe)
      qd == pe + 4 + Digits(count.qd)
  IN  [rx |-> rx, ae |-> ae, irq |-> irq, pb |-> pb, pm |-> pm, pe |-> pe, qd |-> qd]

Missing == -1

\* Mutant: snprintf is given the length of a payload, and needs one more place.
NoRoomForTheEnd ==
  [c \in Counter |->
     LET cut == Ends[c] - (Room - 1)
     IN  IF cut <= 0 THEN count[c]
         ELSE IF cut < Digits(count[c]) THEN count[c] \div 10^cut ELSE Missing]

\* What is left of each value in the first Room characters.
app_build_status_message ==
  [c \in Counter |->
     LET cut == Ends[c] - Room
     IN  IF cut <= 0 THEN count[c]
         ELSE IF cut < Digits(count[c]) THEN count[c] \div 10^cut ELSE Missing]

-----------------------------------------------------------------------------
(* Properties. *)

\* rx, ae and irq come through whole whatever values the seven counters have
\* reached: between them they never need more than the room of a payload.
FirstCountersAreExact ==
  \A c \in {"rx", "ae", "irq"} : app_build_status_message[c] = count[c]

\* What the next property rests on: the counters do not wrap, a request has at
\* least the 12 bytes of "@04:CMD::CC\n", and a payload holds 48.
NothingWraps == /\ MaxBytes < Limit /\ Room >= 48
                /\ \A r \in Request : r.bytes >= 12

\* The counters are bound to one another, a message having at least 12 bytes:
\* for the first 9999 bytes, with at most 99 refused frames and 9 dropped
\* bytes, their values fit together and the whole report is exact.
EarlyReportsAreExact ==
  count.irq <= 9999 /\ count.pe <= 99 /\ count.qd <= 9 => app_build_status_message = count
=============================================================================
