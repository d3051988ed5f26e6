------------------------------- MODULE MCLink -------------------------------
(***************************************************************************)
(* Link with the widths of the firmware and frames of its tests.           *)
(***************************************************************************)
EXTENDS Link

MCTypeText == [CMD |-> <<67, 77, 68>>, DAT |-> <<68, 65, 84>>, EVT |-> <<69, 86, 84>>,
               STS |-> <<83, 84, 83>>, ACK |-> <<65, 67, 75>>, ERR |-> <<69, 82, 82>>]

PingText   == <<112, 105, 110, 103>>                       \* "ping"
StatusText == <<115, 116, 97, 116, 117, 115, 63>>          \* "status?"
PongText   == <<112, 111, 110, 103, 61, 49>>               \* "pong=1"
OkText     == <<99, 109, 100, 61, 111, 107>>               \* "cmd=ok"

Ping   == [type |-> "CMD", payload |-> PingText]
Status == [type |-> "CMD", payload |-> StatusText]
Pong   == [type |-> "ACK", payload |-> PongText]
Ok     == [type |-> "ACK", payload |-> OkText]
Empty  == [type |-> "EVT", payload |-> << >>]
Longest == [type |-> "STS", payload |-> [i \in 1..MaxPayload |-> 57]]

\* tests/host: @08:CMD:ping:52, @0B:CMD:status?:13, @0A:ACK:pong=1:22 and
\* @0A:ACK:cmd=ok:6B are the frames of these messages.
ASSUME ReferenceFrames ==
  LET frame(ll, m, cc) ==
        <<START>> \o ll \o <<SEP>> \o MCTypeText[m.type] \o <<SEP>>
          \o m.payload \o <<SEP>> \o cc \o <<END>>
  IN  /\ protocol_encode_frame(Ping, MaxFrame)   = frame(<<48, 56>>, Ping, <<53, 50>>)
      /\ protocol_encode_frame(Status, MaxFrame) = frame(<<48, 66>>, Status, <<49, 51>>)
      /\ protocol_encode_frame(Pong, MaxFrame)   = frame(<<48, 65>>, Pong, <<50, 50>>)
      /\ protocol_encode_frame(Ok, MaxFrame)     = frame(<<48, 65>>, Ok, <<54, 66>>)

\* Every byte that means something to the parser, digits that make LL longer
\* or shorter, and a letter.
MCInput == {NUL, CR, END, SEP, START, 48, 49, 50, 51, 52, 56, 65, 70, 97, 112}

\* A long stream of short frames, and frames from the shortest to the longest.
MCTraffic == {[messages |-> {Ping, Empty}, number |-> 7],
              [messages |-> {Ok, Empty, Longest}, number |-> 3]}

ASSUME TrafficIsClean == CleanTraffic
=============================================================================
