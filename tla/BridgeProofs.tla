---------------------------- MODULE BridgeProofs ----------------------------
(***************************************************************************)
(* Proofs about the bridge, for any number of ports that come and go.      *)
(***************************************************************************)
EXTENDS Bridge, FiniteSetTheorems, TLAPS

Closing == {"set stop", "test port", "close port", "forget port"}
Ending  == {"test thread", "test alive", "test current", "join", "forget thread"}
Opening == {"assign", "reset", "clear stop", "create", "start"}

MainPlace   == {"spin", "exited"} \union Opening \union Closing \union Ending
ReaderPlace == {"loop", "fetch port", "read", "done"} \union Closing \union Ending

\* A reader attends its port from its first step until it has made
\* serial_port None; what it does after that concerns no port.
Attending == {"loop", "fetch port", "read"} \union Closing

PlacesOK ==
  /\ pc \in [Ports \union {Main} -> MainPlace \union ReaderPlace]
  /\ pc[Main] \in MainPlace
  /\ \A t \in Ports : pc[t] \in ReaderPlace
AttributesOK ==
  /\ port \in [Ports \union {Main} -> Ports \union {None}]
  /\ serial_port \in Ports \union {None} /\ reader_thread \in Ports \union {None}
  /\ reader_stop \in BOOLEAN
  /\ status \in [Ports -> {"open", "broken", "closed"}]

TypeOK == PlacesOK /\ AttributesOK

-----------------------------------------------------------------------------
(* The inductive invariant.  The threads share their attributes without a   *)
(* lock; what keeps them apart is that main opens a port only when there is *)
(* none, and that a reader makes serial_port None as its last use of it.    *)

\* A port that is not closed is the one the bridge knows, or is about to know.
OpenPortIsKnown ==
  \A p \in Ports : status[p] # "closed" =>
    p = IF pc[Main] = "assign" THEN port[Main] ELSE serial_port

\* While main opens a port it has it in its hands.
PortBeingOpened ==
  /\ pc[Main] \in Opening => port[Main] \in Ports
  /\ pc[Main] \in Opening \ {"assign"} => serial_port = port[Main]
  /\ pc[Main] = "start" => reader_thread \in {None, port[Main]}

\* Main opens no port while a reader attends one, and until main closes it
\* the port attended is the one the bridge knows.
AttendedPort ==
  \A t \in Ports : pc[t] \in Attending =>
    /\ pc[Main] \notin Opening
    /\ pc[Main] = "spin" => serial_port = t
    /\ serial_port \in {None, t}
    /\ pc[t] \in {"read"} \union Closing => port[t] = t

\* What a thread forgets is closed.
ForgottenPort ==
  \A t \in Ports \union {Main} :
    pc[t] = "forget port" /\ serial_port # None => status[serial_port] = "closed"

\* The event is clear when a reader starts and until it sets it.
StopIsClear ==
  /\ pc[Main] \in {"create", "start"} => ~reader_stop
  /\ pc[Main] = "spin" /\ serial_port # None =>
       /\ pc[serial_port] \in Attending
       /\ pc[serial_port] \in {"loop", "fetch port", "read", "set stop"} => ~reader_stop

IInv == /\ TypeOK /\ OpenPortIsKnown /\ PortBeingOpened
        /\ AttendedPort /\ ForgottenPort /\ StopIsClear

-----------------------------------------------------------------------------

LEMMA NoneIsNoPort == None \notin Ports /\ Main \notin Ports /\ None = Main
BY BridgeAssumption DEF None, Main

LEMMA InitInv == Init => IInv
<1> SUFFICES ASSUME Init PROVE IInv
  OBVIOUS
<1> USE NoneIsNoPort DEF Init
<1>1. TypeOK
  BY DEF TypeOK, PlacesOK, AttributesOK, MainPlace, ReaderPlace
<1>2. OpenPortIsKnown /\ PortBeingOpened
  BY DEF OpenPortIsKnown, PortBeingOpened, Opening
<1>3. AttendedPort /\ ForgottenPort /\ StopIsClear
  BY DEF AttendedPort, ForgottenPort, StopIsClear, Attending, Closing
<1> QED BY <1>1, <1>2, <1>3 DEF IInv

\* The actions by the name of the thread that takes them.
LEMMA Steps ==
  ASSUME [Next]_vars
  PROVE  \/ poll_serial \/ AssignPort \/ ResetBuffers \/ ClearStop \/ CreateThread
         \/ StartThread \/ Interrupted
         \/ \E t \in Ports \union {Main} : close_serial(t)
         \/ \E t \in Ports : TestStop(t) \/ FetchPort(t)
         \/ \E t \in Ports : ReadByte(t) \/ ReadNothing(t) \/ ReadBroken(t) \/ ReadClosed(t)
         \/ Second \/ Unplug \/ Plug \/ UNCHANGED vars
BY DEF Next, opens, reads

\* A thread moves to a place of its own.
LEMMA MainMoves ==
  ASSUME PlacesOK, NEW place \in MainPlace, GoTo(Main, place)
  PROVE  PlacesOK'
<1>1. Main \notin Ports
  BY NoneIsNoPort
<1> QED BY <1>1 DEF PlacesOK, GoTo

LEMMA ReaderMoves ==
  ASSUME PlacesOK, NEW t \in Ports, NEW place \in ReaderPlace, GoTo(t, place)
  PROVE  PlacesOK'
<1>1. t # Main
  BY NoneIsNoPort
<1> QED BY <1>1 DEF PlacesOK, GoTo

LEMMA PlacesKept == PlacesOK /\ PortBeingOpened /\ [Next]_vars => PlacesOK'
<1> SUFFICES ASSUME PlacesOK, PortBeingOpened, [Next]_vars PROVE PlacesOK'
  OBVIOUS
<1>1. /\ {"spin", "exited", "assign", "reset", "clear stop", "create", "start"} \subseteq MainPlace
      /\ {"loop", "fetch port", "read", "done"} \subseteq ReaderPlace
      /\ {"set stop", "test port", "close port", "forget port", "test thread",
          "test alive", "test current", "join", "forget thread"} \subseteq MainPlace \intersect ReaderPlace
  BY DEF MainPlace, ReaderPlace, Opening, Closing, Ending
<1>2. ASSUME opens \/ Interrupted, ~StartThread
      PROVE  PlacesOK'
  <2>1. UNCHANGED pc \/ \E place \in {"spin", "assign", "reset", "clear stop", "create",
                                      "start", "set stop"} : GoTo(Main, place)
    BY <1>2 DEF opens, poll_serial, AssignPort, ResetBuffers, ClearStop, CreateThread, Interrupted
  <2>2. CASE UNCHANGED pc
    BY <2>2 DEF PlacesOK
  <2>3. ASSUME NEW place \in {"spin", "assign", "reset", "clear stop", "create", "start",
                              "set stop"}, GoTo(Main, place)
        PROVE  PlacesOK'
    <3>1. place \in MainPlace
      BY <1>1
    <3> QED BY <2>3, <3>1, MainMoves
  <2> QED BY <2>1, <2>2, <2>3
<1>3. CASE StartThread
  <2>1. CASE GoTo(Main, "set stop")
    BY <1>1, <2>1, MainMoves
  <2>2. CASE /\ reader_thread # None
             /\ pc' = [pc EXCEPT ![Main] = "spin", ![reader_thread] = "loop"]
    <3>1. reader_thread \in Ports
      BY <1>3, <2>2 DEF StartThread, At, PortBeingOpened, Opening
    <3>2. reader_thread # Main /\ Main \notin Ports
      BY <3>1, NoneIsNoPort
    <3>3. "spin" \in MainPlace /\ "loop" \in ReaderPlace
      BY <1>1
    <3> QED BY <2>2, <3>1, <3>2, <3>3 DEF PlacesOK
  <2> QED BY <1>3, <2>1, <2>2 DEF StartThread
<1>4. ASSUME NEW t \in Ports \union {Main}, close_serial(t)
      PROVE  PlacesOK'
  <2>1. \/ \E place \in {"test port", "close port", "forget port", "test thread",
                         "test alive", "test current", "join", "forget thread"} : GoTo(t, place)
        \/ Ends(t)
    BY <1>4 DEF close_serial, SetStop, TestPort, ClosePort, ForgetPort, TestThread, TestAlive,
                TestCurrent, Join, ForgetThread
  <2>2. ASSUME NEW place \in {"test port", "close port", "forget port", "test thread",
                              "test alive", "test current", "join", "forget thread"}, GoTo(t, place)
        PROVE  PlacesOK'
    <3>1. place \in MainPlace /\ place \in ReaderPlace
      BY <1>1
    <3>2. CASE t = Main
      BY <2>2, <3>1, <3>2, MainMoves
    <3>3. CASE t \in Ports
      BY <2>2, <3>1, <3>3, ReaderMoves
    <3> QED BY <3>2, <3>3
  <2>3. CASE Ends(t)
    <3>1. "exited" \in MainPlace /\ "done" \in ReaderPlace
      BY <1>1
    <3>2. CASE t = Main
      BY <2>3, <3>1, <3>2, MainMoves DEF Ends
    <3>3. CASE t \in Ports
      BY <2>3, <3>1, <3>3, ReaderMoves, NoneIsNoPort DEF Ends
    <3> QED BY <3>2, <3>3
  <2> QED BY <2>1, <2>2, <2>3
<1>5. ASSUME NEW t \in Ports, reads(t) \/ ReadByte(t) \/ ReadNothing(t) \/ ReadClosed(t)
      PROVE  PlacesOK'
  <2>1. \E place \in {"loop", "fetch port", "read", "done", "set stop"} : GoTo(t, place)
    BY <1>5 DEF reads, TestStop, FetchPort, ReadByte, ReadNothing, ReadBroken, ReadClosed
  <2>2. ASSUME NEW place \in {"loop", "fetch port", "read", "done", "set stop"}, GoTo(t, place)
        PROVE  PlacesOK'
    <3>1. place \in ReaderPlace
      BY <1>1
    <3> QED BY <2>2, <3>1, ReaderMoves
  <2> QED BY <2>1, <2>2
<1>6. CASE Second \/ Unplug \/ Plug \/ UNCHANGED vars
  BY <1>6 DEF Second, Unplug, Plug, vars, PlacesOK
<1> QED BY <1>2, <1>3, <1>4, <1>5, <1>6 DEF Next

LEMMA AttributesKept == TypeOK /\ PortBeingOpened /\ [Next]_vars => AttributesOK'
<1> SUFFICES ASSUME AttributesOK, PortBeingOpened, [Next]_vars PROVE AttributesOK'
  BY DEF TypeOK
<1> USE NoneIsNoPort DEF AttributesOK, At, attributes, device
<1>1. CASE poll_serial
  BY <1>1 DEF poll_serial, Unused
<1>2. CASE AssignPort
  BY <1>2 DEF AssignPort, PortBeingOpened, Opening
<1>3. CASE ResetBuffers
  BY <1>3 DEF ResetBuffers, PortBeingOpened, Opening
<1>4. CASE ClearStop \/ CreateThread
  BY <1>4 DEF ClearStop, CreateThread, PortBeingOpened, Opening
<1>5. CASE StartThread \/ Interrupted
  BY <1>5 DEF StartThread, Interrupted
<1>6. ASSUME NEW t \in Ports \union {Main}, close_serial(t)
      PROVE  AttributesOK'
  <2>1. CASE \/ SetStop(t) \/ TestPort(t) \/ ForgetPort(t)
             \/ TestThread(t) \/ TestAlive(t) \/ TestCurrent(t)
    BY <2>1 DEF SetStop, TestPort, ForgetPort, TestThread, TestAlive, TestCurrent, Ends
  <2>2. CASE ClosePort(t)
    BY <2>2 DEF ClosePort
  <2>3. CASE Join(t) \/ ForgetThread(t)
    BY <2>3 DEF Join, ForgetThread
  <2> QED BY <1>6, <2>1, <2>2, <2>3 DEF close_serial
<1>7. ASSUME NEW t \in Ports, TestStop(t) \/ FetchPort(t)
      PROVE  AttributesOK'
  <2>1. CASE TestStop(t)
    BY <2>1 DEF TestStop
  <2>2. CASE FetchPort(t)
    <3>1. /\ port' = [port EXCEPT ![t] = serial_port]
          /\ UNCHANGED <<serial_port, reader_thread, reader_stop, status>>
      BY <2>2 DEF FetchPort
    <3>2. port' \in [Ports \union {Main} -> Ports \union {None}]
      BY <3>1
    <3> QED BY <3>1, <3>2
  <2> QED BY <1>7, <2>1, <2>2
<1>8. ASSUME NEW t \in Ports, ReadByte(t) \/ ReadNothing(t) \/ ReadBroken(t) \/ ReadClosed(t)
      PROVE  AttributesOK'
  BY <1>8 DEF ReadByte, ReadNothing, ReadBroken, ReadClosed
<1>9. CASE Second \/ Unplug \/ Plug \/ UNCHANGED vars
  BY <1>9 DEF Second, Unplug, Plug, vars
<1> QED BY Steps, <1>1, <1>2, <1>3, <1>4, <1>5, <1>6, <1>7, <1>8, <1>9

LEMMA OpenPortIsKnownKept == IInv /\ [Next]_vars => OpenPortIsKnown'
<1> SUFFICES ASSUME IInv, [Next]_vars PROVE OpenPortIsKnown'
  OBVIOUS
<1> USE NoneIsNoPort DEF IInv, TypeOK, PlacesOK, AttributesOK, OpenPortIsKnown, At, GoTo, attributes, device
<1>1. CASE poll_serial
  BY <1>1 DEF poll_serial
<1>2. CASE AssignPort
  BY <1>2 DEF AssignPort
<1>3. CASE ResetBuffers
  <2>1. port[Main] \in Ports /\ serial_port = port[Main] /\ pc[Main] = "reset"
    BY <1>3 DEF ResetBuffers, PortBeingOpened, Opening
  <2>2. \A p \in Ports : status[p] # "closed" => p = serial_port
    BY <2>1
  <2>3. CASE GoTo(Main, "clear stop") /\ UNCHANGED <<serial_port, status>>
    <3>1. pc'[Main] = "clear stop"
      BY <2>3
    <3> QED BY <2>2, <2>3, <3>1
  <2>4. CASE status' = [status EXCEPT ![port[Main]] = "closed"]
    <3>1. \A p \in Ports : status'[p] = "closed"
      BY <2>1, <2>2, <2>4
    <3> QED BY <3>1
  <2> QED BY <1>3, <2>3, <2>4 DEF ResetBuffers
<1>4. CASE ClearStop \/ CreateThread
  BY <1>4 DEF ClearStop, CreateThread
<1>5. CASE StartThread
  BY <1>5 DEF StartThread
<1>6. CASE Interrupted
  BY <1>6 DEF Interrupted
<1>7. ASSUME NEW t \in Ports \union {Main}, close_serial(t)
      PROVE  OpenPortIsKnown'
  <2>1. CASE SetStop(t) \/ TestPort(t)
    BY <2>1 DEF SetStop, TestPort
  <2>2. CASE ClosePort(t)
    BY <2>2 DEF ClosePort, Ends
  <2>3. CASE ForgetPort(t)
    <3>1. pc[Main] # "assign"
      BY <2>3 DEF ForgetPort, AttendedPort, Attending, Closing, Opening
    <3>2. \A p \in Ports : status[p] = "closed"
      BY <2>3, <3>1 DEF ForgetPort, ForgottenPort
    <3> QED BY <2>3, <3>2 DEF ForgetPort
  <2>4. CASE TestThread(t) \/ TestAlive(t) \/ TestCurrent(t)
    BY <2>4 DEF TestThread, TestAlive, TestCurrent, Ends
  <2>5. CASE Join(t) \/ ForgetThread(t)
    BY <2>5 DEF Join, ForgetThread, Ends
  <2> QED BY <1>7, <2>1, <2>2, <2>3, <2>4, <2>5 DEF close_serial
<1>8. ASSUME NEW t \in Ports, TestStop(t) \/ FetchPort(t)
      PROVE  OpenPortIsKnown'
  BY <1>8 DEF TestStop, FetchPort
<1>9. ASSUME NEW t \in Ports, ReadByte(t) \/ ReadNothing(t) \/ ReadBroken(t) \/ ReadClosed(t)
      PROVE  OpenPortIsKnown'
  BY <1>9 DEF ReadByte, ReadNothing, ReadBroken, ReadClosed
<1>10. CASE Second \/ Unplug \/ Plug \/ UNCHANGED vars
  BY <1>10 DEF Second, Unplug, Plug, vars
<1> QED BY Steps, <1>1, <1>2, <1>3, <1>4, <1>5, <1>6, <1>7, <1>8, <1>9, <1>10

LEMMA PortBeingOpenedKept == IInv /\ [Next]_vars => PortBeingOpened'
<1> SUFFICES ASSUME IInv, [Next]_vars PROVE PortBeingOpened'
  OBVIOUS
<1> USE NoneIsNoPort DEF IInv, TypeOK, PlacesOK, AttributesOK, PortBeingOpened, Opening, Closing,
                        At, GoTo, attributes, device
<1>1. CASE poll_serial
  BY <1>1 DEF poll_serial, Unused
<1>2. CASE AssignPort
  BY <1>2 DEF AssignPort
<1>3. CASE ResetBuffers
  BY <1>3 DEF ResetBuffers
<1>4. CASE ClearStop \/ CreateThread
  BY <1>4 DEF ClearStop, CreateThread
<1>5. CASE StartThread
  BY <1>5 DEF StartThread
<1>6. CASE Interrupted
  BY <1>6 DEF Interrupted
<1>7. ASSUME NEW t \in Ports \union {Main}, close_serial(t)
      PROVE  PortBeingOpened'
  <2>1. CASE SetStop(t) \/ TestPort(t)
    BY <2>1 DEF SetStop, TestPort
  <2>2. CASE ClosePort(t)
    BY <2>2 DEF ClosePort, Ends
  <2>3. CASE ForgetPort(t)
    <3>1. pc[Main] \notin Opening
      BY <2>3 DEF ForgetPort, AttendedPort, Attending
    <3>2. pc'[Main] \notin Opening
      BY <2>3, <3>1 DEF ForgetPort
    <3> QED BY <3>2
  <2>4. CASE TestThread(t) \/ TestAlive(t) \/ TestCurrent(t)
    BY <2>4 DEF TestThread, TestAlive, TestCurrent, Ends
  <2>5. CASE Join(t) \/ ForgetThread(t)
    BY <2>5 DEF Join, ForgetThread, Ends
  <2> QED BY <1>7, <2>1, <2>2, <2>3, <2>4, <2>5 DEF close_serial
<1>8. ASSUME NEW t \in Ports, TestStop(t) \/ FetchPort(t)
      PROVE  PortBeingOpened'
  BY <1>8 DEF TestStop, FetchPort
<1>9. ASSUME NEW t \in Ports, ReadByte(t) \/ ReadNothing(t) \/ ReadBroken(t) \/ ReadClosed(t)
      PROVE  PortBeingOpened'
  BY <1>9 DEF ReadByte, ReadNothing, ReadBroken, ReadClosed
<1>10. CASE Second \/ Unplug \/ Plug \/ UNCHANGED vars
  BY <1>10 DEF Second, Unplug, Plug, vars
<1> QED BY Steps, <1>1, <1>2, <1>3, <1>4, <1>5, <1>6, <1>7, <1>8, <1>9, <1>10

\* A reader that does not attend its port yet or any more does not attend it
\* after a step of its own.
LEMMA AttendedPortKept == IInv /\ [Next]_vars => AttendedPort'
<1> SUFFICES ASSUME IInv, [Next]_vars PROVE AttendedPort'
  OBVIOUS
<1> USE NoneIsNoPort DEF IInv, TypeOK, PlacesOK, AttributesOK, AttendedPort, At, GoTo,
                        attributes, device
<1>1. CASE poll_serial
  <2>1. \A t \in Ports : pc[t] \notin Attending
    BY <1>1 DEF poll_serial
  <2>2. \A t \in Ports : pc'[t] = pc[t]
    BY <1>1 DEF poll_serial
  <2> QED BY <2>1, <2>2
<1>2. CASE AssignPort \/ ResetBuffers \/ ClearStop \/ CreateThread
  <2>1. \A t \in Ports : pc[t] \notin Attending
    BY <1>2 DEF AssignPort, ResetBuffers, ClearStop, CreateThread, Opening
  <2>2. \A t \in Ports : pc'[t] = pc[t]
    BY <1>2 DEF AssignPort, ResetBuffers, ClearStop, CreateThread
  <2> QED BY <2>1, <2>2
<1>3. CASE StartThread
  <2>1. \A t \in Ports : pc[t] \notin Attending
    BY <1>3 DEF StartThread, Opening
  <2>2. CASE reader_thread = None /\ pc' = [pc EXCEPT ![Main] = "set stop"]
    <3>1. \A t \in Ports : pc'[t] = pc[t]
      BY <2>2
    <3> QED BY <2>1, <3>1
  <2>3. CASE /\ reader_thread # None
             /\ pc' = [pc EXCEPT ![Main] = "spin", ![reader_thread] = "loop"]
    <3>1. reader_thread \in Ports /\ reader_thread = serial_port
      BY <1>3, <2>3 DEF StartThread, PortBeingOpened, Opening
    <3>2. /\ pc'[Main] = "spin" /\ pc'[reader_thread] = "loop"
          /\ \A t \in Ports : t # reader_thread => pc'[t] = pc[t]
      BY <2>3, <3>1
    <3>3. \A t \in Ports : pc'[t] \in Attending => t = serial_port
      BY <2>1, <3>1, <3>2
    <3>4. serial_port' = serial_port
      BY <1>3 DEF StartThread
    <3> QED BY <3>1, <3>2, <3>3, <3>4 DEF Opening, Closing
  <2> QED BY <1>3, <2>2, <2>3 DEF StartThread
<1>4. CASE Interrupted
  <2>1. /\ pc'[Main] = "set stop" /\ \A t \in Ports : pc'[t] = pc[t]
        /\ UNCHANGED <<port, serial_port>>
    BY <1>4 DEF Interrupted
  <2> QED BY <2>1 DEF Opening
<1>5. ASSUME close_serial(Main)
      PROVE  AttendedPort'
  <2>1. /\ \A t \in Ports : pc'[t] = pc[t]
        /\ pc'[Main] \in {"test port", "close port", "forget port", "test thread",
                          "test alive", "test current", "join", "forget thread", "exited"}
        /\ port' = port /\ serial_port' \in {serial_port, None}
    BY <1>5 DEF close_serial, SetStop, TestPort, ClosePort, ForgetPort, TestThread, TestAlive,
                TestCurrent, Join, ForgetThread, Ends
  <2> QED BY <2>1 DEF Opening
<1>6. ASSUME NEW t \in Ports, close_serial(t)
      PROVE  AttendedPort'
  <2>1. /\ pc'[Main] = pc[Main] /\ port' = port
        /\ \A u \in Ports : u # t => pc'[u] = pc[u]
    BY <1>6 DEF close_serial, SetStop, TestPort, ClosePort, ForgetPort, TestThread, TestAlive,
                TestCurrent, Join, ForgetThread, Ends
  <2>2. CASE SetStop(t) \/ TestPort(t) \/ ClosePort(t)
    <3>1. pc[t] \in Closing /\ serial_port' = serial_port
      BY <2>2 DEF SetStop, TestPort, ClosePort, Closing
    <3> QED BY <2>1, <3>1 DEF Attending
  <2>3. CASE ForgetPort(t)
    <3>1. pc[t] \in Closing /\ serial_port' = None /\ pc'[t] \notin Attending
      BY <2>3 DEF ForgetPort, Closing, Attending
    <3>2. pc[Main] = "spin" => \A u \in Ports : pc[u] \in Attending => u = t
      BY <3>1 DEF Attending
    <3> QED BY <2>1, <3>1, <3>2
  <2>4. CASE TestThread(t) \/ TestAlive(t) \/ TestCurrent(t) \/ Join(t) \/ ForgetThread(t)
    <3>1. pc'[t] \notin Attending /\ serial_port' = serial_port
      BY <2>4 DEF TestThread, TestAlive, TestCurrent, Join, ForgetThread, Ends, Attending, Closing
    <3> QED BY <2>1, <3>1
  <2> QED BY <1>6, <2>2, <2>3, <2>4 DEF close_serial
<1>7. ASSUME NEW t \in Ports, TestStop(t)
      PROVE  AttendedPort'
  <2>1. /\ pc[t] \in Attending /\ pc'[t] \in {"done", "fetch port"}
        /\ UNCHANGED <<port, serial_port>> /\ pc'[Main] = pc[Main]
        /\ \A u \in Ports : u # t => pc'[u] = pc[u]
    BY <1>7 DEF TestStop, Attending
  <2> QED BY <2>1 DEF Closing
<1>8. ASSUME NEW t \in Ports, FetchPort(t)
      PROVE  AttendedPort'
  <2>1. /\ pc[t] \in Attending /\ port' = [port EXCEPT ![t] = serial_port]
        /\ serial_port' = serial_port /\ pc'[Main] = pc[Main]
        /\ pc'[t] = IF serial_port = None THEN "done" ELSE "read"
        /\ \A u \in Ports : u # t => pc'[u] = pc[u]
    BY <1>8 DEF FetchPort, Attending
  <2>2. \A u \in Ports : u # t => port'[u] = port[u]
    BY <2>1
  <2>3. pc'[t] \in Attending => port'[t] = t
    BY <2>1 DEF Attending, Closing
  <2> QED BY <2>1, <2>2, <2>3
<1>9. ASSUME NEW t \in Ports, ReadByte(t) \/ ReadNothing(t) \/ ReadBroken(t) \/ ReadClosed(t)
      PROVE  AttendedPort'
  <2>1. /\ pc[t] = "read" /\ UNCHANGED <<port, serial_port>> /\ pc'[Main] = pc[Main]
        /\ \A u \in Ports : u # t => pc'[u] = pc[u]
    BY <1>9 DEF ReadByte, ReadNothing, ReadBroken, ReadClosed
  <2> QED BY <2>1 DEF Attending
<1>10. CASE Second \/ Unplug \/ Plug \/ UNCHANGED vars
  BY <1>10 DEF Second, Unplug, Plug, vars
<1> QED BY Steps, <1>1, <1>2, <1>3, <1>4, <1>5, <1>6, <1>7, <1>8, <1>9, <1>10

LEMMA ForgottenPortKept == IInv /\ [Next]_vars => ForgottenPort'
<1> SUFFICES ASSUME IInv, [Next]_vars PROVE ForgottenPort'
  OBVIOUS
<1> USE NoneIsNoPort DEF IInv, TypeOK, PlacesOK, AttributesOK, ForgottenPort, At, GoTo,
                        attributes, device
<1>1. CASE opens
  <2>1. \A t \in Ports \union {Main} : pc'[t] # "forget port"
    <3>1. \A t \in Ports : pc[t] # "forget port"
      BY <1>1 DEF opens, poll_serial, AssignPort, ResetBuffers, ClearStop, CreateThread,
                  StartThread, AttendedPort, Attending, Closing, Opening
    <3>2. \A t \in Ports : pc'[t] \in {pc[t], "loop"}
      BY <1>1 DEF opens, poll_serial, AssignPort, ResetBuffers, ClearStop, CreateThread,
                  StartThread
    <3>3. pc'[Main] # "forget port"
      BY <1>1 DEF opens, poll_serial, AssignPort, ResetBuffers, ClearStop, CreateThread,
                  StartThread
    <3> QED BY <3>1, <3>2, <3>3
  <2> QED BY <2>1
<1>2. CASE Interrupted
  BY <1>2 DEF Interrupted
<1>3. ASSUME NEW t \in Ports \union {Main}, close_serial(t)
      PROVE  ForgottenPort'
  <2>1. CASE SetStop(t) \/ TestThread(t) \/ TestAlive(t) \/ TestCurrent(t)
    BY <2>1 DEF SetStop, TestThread, TestAlive, TestCurrent, Ends
  <2>2. CASE TestPort(t)
    BY <2>2 DEF TestPort
  <2>3. CASE ClosePort(t)
    BY <2>3 DEF ClosePort, Ends
  <2>4. CASE ForgetPort(t)
    BY <2>4 DEF ForgetPort
  <2>5. CASE Join(t) \/ ForgetThread(t)
    BY <2>5 DEF Join, ForgetThread, Ends
  <2> QED BY <1>3, <2>1, <2>2, <2>3, <2>4, <2>5 DEF close_serial
<1>4. ASSUME NEW t \in Ports, reads(t) \/ ReadByte(t) \/ ReadNothing(t) \/ ReadClosed(t)
      PROVE  ForgottenPort'
  BY <1>4 DEF reads, TestStop, FetchPort, ReadByte, ReadNothing, ReadBroken, ReadClosed
<1>5. CASE Second \/ Unplug \/ Plug \/ UNCHANGED vars
  <2>1. pc' = pc /\ serial_port' = serial_port
    BY <1>5 DEF Second, Unplug, Plug, vars
  <2>2. \A p \in Ports : status[p] = "closed" => status'[p] = "closed"
    BY <1>5 DEF Second, Unplug, Plug, vars
  <2> QED BY <2>1, <2>2
<1> QED BY <1>1, <1>2, <1>3, <1>4, <1>5 DEF Next

LEMMA StopIsClearKept == IInv /\ [Next]_vars => StopIsClear'
<1> SUFFICES ASSUME IInv, [Next]_vars PROVE StopIsClear'
  OBVIOUS
<1> USE NoneIsNoPort DEF IInv, TypeOK, PlacesOK, AttributesOK, StopIsClear, At, GoTo,
                        attributes, device
<1>1. CASE poll_serial \/ AssignPort
  BY <1>1 DEF poll_serial, AssignPort
<1>2. CASE ResetBuffers
  <2>1. CASE pc' = [pc EXCEPT ![Main] = "clear stop"]
    BY <2>1
  <2>2. CASE pc' = [pc EXCEPT ![Main] = "spin"] /\ serial_port' = None
    BY <2>2
  <2> QED BY <1>2, <2>1, <2>2 DEF ResetBuffers
<1>3. CASE ClearStop \/ CreateThread
  <2>1. CASE ClearStop
    BY <2>1 DEF ClearStop
  <2>2. CASE CreateThread
    BY <2>2 DEF CreateThread
  <2> QED BY <1>3, <2>1, <2>2
<1>4. CASE StartThread
  <2>1. CASE pc' = [pc EXCEPT ![Main] = "set stop"]
    BY <2>1
  <2>2. CASE /\ reader_thread # None
             /\ pc' = [pc EXCEPT ![Main] = "spin", ![reader_thread] = "loop"]
    <3>1. reader_thread \in Ports /\ reader_thread = serial_port /\ ~reader_stop
      BY <1>4, <2>2 DEF StartThread, PortBeingOpened, Opening
    <3>2. /\ pc'[serial_port] = "loop" /\ pc'[Main] = "spin"
          /\ serial_port' = serial_port /\ ~reader_stop'
      BY <1>4, <2>2, <3>1 DEF StartThread
    <3> QED BY <3>2 DEF Attending
  <2> QED BY <1>4, <2>1, <2>2 DEF StartThread
<1>5. CASE Interrupted
  BY <1>5 DEF Interrupted
<1>6. ASSUME close_serial(Main)
      PROVE  StopIsClear'
  <2>1. pc'[Main] \in {"test port", "close port", "forget port", "test thread",
                       "test alive", "test current", "join", "forget thread", "exited"}
    BY <1>6 DEF close_serial, SetStop, TestPort, ClosePort, ForgetPort, TestThread, TestAlive,
                TestCurrent, Join, ForgetThread, Ends
  <2> QED BY <2>1
<1>7. ASSUME NEW t \in Ports, close_serial(t)
      PROVE  StopIsClear'
  <2>1. /\ pc'[Main] = pc[Main] /\ \A u \in Ports : u # t => pc'[u] = pc[u]
    BY <1>7 DEF close_serial, SetStop, TestPort, ClosePort, ForgetPort, TestThread, TestAlive,
                TestCurrent, Join, ForgetThread, Ends
  <2>2. CASE SetStop(t)
    <3>1. /\ pc[t] \in Attending /\ serial_port' = serial_port /\ pc'[t] = "test port"
      BY <2>2 DEF SetStop, Attending, Closing
    <3>2. pc[Main] \notin {"create", "start"} /\ (pc[Main] = "spin" => serial_port = t)
      BY <3>1 DEF AttendedPort, Opening
    <3>3. pc'[t] \in Attending
      BY <3>1 DEF Attending, Closing
    <3> QED BY <2>1, <3>1, <3>2, <3>3
  <2>3. CASE TestPort(t) \/ ClosePort(t)
    <3>1. /\ pc[t] \in Attending /\ UNCHANGED <<serial_port, reader_stop>>
      BY <2>3 DEF TestPort, ClosePort, Attending, Closing
    <3>2. pc[Main] = "spin" => serial_port = t
      BY <3>1 DEF AttendedPort
    <3>3. serial_port = t => pc'[t] \in {"close port", "forget port"}
      BY <2>3 DEF TestPort, ClosePort
    <3>4. serial_port = t => pc'[t] \in Attending /\ pc'[t] # "set stop"
      BY <3>3 DEF Attending, Closing
    <3> QED BY <2>1, <3>1, <3>2, <3>3, <3>4
  <2>4. CASE ForgetPort(t)
    BY <2>1, <2>4 DEF ForgetPort
  <2>5. CASE TestThread(t) \/ TestAlive(t) \/ TestCurrent(t) \/ Join(t) \/ ForgetThread(t)
    <3>1. pc[t] \notin Attending /\ UNCHANGED <<serial_port, reader_stop>>
      BY <2>5 DEF TestThread, TestAlive, TestCurrent, Join, ForgetThread, Attending, Closing
    <3> QED BY <2>1, <3>1
  <2> QED BY <1>7, <2>2, <2>3, <2>4, <2>5 DEF close_serial
<1>8. ASSUME NEW t \in Ports, reads(t) \/ ReadByte(t) \/ ReadNothing(t) \/ ReadClosed(t)
      PROVE  StopIsClear'
  <2>1. /\ pc'[Main] = pc[Main] /\ \A u \in Ports : u # t => pc'[u] = pc[u]
        /\ UNCHANGED <<serial_port, reader_stop>>
    BY <1>8 DEF reads, TestStop, FetchPort, ReadByte, ReadNothing, ReadBroken, ReadClosed
  <2>2. pc[t] \in {"loop", "fetch port", "read"}
    BY <1>8 DEF reads, TestStop, FetchPort, ReadByte, ReadNothing, ReadBroken, ReadClosed
  <2>3. pc[Main] = "spin" => serial_port = t /\ ~reader_stop
    BY <2>2 DEF AttendedPort, Attending
  <2>4. serial_port = t /\ ~reader_stop => pc'[t] \in {"loop", "fetch port", "read", "set stop"}
    BY <1>8 DEF reads, TestStop, FetchPort, ReadByte, ReadNothing, ReadBroken, ReadClosed
  <2>5. serial_port = t /\ ~reader_stop => pc'[t] \in Attending
    BY <2>4 DEF Attending, Closing
  <2> QED BY <2>1, <2>3, <2>4, <2>5
<1>9. CASE Second \/ Unplug \/ Plug \/ UNCHANGED vars
  <2>1. UNCHANGED <<pc, serial_port, reader_stop>>
    BY <1>9 DEF Second, Unplug, Plug, vars
  <2> QED BY <2>1
<1> QED BY <1>1, <1>2, <1>3, <1>4, <1>5, <1>6, <1>7, <1>8, <1>9 DEF Next, opens

LEMMA NextInv == IInv /\ [Next]_vars => IInv'
<1> SUFFICES ASSUME IInv, [Next]_vars PROVE IInv'
  OBVIOUS
<1>1. PlacesOK' /\ AttributesOK'
  BY PlacesKept, AttributesKept DEF IInv, TypeOK
<1> QED BY <1>1, OpenPortIsKnownKept, PortBeingOpenedKept, AttendedPortKept,
           ForgottenPortKept, StopIsClearKept DEF IInv, TypeOK

LEMMA InvariantHolds == Spec => []IInv
BY InitInv, NextInv, PTL DEF Spec

-----------------------------------------------------------------------------

\* However late a reader closes its port, whatever becomes of the adapter and
\* however many ports there are: never two at a time.
THEOREM NeverTwoPorts == Spec => []OnePortAtATime
<1>1. IInv => OnePortAtATime
  <2> SUFFICES ASSUME IInv PROVE OnePortAtATime
    OBVIOUS
  <2> DEFINE known == IF pc[Main] = "assign" THEN port[Main] ELSE serial_port
             held  == {p \in Ports : status[p] # "closed"}
  <2>1. held \subseteq {known}
    BY DEF IInv, OpenPortIsKnown
  <2> HIDE DEF held, known
  <2>2. IsFiniteSet({known}) /\ Cardinality({known}) = 1
    BY FS_Singleton
  <2>3. Cardinality(held) <= 1
    BY <2>1, <2>2, FS_Subset
  <2> QED BY <2>3 DEF OnePortAtATime, held
<1> QED BY <1>1, InvariantHolds, PTL

\* While the node spins, the port it has is attended by its reader, which has
\* not been told to stop before it started.
THEOREM PortIsAttended == Spec => []OpenPortHasAReader
<1>1. IInv => OpenPortHasAReader
  BY DEF IInv, StopIsClear, Attending, Closing, OpenPortHasAReader
<1> QED BY <1>1, InvariantHolds, PTL

\* close_serial, called by a reader, closes the port that this reader read.
THEOREM OwnPortClosed == Spec => ReadersCloseTheirOwnPort
<1> DEFINE Own == \A t, p \in Ports : ClosePort(t) /\ status'[p] # status[p] => p = port[t]
<1>1. IInv /\ [Next]_vars => [Own]_vars
  <2> SUFFICES ASSUME IInv, NEW t \in Ports, NEW p \in Ports, ClosePort(t),
                      status'[p] # status[p]
               PROVE  p = port[t]
    OBVIOUS
  <2>1. pc[t] = "close port" /\ serial_port # None
        /\ status' = [status EXCEPT ![serial_port] = "closed"]
    BY DEF ClosePort, At
  <2>2. p = serial_port
    BY <2>1 DEF IInv, TypeOK, AttributesOK
  <2>3. serial_port = t /\ port[t] = t
    BY <2>1 DEF IInv, AttendedPort, Attending, Closing
  <2> QED BY <2>2, <2>3
<1> QED BY <1>1, InvariantHolds, PTL DEF Spec, ReadersCloseTheirOwnPort
=============================================================================
