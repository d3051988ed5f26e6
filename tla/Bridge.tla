------------------------------- MODULE Bridge -------------------------------
(***************************************************************************)
(* ros2_bridge/bluepill_uart_bridge/serial_bridge_node.py: the thread of   *)
(* the executor, which opens the port and at the end closes it, and the    *)
(* reader threads, one for every port opened.  They share serial_port,     *)
(* reader_stop and reader_thread without a lock, so a step is one access   *)
(* to one of them: a test and the use that follows it are two.  The resets *)
(* of the two buffers are one step, as no reader attends a port then.      *)
(*                                                                         *)
(* Every function of protocol.py raises NotImplementedError, so a byte     *)
(* makes the reader close the port, and send_protocol_message returns      *)
(* before it uses the port: it changes nothing here and has no action.     *)
(*                                                                         *)
(* Port n is read by thread n.  A number is used again once its port is    *)
(* closed and its thread has ended.                                        *)
(***************************************************************************)
EXTENDS Integers, FiniteSets

CONSTANT Ports              \* bound: ports that exist at a time

ASSUME BridgeAssumption == Ports \subseteq Nat \ {0}

None == 0
Main == 0        \* the thread of the executor

VARIABLES pc, port,         \* of each thread: its place and its local port
          serial_port, reader_stop, reader_thread,
          recent,           \* last_open_attempt is less than one second old
          status,           \* of each port: "open", "broken" or "closed"
          plugged           \* the adapter is there

attributes == <<serial_port, reader_stop, reader_thread>>
device     == <<status, plugged>>
vars       == <<pc, port, attributes, recent, device>>

\* The constructor opens the port as poll_serial does.
Init ==
  /\ pc = [t \in Ports \union {Main} |-> IF t = Main THEN "spin" ELSE "done"]
  /\ port = [t \in Ports \union {Main} |-> None]
  /\ serial_port = None /\ reader_stop = FALSE /\ reader_thread = None
  /\ recent = FALSE
  /\ status = [p \in Ports |-> "closed"] /\ plugged \in BOOLEAN

At(t, place)   == pc[Main] # "exited" /\ pc[t] = place
GoTo(t, place) == pc' = [pc EXCEPT ![t] = place]

-----------------------------------------------------------------------------
(* open_serial, called by the timer. *)

Unused == {p \in Ports : /\ status[p] = "closed" /\ pc[p] = "done" /\ reader_thread # p
                         /\ \A t \in Ports : pc[t] # "done" => port[t] # p}

poll_serial ==
  /\ At(Main, "spin")
  /\ serial_port = None /\ ~recent
  /\ recent' = TRUE
  /\ \/ ~plugged /\ UNCHANGED <<pc, port, status>>
     \/ /\ plugged
        /\ \E p \in Unused : /\ port' = [port EXCEPT ![Main] = p]
                             /\ status' = [status EXCEPT ![p] = "open"]
        /\ GoTo(Main, "assign")
  /\ UNCHANGED <<attributes, plugged>>

AssignPort ==
  /\ At(Main, "assign")
  /\ serial_port' = port[Main]
  /\ GoTo(Main, "reset")
  /\ UNCHANGED <<port, reader_stop, reader_thread, recent, device>>

\* A port that is lost here is closed with its last reference.
ResetBuffers ==
  /\ At(Main, "reset")
  /\ \/ /\ status[port[Main]] = "open" /\ GoTo(Main, "clear stop")
        /\ UNCHANGED <<serial_port, status>>
     \/ /\ status[port[Main]] = "broken" /\ GoTo(Main, "spin")
        /\ serial_port' = None /\ status' = [status EXCEPT ![port[Main]] = "closed"]
  /\ UNCHANGED <<port, reader_stop, reader_thread, recent, plugged>>

\* Mutant: the event set for the last reader is not cleared for the next one.
StopNotCleared ==
  /\ At(Main, "clear stop")
  /\ GoTo(Main, "create")
  /\ UNCHANGED <<port, attributes, recent, device>>

ClearStop ==
  /\ At(Main, "clear stop")
  /\ reader_stop' = FALSE
  /\ GoTo(Main, "create")
  /\ UNCHANGED <<port, serial_port, reader_thread, recent, device>>

CreateThread ==
  /\ At(Main, "create")
  /\ reader_thread' = port[Main]
  /\ GoTo(Main, "start")
  /\ UNCHANGED <<port, serial_port, reader_stop, recent, device>>

\* A reader that ends late has set reader_thread to None: the AttributeError
\* takes main to its finally clause.
StartThread ==
  /\ At(Main, "start")
  /\ \/ reader_thread = None /\ GoTo(Main, "set stop")
     \/ /\ reader_thread # None
        /\ pc' = [pc EXCEPT ![Main] = "spin", ![reader_thread] = "loop"]
  /\ UNCHANGED <<port, attributes, recent, device>>

-----------------------------------------------------------------------------
\* The end of spin.
Interrupted ==
  /\ At(Main, "spin")
  /\ GoTo(Main, "set stop")
  /\ UNCHANGED <<port, attributes, recent, device>>

-----------------------------------------------------------------------------
(* close_serial, called by a reader or by main in its finally clause. *)

\* Where close_serial, or an exception in it, leaves thread t.
Ends(t) == GoTo(t, IF t = Main THEN "exited" ELSE "done")

SetStop(t) ==
  /\ At(t, "set stop")
  /\ reader_stop' = TRUE
  /\ GoTo(t, "test port")
  /\ UNCHANGED <<port, serial_port, reader_thread, recent, device>>

\* Mutant: the attribute is set to None before the port is closed.
ForgetsFirst(t) ==
  /\ At(t, "test port")
  /\ serial_port' = None
  /\ GoTo(t, "close port")
  /\ UNCHANGED <<port, reader_stop, reader_thread, recent, device>>

TestPort(t) ==
  /\ At(t, "test port")
  /\ GoTo(t, IF serial_port = None THEN "forget port" ELSE "close port")
  /\ UNCHANGED <<port, attributes, recent, device>>

ClosePort(t) ==
  /\ At(t, "close port")
  /\ \/ serial_port = None /\ Ends(t) /\ UNCHANGED status
     \/ /\ serial_port # None /\ GoTo(t, "forget port")
        /\ status' = [status EXCEPT ![serial_port] = "closed"]
  /\ UNCHANGED <<port, attributes, recent, plugged>>

\* Mutant: the port is closed and the attribute keeps it.
PortKept(t) ==
  /\ At(t, "forget port")
  /\ GoTo(t, "test thread")
  /\ UNCHANGED <<port, attributes, recent, device>>

ForgetPort(t) ==
  /\ At(t, "forget port")
  /\ serial_port' = None
  /\ GoTo(t, "test thread")
  /\ UNCHANGED <<port, reader_stop, reader_thread, recent, device>>

\* The three tests read reader_thread one after the other.  If it has become None
\* since the first, the second raises AttributeError; a thread that has not been
\* started, or has ended, is not alive.
TestThread(t) ==
  /\ At(t, "test thread")
  /\ GoTo(t, IF reader_thread = None THEN "forget thread" ELSE "test alive")
  /\ UNCHANGED <<port, attributes, recent, device>>

TestAlive(t) ==
  /\ At(t, "test alive")
  /\ \/ reader_thread = None /\ Ends(t)
     \/ /\ reader_thread # None
        /\ GoTo(t, IF pc[reader_thread] = "done" THEN "forget thread" ELSE "test current")
  /\ UNCHANGED <<port, attributes, recent, device>>

TestCurrent(t) ==
  /\ At(t, "test current")
  /\ GoTo(t, IF t # Main /\ reader_thread = t THEN "forget thread" ELSE "join")
  /\ UNCHANGED <<port, attributes, recent, device>>

\* join gives up after half a second, with the thread ended or not.  It raises
\* RuntimeError for the next thread, which main has created and not yet started.
NotStarted == pc[Main] = "start" /\ reader_thread = port[Main]
Join(t) ==
  /\ At(t, "join")
  /\ \/ (reader_thread = None \/ NotStarted) /\ Ends(t)
     \/ reader_thread # None /\ ~NotStarted /\ GoTo(t, "forget thread")
  /\ UNCHANGED <<port, attributes, recent, device>>

ForgetThread(t) ==
  /\ At(t, "forget thread")
  /\ reader_thread' = None
  /\ Ends(t)
  /\ UNCHANGED <<port, serial_port, reader_stop, recent, device>>

close_serial(t) ==
  \/ SetStop(t) \/ TestPort(t) \/ ClosePort(t) \/ ForgetPort(t)
  \/ TestThread(t) \/ TestAlive(t) \/ TestCurrent(t) \/ Join(t) \/ ForgetThread(t)

-----------------------------------------------------------------------------
(* read_serial_loop, of reader t. *)

TestStop(t) ==
  /\ At(t, "loop")
  /\ GoTo(t, IF reader_stop THEN "done" ELSE "fetch port")
  /\ UNCHANGED <<port, attributes, recent, device>>

FetchPort(t) ==
  /\ At(t, "fetch port")
  /\ port' = [port EXCEPT ![t] = serial_port]
  /\ GoTo(t, IF serial_port = None THEN "done" ELSE "read")
  /\ UNCHANGED <<attributes, recent, device>>

\* A byte.  The stub of the parser raises, and the reader closes the port.
ReadByte(t) ==
  /\ At(t, "read") /\ status[port[t]] = "open"
  /\ GoTo(t, "set stop")
  /\ UNCHANGED <<port, attributes, recent, device>>

\* The read returns without a byte, as one of a port that is closed may.
ReadNothing(t) ==
  /\ At(t, "read") /\ status[port[t]] # "broken"
  /\ GoTo(t, "loop")
  /\ UNCHANGED <<port, attributes, recent, device>>

\* The adapter is gone: SerialException or OSError.
ReadBroken(t) ==
  /\ At(t, "read") /\ status[port[t]] = "broken"
  /\ GoTo(t, "set stop")
  /\ UNCHANGED <<port, attributes, recent, device>>

\* Another thread closed the port: one of those, or TypeError.
ReadClosed(t) ==
  /\ At(t, "read") /\ status[port[t]] = "closed"
  /\ \/ GoTo(t, "set stop")
     \/ reader_stop /\ GoTo(t, "done")
  /\ UNCHANGED <<port, attributes, recent, device>>

-----------------------------------------------------------------------------
(* The world. *)

Second == recent /\ recent' = FALSE /\ UNCHANGED <<pc, port, attributes, device>>

Unplug ==
  /\ plugged /\ plugged' = FALSE
  /\ status' = [p \in Ports |-> IF status[p] = "open" THEN "broken" ELSE status[p]]
  /\ UNCHANGED <<pc, port, attributes, recent>>

Plug == ~plugged /\ plugged' = TRUE
        /\ UNCHANGED <<pc, port, attributes, recent, status>>

opens    == poll_serial \/ AssignPort \/ ResetBuffers \/ ClearStop \/ CreateThread \/ StartThread
reads(t) == TestStop(t) \/ FetchPort(t) \/ ReadBroken(t)

Next ==
  \/ opens \/ Interrupted
  \/ \E t \in Ports \union {Main} : close_serial(t)
  \/ \E t \in Ports : reads(t) \/ ReadByte(t) \/ ReadNothing(t) \/ ReadClosed(t)
  \/ Second \/ Unplug \/ Plug

\* A thread that can go on does; the line need not send, nor a read of a port
\* that another thread closed return.
Spec ==
  /\ Init /\ [][Next]_vars
  /\ WF_vars(opens \/ close_serial(Main))
  /\ \A t \in Ports : WF_vars(reads(t) \/ close_serial(t))
  /\ WF_vars(Second)

-----------------------------------------------------------------------------
(* Properties. *)

Alive == pc[Main] # "exited"

\* Two ports on one adapter would share its bytes between two readers: however
\* late a reader is with its closing, the next port is opened after it closed.
OnePortAtATime == Cardinality({p \in Ports : status[p] # "closed"}) <= 1

\* poll_serial opens a port only when there is none, so one without a reader
\* would leave the bridge deaf for good.
OpenPortHasAReader ==
  pc[Main] = "spin" /\ serial_port # None =>
    pc[serial_port] # "done" /\ (pc[serial_port] = "loop" => ~reader_stop)

\* A reader that is late does not close the port of its successor.
ReadersCloseTheirOwnPort ==
  [][\A t, p \in Ports : ClosePort(t) /\ status'[p] # status[p] => p = port[t]]_vars

\* After any error, and as long as the adapter stays, the bridge has an open port
\* again; or it has ended.
BridgeReopens ==
  <>[]plugged => []<>(Alive => serial_port # None /\ status[serial_port] = "open")
=============================================================================
