------------------------------ MODULE Connection ------------------------------
(***************************************************************************)
(* The life of one connection (source/connection.{h,cpp}), of its protocol *)
(* (protocol.cpp) and of the messages sent over it (outputmessage.cpp):    *)
(* who may still use the socket, the protocol and the connection once they *)
(* are being closed.                                                       *)
(*                                                                         *)
(* The service thread runs the handlers of boost::asio in the order they   *)
(* became ready; the dispatcher thread runs closeConnection, the retries   *)
(* of releaseConnection and releaseProtocol, sendAll and the tasks that    *)
(* give messages back.  m_connectionLock makes each handler one step.      *)
(*                                                                         *)
(* Abstractions.  The dispatcher's queue is a set, taken from in any       *)
(* order, and it is running.  How old a message is, is a choice.  Both     *)
(* reference counts are the number of messages in use: getOutputMessage    *)
(* increments them, internalReleaseMessage decrements them.                *)
(***************************************************************************)
EXTENDS Naturals, Sequences

CONSTANTS Msgs, NoMsg

ASSUME ConnectionAssumption == NoMsg \notin Msgs

VARIABLES
  m_connectionState,
  m_socket,           \* "open", "closed" or "deleted" (NULL)
  m_pendingRead, m_pendingWrite, m_readError, m_writeError,
  m_protocol,         \* whether the connection points at its protocol
  protocol,           \* "none" yet, "alive" or "deleted"
  m_connection,       \* whether the protocol points at the connection
  m_outputBuffer,     \* the message the protocol appends to
  msg,                \* per message, see TypeOK
  sealed,             \* messages onSendMessage has encrypted
  readOp, writeOp,    \* what the kernel is to do: "none", "header", "body"; a message
  timers,             \* the timers armed, of "read" and "write"
  ready,              \* the handlers the service thread is to run
  tasks,              \* the tasks, and retries, the dispatcher is to run
  listed,             \* in ConnectionManager::m_connections
  misused             \* something deleted has been used

status == <<m_connectionState, m_pendingRead, m_pendingWrite, m_readError, m_writeError>>
prot == <<m_protocol, protocol, m_connection, m_outputBuffer>>
kernel == <<m_socket, readOp, writeOp, timers, ready>>
vars == <<status, prot, kernel, msg, sealed, tasks, listed, misused>>

\* ConnectionManager::createConnection and accept.
Init ==
  /\ m_connectionState = "OPEN"
  /\ m_socket = "open"
  /\ m_pendingRead = 1 /\ m_pendingWrite = 0
  /\ m_readError = FALSE /\ m_writeError = FALSE
  /\ m_protocol = FALSE
  /\ protocol = "none"
  /\ m_connection = FALSE
  /\ m_outputBuffer = NoMsg
  /\ msg = [m \in Msgs |-> "free"]
  /\ sealed = {}
  /\ readOp = "header" /\ writeOp = NoMsg
  /\ timers = {"read"}
  /\ ready = <<>>
  /\ tasks = {}
  /\ listed = TRUE
  /\ misused = FALSE

Referenced == \E m \in Msgs : msg[m] # "free"

\* Whether a shared_ptr to the connection is left: weak.expired() otherwise.
Alive ==
  \/ listed
  \/ Referenced
  \/ readOp # "none" \/ \E n \in 1..Len(ready) : ready[n].op = "read"
  \/ protocol = "alive" /\ m_connection

-----------------------------------------------------------------------------
(* Parts of the handlers.                                                  *)

\* close(): closeConnection is queued unless it is, or all is over.
Closing == m_connectionState \in {"REQUEST_CLOSE", "CLOSED"}
close ==
  /\ m_connectionState' = IF Closing THEN m_connectionState ELSE "REQUEST_CLOSE"
  /\ tasks' = IF Closing THEN tasks ELSE tasks \cup {"closeConnection"}

\* closeSocket: the handlers of what the kernel had to do become ready, aborted.
Aborted ==
  (IF readOp = "none" THEN <<>> ELSE <<[op |-> "read", kind |-> readOp, ok |-> FALSE]>>)
  \o (IF writeOp = NoMsg THEN <<>> ELSE <<[op |-> "write", kind |-> writeOp, ok |-> FALSE]>>)

closeSocket(rest) ==
  IF m_socket = "open"
  THEN /\ m_socket' = "closed"
       /\ m_pendingRead' = 0 /\ m_pendingWrite' = 0
       /\ readOp' = "none" /\ writeOp' = NoMsg
       /\ ready' = rest \o Aborted
  ELSE /\ ready' = rest
       /\ UNCHANGED <<m_socket, m_pendingRead, m_pendingWrite, readOp, writeOp>>

UsesSocket == misused' = (misused \/ m_socket = "deleted")

\* Protocol::onSendMessage.
onSendMessage(m) ==
  /\ sealed' = sealed \cup {m}
  /\ m_outputBuffer' = IF m_outputBuffer = m THEN NoMsg ELSE m_outputBuffer
  /\ misused' = (misused \/ protocol = "deleted" \/ m \in sealed)

-----------------------------------------------------------------------------
(* The kernel.                                                             *)

Completes(h) == ready' = Append(ready, h)

ReadCompletes ==
  /\ readOp # "none"
  /\ \E ok \in BOOLEAN : Completes([op |-> "read", kind |-> readOp, ok |-> ok])
  /\ readOp' = "none"
  /\ UNCHANGED <<status, prot, m_socket, writeOp, timers, msg, sealed, tasks, listed, misused>>

WriteCompletes ==
  /\ writeOp # NoMsg
  /\ \E ok \in BOOLEAN : Completes([op |-> "write", kind |-> writeOp, ok |-> ok])
  /\ writeOp' = NoMsg
  /\ UNCHANGED <<status, prot, m_socket, readOp, timers, msg, sealed, tasks, listed, misused>>

TimerExpires(t) ==
  /\ t \in timers
  /\ timers' = timers \ {t}
  /\ Completes([op |-> "timer", kind |-> t, ok |-> TRUE])
  /\ UNCHANGED <<status, prot, m_socket, readOp, writeOp, msg, sealed, tasks, listed, misused>>

-----------------------------------------------------------------------------
(* The service thread.                                                     *)

Running(op) == ready # <<>> /\ Head(ready).op = op

\* parseHeader and parsePacket up to their early return: an error, a bad size, or
\* a connection being closed.
ReadFails ==
  /\ Running("read")
  /\ ~Head(ready).ok \/ m_connectionState # "OPEN" \/ m_readError
  /\ ready' = Tail(ready)
  /\ timers' = timers \ {"read"}
  /\ m_readError' = (m_readError \/ ~Head(ready).ok)
  /\ close
  /\ UNCHANGED <<m_pendingRead, m_pendingWrite, m_writeError, prot, m_socket, readOp, writeOp,
                 msg, sealed, listed, misused>>

Received ==
  /\ Running("read")
  /\ Head(ready).ok /\ m_connectionState = "OPEN" /\ ~m_readError
  /\ ready' = Tail(ready)

\* Too many packets, or a first one of no known protocol.
ReadRefused ==
  /\ Received
  /\ Head(ready).kind = "header" \/ protocol = "none"
  /\ timers' = timers \ {"read"}
  /\ close
  /\ m_pendingRead' = IF Head(ready).kind = "header" THEN m_pendingRead ELSE m_pendingRead - 1
  /\ UNCHANGED <<m_pendingWrite, m_readError, m_writeError, prot, m_socket, readOp, writeOp,
                 msg, sealed, listed, misused>>

\* One read is over and the next begins.
NextRead == (m_pendingRead - 1) + 1

parseHeader ==
  /\ Received
  /\ Head(ready).kind = "header"
  /\ readOp' = "body"
  /\ m_pendingRead' = NextRead
  /\ timers' = timers \cup {"read"}
  /\ UNCHANGED <<m_connectionState, m_pendingWrite, m_readError, m_writeError, prot, m_socket, writeOp, msg, sealed, tasks, listed, misused>>

\* What the protocol does of the packet, sending and closing, are steps of their own.
parsePacket ==
  /\ Received
  /\ Head(ready).kind = "body"
  /\ protocol' = IF m_protocol THEN protocol ELSE "alive"
  /\ m_protocol' = TRUE
  /\ m_connection' = IF m_protocol THEN m_connection ELSE TRUE
  /\ misused' = (misused \/ protocol = "deleted")
  /\ readOp' = "header"
  /\ m_pendingRead' = NextRead
  /\ timers' = timers \cup {"read"}
  /\ UNCHANGED <<m_connectionState, m_pendingWrite, m_readError, m_writeError, m_outputBuffer, m_socket, writeOp, msg, sealed, tasks, listed>>

Mutant_MustClose(failed) == failed
MustClose(failed) == m_connectionState # "OPEN" \/ failed

onWrite ==
  LET m == Head(ready).kind
      failed == m_writeError \/ ~Head(ready).ok
  IN  /\ Running("write")
      /\ timers' = timers \ {"write"}
      /\ msg' = [msg EXCEPT ![m] = "releasing"]
      /\ m_writeError' = failed
      /\ IF MustClose(failed)
         THEN closeSocket(Tail(ready)) /\ close /\ UsesSocket
         ELSE /\ m_pendingWrite' = m_pendingWrite - 1
              /\ ready' = Tail(ready)
              /\ UNCHANGED <<m_connectionState, m_socket, m_pendingRead, readOp, writeOp,
                             tasks, misused>>
      /\ UNCHANGED <<m_readError, prot, sealed, listed>>

\* handleReadTimeout and handleWriteTimeout, through a weak_ptr.
onTimeout ==
  /\ Running("timer")
  /\ IF Alive /\ (IF Head(ready).kind = "read" THEN m_pendingRead > 0 \/ m_readError
                                               ELSE m_pendingWrite > 0 \/ m_writeError)
     THEN closeSocket(Tail(ready)) /\ close /\ UsesSocket
     ELSE /\ ready' = Tail(ready)
          /\ UNCHANGED <<m_connectionState, m_socket, m_pendingRead, m_pendingWrite,
                         readOp, writeOp, tasks, misused>>
  /\ UNCHANGED <<m_readError, m_writeError, prot, timers, msg, sealed, listed>>

onStop ==
  /\ Running("stop")
  /\ ready' = Tail(ready)
  /\ timers' = {}
  /\ m_socket' = "deleted"
  /\ listed' = FALSE
  /\ misused' = (misused \/ ~listed)
  /\ UNCHANGED <<status, prot, readOp, writeOp, msg, sealed, tasks>>

-----------------------------------------------------------------------------
(* Sending.                                                                *)

\* OutputMessagePool::getOutputMessage for the buffer a protocol appends to.
getOutputBuffer(m) ==
  /\ protocol = "alive" /\ m_connection
  /\ m_outputBuffer = NoMsg
  /\ msg[m] = "free"
  /\ msg' = [msg EXCEPT ![m] = "auto"]
  /\ m_outputBuffer' = m
  /\ UNCHANGED <<status, m_protocol, protocol, m_connection, kernel, sealed, tasks, listed, misused>>

\* Connection::send.  A message that cannot be sent is sealed and given back.
Sendable == m_connectionState = "OPEN" /\ ~m_writeError

Mutant_Writable == TRUE               \* two writes at a time
Writable == m_pendingWrite = 0

send(m) ==
  \/ /\ ~Sendable
     /\ onSendMessage(m)
     /\ msg' = [msg EXCEPT ![m] = "releasing"]
     /\ UNCHANGED <<m_pendingWrite, writeOp, timers>>
  \/ /\ Sendable /\ Writable
     /\ onSendMessage(m)
     /\ msg' = [msg EXCEPT ![m] = "writing"]
     /\ m_pendingWrite' = m_pendingWrite + 1
     /\ writeOp' = m
     /\ timers' = timers \cup {"write"}
  \/ /\ Sendable /\ ~Writable
     /\ msg' = [msg EXCEPT ![m] = "queued"]
     /\ UNCHANGED <<m_outputBuffer, sealed, misused, m_pendingWrite, writeOp, timers>>

Sent(m) ==
  /\ send(m)
  /\ UNCHANGED <<m_connectionState, m_pendingRead, m_readError, m_writeError,
                 m_protocol, protocol, m_connection, m_socket, readOp, ready, tasks, listed>>

\* A message of its own, sent at once (OutputMessagePool::send).
SendSingle(m) ==
  /\ protocol = "alive" /\ m_connection
  /\ msg[m] = "free"
  /\ Sent(m)

\* sendAll: those of m_addQueue join m_autoSend, or are dropped when 10 s old,
Requeue(m) ==
  /\ msg[m] = "queued"
  /\ msg' = [msg EXCEPT ![m] = "auto"]
  /\ UNCHANGED <<status, prot, kernel, sealed, tasks, listed, misused>>

Mutant_Drop(m) ==                     \* onSendMessage is not told
  /\ msg[m] = "queued"
  /\ msg' = [msg EXCEPT ![m] = "releasing"]
  /\ UNCHANGED <<status, prot, kernel, sealed, tasks, listed, misused>>

Drop(m) ==
  /\ msg[m] = "queued"
  /\ onSendMessage(m)
  /\ msg' = [msg EXCEPT ![m] = "releasing"]
  /\ UNCHANGED <<status, m_protocol, protocol, m_connection, kernel, tasks, listed>>

\* and those of m_autoSend are sent.
SendAuto(m) ==
  /\ msg[m] = "auto"
  /\ Sent(m)

internalReleaseMessage(m) ==
  /\ msg[m] = "releasing"
  /\ msg' = [msg EXCEPT ![m] = "free"]
  /\ sealed' = sealed \ {m}
  /\ misused' = (misused \/ protocol = "deleted")
  /\ UNCHANGED <<status, prot, kernel, tasks, listed>>

-----------------------------------------------------------------------------
(* Closing.                                                                *)

\* disconnect, logout: any thread that has the protocol.
Disconnect ==
  /\ protocol = "alive" /\ m_connection
  /\ close
  /\ UNCHANGED <<m_pendingRead, m_pendingWrite, m_readError, m_writeError, prot, kernel,
                 msg, sealed, listed, misused>>

Mutant_InUse == FALSE                 \* deletes at once
InUse == Referenced

\* The task of close().
closeConnection ==
  LET over == m_pendingWrite = 0 \/ m_writeError
      retries == {t \in {"releaseConnection", "releaseProtocol"} :
                    InUse /\ (t = "releaseProtocol" => m_protocol)
                          /\ (t = "releaseConnection" => over)}
  IN  /\ "closeConnection" \in tasks
      /\ m_protocol' = FALSE
      /\ m_connection' = (m_connection /\ ~m_protocol)
      /\ protocol' = IF m_protocol /\ ~InUse THEN "deleted" ELSE protocol
      /\ tasks' = (tasks \ {"closeConnection"}) \cup retries
      /\ m_connectionState' = IF over THEN "CLOSED" ELSE "CLOSING"
      /\ IF over
         THEN /\ closeSocket(ready \o (IF InUse THEN <<>>
                                       ELSE <<[op |-> "stop", kind |-> "none", ok |-> TRUE]>>))
              /\ misused' = (misused \/ m_socket = "deleted" \/ ~Alive)
         ELSE /\ misused' = (misused \/ ~Alive)
              /\ UNCHANGED <<m_socket, m_pendingRead, m_pendingWrite, readOp, writeOp, ready>>
      /\ UNCHANGED <<m_readError, m_writeError, m_outputBuffer, timers, msg, sealed, listed>>

\* A retry is scheduled again while the count is not zero.
releaseProtocol ==
  /\ "releaseProtocol" \in tasks
  /\ ~InUse
  /\ tasks' = tasks \ {"releaseProtocol"}
  /\ protocol' = "deleted"
  /\ m_connection' = FALSE
  /\ misused' = (misused \/ protocol = "deleted")
  /\ UNCHANGED <<status, m_protocol, m_outputBuffer, kernel, msg, sealed, listed>>

releaseConnection ==
  /\ "releaseConnection" \in tasks
  /\ ~InUse
  /\ tasks' = tasks \ {"releaseConnection"}
  /\ Completes([op |-> "stop", kind |-> "none", ok |-> TRUE])
  /\ misused' = (misused \/ ~Alive)
  /\ UNCHANGED <<status, prot, m_socket, readOp, writeOp, timers, msg, sealed, listed>>

ServiceThread ==
  \/ ReadFails \/ ReadRefused \/ parseHeader \/ parsePacket
  \/ onWrite \/ onTimeout \/ onStop

\* The tasks that are there to be run, whatever the game does.
DispatcherThread ==
  \/ closeConnection \/ releaseProtocol \/ releaseConnection
  \/ \E m \in Msgs : internalReleaseMessage(m)

Next ==
  \/ ReadCompletes
  \/ WriteCompletes
  \/ \E t \in {"read", "write"} : TimerExpires(t)
  \/ ServiceThread
  \/ DispatcherThread
  \/ \E m \in Msgs : getOutputBuffer(m) \/ SendSingle(m)
                       \/ Requeue(m) \/ Drop(m) \/ SendAuto(m)
  \/ Disconnect

Spec == Init /\ [][Next]_vars

\* Both threads run what they have; sendAll follows every task; armed timers expire.
Fairness ==
  /\ WF_vars(ServiceThread)
  /\ WF_vars(closeConnection)
  /\ WF_vars(releaseProtocol)
  /\ WF_vars(releaseConnection)
  /\ \A t \in {"read", "write"} : WF_vars(TimerExpires(t))
  /\ \A m \in Msgs : WF_vars(internalReleaseMessage(m))
                       /\ WF_vars(Requeue(m)) /\ WF_vars(SendAuto(m))
LiveSpec == Spec /\ Fairness

-----------------------------------------------------------------------------
Handlers == [op : {"read"}, kind : {"header", "body"}, ok : BOOLEAN]
              \cup [op : {"write"}, kind : Msgs, ok : BOOLEAN]
              \cup [op : {"timer"}, kind : {"read", "write"}, ok : {TRUE}]
              \cup [op : {"stop"}, kind : {"none"}, ok : {TRUE}]

\* A message is in the pool ("free"), in m_autoSend ("auto") or m_addQueue ("queued"),
\* given to async_write ("writing"), or on its way back to the pool ("releasing").
TypeOK ==
  /\ m_connectionState \in {"OPEN", "REQUEST_CLOSE", "CLOSING", "CLOSED"}
  /\ m_socket \in {"open", "closed", "deleted"}
  /\ m_pendingRead \in 0..1 /\ m_pendingWrite \in Nat
  /\ {m_readError, m_writeError, m_protocol, m_connection, listed, misused} \subseteq BOOLEAN
  /\ protocol \in {"none", "alive", "deleted"}
  /\ m_outputBuffer \in Msgs \cup {NoMsg}
  /\ msg \in [Msgs -> {"free", "auto", "queued", "writing", "releasing"}]
  /\ sealed \subseteq Msgs
  /\ readOp \in {"none", "header", "body"} /\ writeOp \in Msgs \cup {NoMsg}
  /\ timers \subseteq {"read", "write"}
  /\ ready \in Seq(Handlers)
  /\ tasks \subseteq {"closeConnection", "releaseConnection", "releaseProtocol"}

\* No thread uses the socket, the protocol or the connection after it was deleted,
\* nor deletes one of them twice, in whatever order handlers, timeouts and retries
\* come.
NothingMisused == ~misused

\* Bytes of two messages are never written at a time.
OneWriteAtATime ==
  \A m, n \in Msgs : msg[m] = "writing" /\ msg[n] = "writing" => m = n

\* A message is encrypted before it is written, and a protocol never appends to one
\* that has been: its buffer is waiting in one of the queues.
BufferIsOpen ==
  /\ m_outputBuffer # NoMsg =>
       m_outputBuffer \notin sealed /\ msg[m_outputBuffer] \in {"auto", "queued"}
  /\ \A m \in Msgs : msg[m] = "writing" => m \in sealed

\* Together: under every order of handlers, timeouts and calls from the dispatcher a
\* connection is used only while it is there, and writes whole messages, one by one.
ConnectionSound == TypeOK /\ NothingMisused /\ OneWriteAtATime /\ BufferIsOpen

\* A connection that starts to close is closed to the end: socket and protocol are
\* deleted and every message is back in the pool.
ClosesCompletely ==
  m_connectionState # "OPEN" ~>
    m_socket = "deleted" /\ protocol \in {"none", "deleted"} /\ ~Referenced
=============================================================================
