------------------------------ MODULE PoolLocks ------------------------------
(***************************************************************************)
(* The two locks a message is sent under: m_outputPoolLock of the pool     *)
(* (source/outputmessage.cpp) and m_connectionLock of a connection         *)
(* (source/connection.cpp).  The dispatcher thread holds the first through *)
(* all of sendAll and takes the second for every message; the service      *)
(* thread holds the second while a packet is parsed, and takes the first   *)
(* when the parser answers by itself.                                      *)
(*                                                                         *)
(* Abstractions.  The service thread gives the pool's lock back within one *)
(* step, so only the dispatcher is seen to hold it.  Every message is old  *)
(* enough to be sent and none so old that it is dropped.  Connections stay *)
(* open; see Connection for the rest of their life.                        *)
(***************************************************************************)
CONSTANTS
  Connections,
  Answering,    \* of cast viewers and account managers (ProtocolGame): the parser
                \* itself answers, into the output buffer
  Admins,       \* (ProtocolAdmin): it answers with messages of their own, and no
                \* task has output for them
  NoConnection

ASSUME PoolLocksAssumption ==
  /\ Answering \subseteq Connections \ Admins
  /\ Admins \subseteq Connections
  /\ NoConnection \notin Connections

VARIABLES
  m_outputPoolLock,   \* whether the dispatcher is in sendAll
  parsing,            \* the connection the service thread has locked
  doing,              \* what the service thread is doing, see LocksTypeOK
  ran,                \* whether the dispatcher has run a task since the last sendAll
  toSend,             \* messages sendAll has still to send
  m_autoSend,
  m_addQueue,
  m_outputBuffer,     \* connections whose protocol has a message to append to
  m_pendingWrite      \* connections that write

lists == <<m_autoSend, m_addQueue, m_outputBuffer, m_pendingWrite>>
dispatcher == <<m_outputPoolLock, ran, toSend>>
service == <<parsing, doing>>
locksVars == <<dispatcher, service, lists>>

\* The message the output of c is collected in, and one sent by itself.
Buffer(c) == [to |-> c, collects |-> TRUE]
Single(c) == [to |-> c, collects |-> FALSE]
Messages == [to : Connections, collects : BOOLEAN]

LocksInit ==
  /\ m_outputPoolLock = FALSE
  /\ parsing = NoConnection
  /\ doing = "idle"
  /\ ran = FALSE
  /\ toSend = {}
  /\ m_autoSend = {} /\ m_addQueue = {} /\ m_outputBuffer = {} /\ m_pendingWrite = {}

-----------------------------------------------------------------------------
(* The service thread.                                                     *)

onWrite(c) ==
  /\ doing = "idle"
  /\ c \in m_pendingWrite
  /\ m_pendingWrite' = m_pendingWrite \ {c}
  /\ UNCHANGED <<dispatcher, service, m_autoSend, m_addQueue, m_outputBuffer>>

\* parsePacket locks the connection,
parsePacket(c) ==
  /\ doing = "idle"
  /\ doing' = "parsing"
  /\ parsing' = c
  /\ UNCHANGED <<dispatcher, lists>>

LeaveConnection ==
  /\ doing' = "idle"
  /\ parsing' = NoConnection

\* hands the packet on as a task, or appends the answer to the buffer there is,
Parsed ==
  /\ doing = "parsing"
  /\ LeaveConnection
  /\ UNCHANGED <<dispatcher, lists>>

\* or turns to the pool for a message to collect output in (sendCancelWalk); a task
\* can turn to it too, until the answer is there, and then two messages collect,
\* which count as one here,
getOutputBuffer ==
  /\ doing = "parsing"
  /\ parsing \in Answering \ m_outputBuffer
  /\ doing' = "getOutputBuffer"
  /\ UNCHANGED <<parsing, dispatcher, lists>>

configureOutputMessage ==
  /\ doing = "getOutputBuffer"
  /\ ~m_outputPoolLock
  /\ m_autoSend' = m_autoSend \cup {Buffer(parsing)}
  /\ m_outputBuffer' = m_outputBuffer \cup {parsing}
  /\ LeaveConnection
  /\ UNCHANGED <<dispatcher, m_addQueue, m_pendingWrite>>

\* or for one to be sent at once.  BOUND: one per connection waits.
getOutputMessage ==
  /\ doing = "parsing"
  /\ parsing \in Admins
  /\ Single(parsing) \notin m_autoSend \cup m_addQueue
  /\ doing' = "getOutputMessage"
  /\ UNCHANGED <<parsing, dispatcher, lists>>

SendSingle ==
  /\ doing = "getOutputMessage"
  /\ ~m_outputPoolLock
  /\ IF parsing \in m_pendingWrite
     THEN doing' = "autoSend" /\ UNCHANGED <<parsing, m_pendingWrite>>
     ELSE LeaveConnection /\ m_pendingWrite' = m_pendingWrite \cup {parsing}
  /\ UNCHANGED <<dispatcher, m_autoSend, m_addQueue, m_outputBuffer>>

autoSend ==
  /\ doing = "autoSend"
  /\ ~m_outputPoolLock
  /\ m_addQueue' = m_addQueue \cup {Single(parsing)}
  /\ LeaveConnection
  /\ UNCHANGED <<dispatcher, m_autoSend, m_outputBuffer, m_pendingWrite>>

-----------------------------------------------------------------------------
(* The dispatcher thread.                                                  *)

\* A task, with output for the connections of C.
Task(C) ==
  /\ ~ran
  /\ ran' = TRUE
  /\ m_autoSend' = m_autoSend \cup {Buffer(c) : c \in C \ m_outputBuffer}
  /\ m_outputBuffer' = m_outputBuffer \cup C
  /\ UNCHANGED <<m_outputPoolLock, toSend, service, m_addQueue, m_pendingWrite>>

\* The messages sendAll finds to send.
Mutant_Collected == m_autoSend        \* clears m_addQueue before it is read
Collected == m_autoSend \cup m_addQueue

sendAll ==
  /\ ran /\ ~m_outputPoolLock
  /\ m_outputPoolLock' = TRUE
  /\ m_autoSend' = Collected
  /\ m_addQueue' = {}
  /\ toSend' = Collected
  /\ UNCHANGED <<ran, service, m_outputBuffer, m_pendingWrite>>

Mutant_Unlisted(m) == m_autoSend     \* iterates on without erasing
Unlisted(m) == m_autoSend \ {m}

\* Connection::send under the lock of the connection, and onSendMessage.
send(m) ==
  /\ m \in toSend
  /\ parsing # m.to
  /\ toSend' = toSend \ {m}
  /\ m_autoSend' = Unlisted(m)
  /\ IF m.to \in m_pendingWrite
     THEN /\ m_addQueue' = m_addQueue \cup {m}
          /\ UNCHANGED <<m_outputBuffer, m_pendingWrite>>
     ELSE /\ m_pendingWrite' = m_pendingWrite \cup {m.to}
          /\ m_outputBuffer' = IF m.collects THEN m_outputBuffer \ {m.to} ELSE m_outputBuffer
          /\ UNCHANGED m_addQueue
  /\ UNCHANGED <<m_outputPoolLock, ran, service>>

AllSent ==
  /\ m_outputPoolLock /\ toSend = {}
  /\ m_outputPoolLock' = FALSE
  /\ ran' = FALSE
  /\ UNCHANGED <<toSend, service, lists>>

LocksNext ==
  \/ \E c \in Connections : onWrite(c) \/ parsePacket(c)
  \/ Parsed
  \/ getOutputBuffer \/ configureOutputMessage
  \/ getOutputMessage \/ SendSingle \/ autoSend
  \/ \E C \in SUBSET (Connections \ Admins) : Task(C)
  \/ sendAll
  \/ \E m \in Messages : send(m)
  \/ AllSent

LocksSpec == LocksInit /\ [][LocksNext]_locksVars

\* The dispatcher always has a next task (the game schedules some for ever), writes
\* complete, parsers return, and a thread that waits for a lock gets it when it is
\* free again and again.
LocksFairness ==
  /\ WF_locksVars(\E C \in SUBSET (Connections \ Admins) : Task(C))
  /\ WF_locksVars(sendAll) /\ WF_locksVars(AllSent)
  /\ SF_locksVars(\E m \in Messages : send(m))
  /\ \A c \in Connections : SF_locksVars(onWrite(c))
  /\ WF_locksVars(Parsed)
  /\ SF_locksVars(configureOutputMessage \/ SendSingle \/ autoSend)
LiveLocks == LocksSpec /\ LocksFairness

-----------------------------------------------------------------------------
LocksTypeOK ==
  /\ m_outputPoolLock \in BOOLEAN /\ ran \in BOOLEAN
  /\ doing \in {"idle", "parsing", "getOutputBuffer", "getOutputMessage", "autoSend"}
  /\ parsing \in Connections \cup {NoConnection}
  /\ doing = "idle" <=> parsing = NoConnection
  /\ toSend \subseteq m_autoSend
  /\ m_autoSend \subseteq Messages /\ m_addQueue \subseteq Messages
  /\ m_outputBuffer \subseteq Connections /\ m_pendingWrite \subseteq Connections

\* What a protocol appends to is in exactly one of the two lists, although both
\* threads move messages between them: no output is left behind.
BufferIsListedOnce ==
  /\ LocksTypeOK
  /\ \A c \in m_outputBuffer : Buffer(c) \in m_autoSend \cup m_addQueue
  /\ m_autoSend \cap m_addQueue \cap {Buffer(c) : c \in Connections} = {}

\* Each thread waits for the lock the other one holds.
Crossed ==
  /\ m_outputPoolLock /\ \E m \in toSend : m.to = parsing
  /\ doing \in {"getOutputBuffer", "getOutputMessage", "autoSend"}

\* Output that is collected is written, whatever the threads do to each other's lists
\* and whichever gets a lock first, unless they come to wait for each other.
StopsOnlyCrossed ==
  \A c \in Connections : c \in m_outputBuffer ~> c \notin m_outputBuffer \/ Crossed

\* sendAll "will send only messages bigger then 1 kb or with a lifetime greater than
\* 10 ms" (outputmessage.cpp:112): output that is collected is written.
OldMessagesAreSent ==
  \A c \in Connections : c \in m_outputBuffer ~> c \notin m_outputBuffer
=============================================================================
