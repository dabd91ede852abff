--------------------------- MODULE Connection_proofs ---------------------------
(* Theorems about what serves one client: its connection, for any set of   *)
(* messages; its windows, for any players, places and containers.          *)
EXTENDS Connection, Windows, Lists_proofs

-----------------------------------------------------------------------------
(* The inductive invariant.                                                *)

Places == 1..Len(ready)
ReadAt(i) == ready[i].op = "read"
WriteAt(i) == ready[i].op = "write"
StopAt(i) == ready[i].op = "stop"

(* The connection and its protocol point at each other or not at all; while *)
(* a message is in use the protocol is there, and what is to delete it is   *)
(* the only one to do so.                                                   *)
ProtocolSteady ==
  /\ m_connection <=> m_protocol
  /\ m_protocol => protocol = "alive"
  /\ m_connectionState = "OPEN" => (protocol = "alive" => m_protocol) /\ protocol # "deleted"
  /\ m_connectionState \in {"CLOSING", "CLOSED"} => ~ m_protocol
  /\ "releaseProtocol" \in tasks => protocol = "alive" /\ ~ m_protocol
  /\ \A m \in Msgs : msg[m] # "free" => protocol = "alive"

(* A message is sealed from the moment it is sent until it is given back.   *)
MessagesSteady ==
  /\ \A m \in Msgs : m \in sealed <=> msg[m] \in {"writing", "releasing"}
  /\ m_outputBuffer # NoMsg => msg[m_outputBuffer] \in {"auto", "queued"}

(* One message at most is with the kernel or in a handler, and while the    *)
(* socket is open m_pendingWrite knows of it.                               *)
WritesSteady ==
  /\ OneWriteAtATime
  /\ \A m \in Msgs : m_socket = "open" /\ msg[m] = "writing" => m_pendingWrite > 0
  /\ \A i \in Places : WriteAt(i) => msg[ready[i].kind] = "writing" /\ writeOp = NoMsg
  /\ \A i, j \in Places : WriteAt(i) /\ WriteAt(j) => i = j
  /\ writeOp # NoMsg => msg[writeOp] = "writing"

SocketSteady ==
  /\ m_connectionState = "OPEN" => m_socket = "open" /\ m_pendingRead = 1
  /\ m_connectionState = "CLOSED" => m_socket # "open"
  /\ "closeConnection" \in tasks => m_connectionState = "REQUEST_CLOSE"
  /\ m_socket # "open" => readOp = "none" /\ writeOp = NoMsg
  /\ listed <=> m_socket # "deleted"

(* onStop comes once, when no message is in use any more; of the handlers   *)
(* that could keep the connection alive only a read that was aborted with   *)
(* it comes after it, and at once.                                          *)
StopsOnce ==
  /\ "releaseConnection" \in tasks =>
       m_connectionState = "CLOSED" /\ listed /\ \A i \in Places : ~ StopAt(i)
  /\ \A i \in Places : StopAt(i) =>
       /\ m_connectionState = "CLOSED" /\ listed
       /\ \A m \in Msgs : msg[m] = "free"
       /\ \A j \in Places : StopAt(j) => j = i
       /\ \A j \in Places : ReadAt(j) => j < i \/ j = i + 1
  /\ ~ listed =>
       /\ m_connectionState = "CLOSED"
       /\ \A m \in Msgs : msg[m] = "free"
       /\ \A i \in Places : ~ StopAt(i) /\ (ReadAt(i) => i = 1)

(* TypeOK, one conjunct per flag.                                           *)
Typed ==
  /\ m_connectionState \in {"OPEN", "REQUEST_CLOSE", "CLOSING", "CLOSED"}
  /\ m_socket \in {"open", "closed", "deleted"}
  /\ m_pendingRead \in 0..1 /\ m_pendingWrite \in Nat
  /\ m_readError \in BOOLEAN /\ m_writeError \in BOOLEAN
  /\ m_protocol \in BOOLEAN /\ m_connection \in BOOLEAN
  /\ listed \in BOOLEAN /\ misused \in BOOLEAN
  /\ protocol \in {"none", "alive", "deleted"}
  /\ m_outputBuffer \in Msgs \cup {NoMsg}
  /\ msg \in [Msgs -> {"free", "auto", "queued", "writing", "releasing"}]
  /\ sealed \subseteq Msgs
  /\ readOp \in {"none", "header", "body"} /\ writeOp \in Msgs \cup {NoMsg}
  /\ timers \subseteq {"read", "write"}
  /\ ready \in Seq(Handlers)
  /\ tasks \subseteq {"closeConnection", "releaseConnection", "releaseProtocol"}

Steady ==
  /\ Typed /\ NothingMisused
  /\ ProtocolSteady /\ MessagesSteady /\ WritesSteady /\ SocketSteady /\ StopsOnce

-----------------------------------------------------------------------------
(* What the parts of the handlers do.                                      *)

LEMMA Flags == TypeOK <=> Typed
BY Zenon DEF TypeOK, Typed

LEMMA HandlerFacts ==
  /\ \A h \in Handlers :
       /\ h.op \in {"read", "write", "timer", "stop"} /\ h.ok \in BOOLEAN
       /\ h.op = "read" => h.kind \in {"header", "body"}
       /\ h.op = "write" => h.kind \in Msgs
       /\ h.op = "timer" => h.kind \in {"read", "write"}
  /\ \A k \in {"header", "body"}, b \in BOOLEAN : [op |-> "read", kind |-> k, ok |-> b] \in Handlers
  /\ \A m \in Msgs, b \in BOOLEAN : [op |-> "write", kind |-> m, ok |-> b] \in Handlers
  /\ \A t \in {"read", "write"} : [op |-> "timer", kind |-> t, ok |-> TRUE] \in Handlers
  /\ [op |-> "stop", kind |-> "none", ok |-> TRUE] \in Handlers
<1>1. \A h \in Handlers :
       /\ h.op \in {"read", "write", "timer", "stop"} /\ h.ok \in BOOLEAN
       /\ h.op = "read" => h.kind \in {"header", "body"}
       /\ h.op = "write" => h.kind \in Msgs
       /\ h.op = "timer" => h.kind \in {"read", "write"}
  BY DEF Handlers
<1>2. \A k \in {"header", "body"}, b \in BOOLEAN : [op |-> "read", kind |-> k, ok |-> b] \in Handlers
  BY Zenon DEF Handlers
<1>3. \A m \in Msgs, b \in BOOLEAN : [op |-> "write", kind |-> m, ok |-> b] \in Handlers
  BY Zenon DEF Handlers
<1>4. \A t \in {"read", "write"} : [op |-> "timer", kind |-> t, ok |-> TRUE] \in Handlers
  BY Zenon DEF Handlers
<1>5. [op |-> "stop", kind |-> "none", ok |-> TRUE] \in Handlers
  BY Zenon DEF Handlers
<1> QED BY <1>1, <1>2, <1>3, <1>4, <1>5

LEMMA TailFacts ==
  ASSUME NEW s \in Seq(Handlers), s # <<>>
  PROVE  /\ Tail(s) \in Seq(Handlers) /\ Len(s) \in Nat \ {0} /\ Len(Tail(s)) = Len(s) - 1
         /\ Head(s) = s[1] /\ s[1] \in Handlers
         /\ \A i \in 1..Len(Tail(s)) : i + 1 \in 1..Len(s) /\ Tail(s)[i] = s[i + 1]
<1>1. Len(s) \in Nat \ {0}
  BY EmptySeq
<1>2. /\ Tail(s) \in Seq(Handlers) /\ Len(Tail(s)) = Len(s) - 1
      /\ \A i \in 1..Len(Tail(s)) : Tail(s)[i] = s[i + 1]
  BY HeadTailProperties
<1>3. Head(s) = s[1] /\ s[1] \in Handlers
  BY <1>1, ElementOfSeq
<1> QED BY <1>1, <1>2, <1>3

LEMMA AppendFacts ==
  ASSUME NEW s \in Seq(Handlers), NEW h \in Handlers
  PROVE  /\ Append(s, h) \in Seq(Handlers) /\ Len(s) \in Nat /\ Len(Append(s, h)) = Len(s) + 1
         /\ \A i \in 1..Len(s) : Append(s, h)[i] = s[i]
         /\ Append(s, h)[Len(s) + 1] = h
         /\ s \o <<h>> = Append(s, h)
BY AppendProperties, LenProperties, AppendIsConcat

LEMMA AbortedFacts ==
  ASSUME Typed
  PROVE  /\ Aborted \in Seq(Handlers)
         /\ \A i \in 1..Len(Aborted) :
              \/ Aborted[i].op = "read" /\ i = 1 /\ readOp # "none"
              \/ Aborted[i].op = "write" /\ Aborted[i].kind = writeOp /\ writeOp # NoMsg
         /\ \A i, j \in 1..Len(Aborted) :
              Aborted[i].op = "write" /\ Aborted[j].op = "write" => i = j
<1> DEFINE r == [op |-> "read", kind |-> readOp, ok |-> FALSE]
           w == [op |-> "write", kind |-> writeOp, ok |-> FALSE]
<1>1. /\ readOp # "none" => r \in Handlers
      /\ writeOp # NoMsg => w \in Handlers
  BY HandlerFacts DEF Typed
<1>2. r.op = "read" /\ w.op = "write" /\ w.kind = writeOp
  OBVIOUS
<1>3. Aborted = (IF readOp = "none" THEN <<>> ELSE <<r>>) \o (IF writeOp = NoMsg THEN <<>> ELSE <<w>>)
  BY DEF Aborted
<1> HIDE DEF r, w
<1>4. CASE readOp = "none" /\ writeOp = NoMsg
  <2>1. Aborted = <<>> \o <<>>
    BY <1>3, <1>4
  <2>2. <<>> \in Seq(Handlers) /\ Len(<<>>) = 0
    BY EmptySeq
  <2>3. Aborted \in Seq(Handlers) /\ Len(Aborted) = 0
    BY <2>1, <2>2, ConcatProperties
  <2> QED BY <2>3
<1>5. CASE readOp # "none" /\ writeOp = NoMsg
  <2>1. Aborted = <<r>> \o <<>>
    BY <1>3, <1>5
  <2>2. <<r>> \in Seq(Handlers) /\ Len(<<r>>) = 1 /\ <<r>>[1] = r
    BY <1>1, <1>5
  <2>3. Aborted = <<r>>
    BY <2>1, <2>2, ConcatEmptySeq
  <2> QED BY <1>2, <1>5, <2>2, <2>3
<1>6. CASE readOp = "none" /\ writeOp # NoMsg
  <2>1. Aborted = <<>> \o <<w>>
    BY <1>3, <1>6
  <2>2. <<w>> \in Seq(Handlers) /\ Len(<<w>>) = 1 /\ <<w>>[1] = w
    BY <1>1, <1>6
  <2>3. Aborted = <<w>>
    BY <2>1, <2>2, ConcatEmptySeq
  <2> QED BY <1>2, <1>6, <2>2, <2>3
<1>7. CASE readOp # "none" /\ writeOp # NoMsg
  <2>1. Aborted = <<r>> \o <<w>>
    BY <1>3, <1>7
  <2>2. <<r>> \in Seq(Handlers) /\ Len(<<r>>) = 1 /\ <<r>>[1] = r
    BY <1>1, <1>7
  <2>3. <<w>> \in Seq(Handlers) /\ Len(<<w>>) = 1 /\ <<w>>[1] = w
    BY <1>1, <1>7
  <2>4. /\ <<r>> \o <<w>> \in Seq(Handlers) /\ Len(<<r>> \o <<w>>) = 2
        /\ (<<r>> \o <<w>>)[1] = r /\ (<<r>> \o <<w>>)[2] = w
    BY <2>2, <2>3, ConcatProperties
  <2>5. Aborted \in Seq(Handlers) /\ Len(Aborted) = 2 /\ Aborted[1] = r /\ Aborted[2] = w
    BY <2>1, <2>4
  <2>6. \A i \in 1..2 : i = 1 \/ i = 2
    OBVIOUS
  <2>7. r.op # "write"
    BY <1>2
  <2> QED BY <1>2, <1>7, <2>5, <2>6, <2>7
<1> QED BY <1>4, <1>5, <1>6, <1>7

(* closeSocket leaves the handlers it finds and adds, to an open socket's,  *)
(* those of what the kernel was at.                                         *)
LEMMA CloseSocketFacts ==
  ASSUME Typed, SocketSteady, NEW rest \in Seq(Handlers), closeSocket(rest)
  PROVE  /\ ready' \in Seq(Handlers) /\ Len(rest) \in Nat /\ Len(ready') \in Nat
         /\ Len(ready') >= Len(rest)
         /\ \A i \in 1..Len(rest) : ready'[i] = rest[i]
         /\ \A i \in 1..Len(ready') : i > Len(rest) =>
              /\ m_socket = "open"
              /\ \/ ready'[i].op = "read" /\ i = Len(rest) + 1
                 \/ ready'[i].op = "write" /\ ready'[i].kind = writeOp /\ writeOp # NoMsg
         /\ \A i, j \in 1..Len(ready') :
              i > Len(rest) /\ j > Len(rest) /\ ready'[i].op = "write" /\ ready'[j].op = "write" => i = j
         /\ m_socket' \in {"closed", "deleted"} /\ (m_socket' = "deleted" <=> m_socket = "deleted")
         /\ m_pendingRead' \in 0..1 /\ m_pendingWrite' \in Nat
         /\ readOp' = "none" /\ writeOp' = NoMsg
<1>1. Len(rest) \in Nat
  BY LenProperties
<1>2. CASE m_socket = "open"
  <2> DEFINE a == Aborted
  <2>1. /\ a \in Seq(Handlers)
        /\ \A i \in 1..Len(a) :
             \/ a[i].op = "read" /\ i = 1
             \/ a[i].op = "write" /\ a[i].kind = writeOp /\ writeOp # NoMsg
        /\ \A i, j \in 1..Len(a) : a[i].op = "write" /\ a[j].op = "write" => i = j
    BY AbortedFacts
  <2>2. /\ ready' = rest \o a /\ m_socket' = "closed" /\ m_pendingRead' = 0 /\ m_pendingWrite' = 0
        /\ readOp' = "none" /\ writeOp' = NoMsg
    BY <1>2 DEF closeSocket
  <2> HIDE DEF a
  <2>3. /\ ready' \in Seq(Handlers) /\ Len(ready') = Len(rest) + Len(a) /\ Len(a) \in Nat
        /\ \A i \in 1..(Len(rest) + Len(a)) : ready'[i] = IF i <= Len(rest) THEN rest[i] ELSE a[i - Len(rest)]
    BY <2>1, <2>2, ConcatProperties, LenProperties
  <2>4. ASSUME NEW i \in 1..Len(ready'), i > Len(rest)
        PROVE  i - Len(rest) \in 1..Len(a) /\ ready'[i] = a[i - Len(rest)]
    BY <1>1, <2>3, <2>4
  <2>5. \A i \in 1..Len(rest) : ready'[i] = rest[i]
    BY <1>1, <2>3
  <2>6. ASSUME NEW i \in 1..Len(ready'), i > Len(rest)
        PROVE  \/ ready'[i].op = "read" /\ i = Len(rest) + 1
               \/ ready'[i].op = "write" /\ ready'[i].kind = writeOp /\ writeOp # NoMsg
    <3>1. i - Len(rest) \in 1..Len(a) /\ ready'[i] = a[i - Len(rest)]
      BY <2>4, <2>6
    <3>2. \/ ready'[i].op = "read" /\ i - Len(rest) = 1
          \/ ready'[i].op = "write" /\ ready'[i].kind = writeOp /\ writeOp # NoMsg
      BY <2>1, <3>1
    <3> QED BY <1>1, <3>2
  <2>7. ASSUME NEW i \in 1..Len(ready'), NEW j \in 1..Len(ready'), i > Len(rest), j > Len(rest),
               ready'[i].op = "write", ready'[j].op = "write"
        PROVE  i = j
    <3>1. /\ i - Len(rest) \in 1..Len(a) /\ ready'[i] = a[i - Len(rest)]
          /\ j - Len(rest) \in 1..Len(a) /\ ready'[j] = a[j - Len(rest)]
      BY <2>4, <2>7
    <3>2. i - Len(rest) = j - Len(rest)
      BY <2>1, <2>7, <3>1
    <3> QED BY <1>1, <3>2
  <2>8. \A i \in 1..Len(ready') : i > Len(rest) =>
          /\ m_socket = "open"
          /\ \/ ready'[i].op = "read" /\ i = Len(rest) + 1
             \/ ready'[i].op = "write" /\ ready'[i].kind = writeOp /\ writeOp # NoMsg
    BY <1>2, <2>6
  <2>9. \A i, j \in 1..Len(ready') :
          i > Len(rest) /\ j > Len(rest) /\ ready'[i].op = "write" /\ ready'[j].op = "write" => i = j
    BY <2>7
  <2>10. Len(ready') >= Len(rest) /\ \A i \in 1..Len(rest) : ready'[i] = rest[i]
    BY <1>1, <2>3, <2>5
  <2>11. /\ m_socket' \in {"closed", "deleted"} /\ (m_socket' = "deleted" <=> m_socket = "deleted")
         /\ m_pendingRead' \in 0..1 /\ m_pendingWrite' \in Nat
         /\ readOp' = "none" /\ writeOp' = NoMsg
    BY <1>2, <2>2
  <2>12. Len(ready') \in Nat
    BY <1>1, <2>3
  <2> QED BY <1>1, <2>3, <2>8, <2>9, <2>10, <2>11, <2>12, Zenon
<1>3. CASE m_socket # "open"
  BY <1>1, <1>3 DEF closeSocket, SocketSteady, Typed
<1> QED BY <1>2, <1>3

-----------------------------------------------------------------------------
(* What a step does to the handlers that wait.                             *)

(* A handler taken from the queue, with the socket closed or not.           *)
LEMMA HandlerRun ==
  ASSUME Steady, ready # <<>>,
         \/ /\ ready' = Tail(ready) /\ m_socket' = m_socket /\ writeOp' = writeOp
            /\ m_pendingWrite' = m_pendingWrite \/ Running("write")
         \/ closeSocket(Tail(ready)),
         \/ ~ Running("write") /\ msg' = msg
         \/ Running("write") /\ msg' = [msg EXCEPT ![Head(ready).kind] = "releasing"],
         listed' = listed,
         m_connectionState = "CLOSED" => m_connectionState' = "CLOSED",
         "releaseConnection" \in tasks' => "releaseConnection" \in tasks
  PROVE  ready' \in Seq(Handlers) /\ WritesSteady' /\ StopsOnce'
<1> DEFINE rest == Tail(ready)
           h == Head(ready)
<1>1. /\ Typed /\ WritesSteady /\ SocketSteady /\ StopsOnce /\ ready \in Seq(Handlers)
      /\ msg \in [Msgs -> {"free", "auto", "queued", "writing", "releasing"}]
      /\ writeOp \in Msgs \cup {NoMsg}
  BY DEF Steady, Typed
<1>2. /\ rest \in Seq(Handlers) /\ Len(ready) \in Nat \ {0} /\ Len(rest) = Len(ready) - 1
      /\ h = ready[1] /\ h \in Handlers /\ 1 \in Places
      /\ \A i \in 1..Len(rest) : i + 1 \in Places /\ rest[i] = ready[i + 1]
  BY <1>1, TailFacts DEF Places
<1>3. Running("write") => h.kind \in Msgs /\ msg[h.kind] = "writing" /\ writeOp = NoMsg /\ WriteAt(1)
  BY <1>1, <1>2, HandlerFacts DEF Running, WritesSteady, WriteAt
<1> HIDE DEF rest, h
<1>4. /\ ready' \in Seq(Handlers) /\ Len(ready') \in Nat /\ Places' = 1..Len(ready')
      /\ \A i \in Places' :
           \/ i <= Len(rest) /\ i + 1 \in Places /\ ready'[i] = ready[i + 1]
           \/ /\ m_socket = "open" /\ writeOp' = NoMsg /\ i > Len(rest)
              /\ \/ ready'[i].op = "read"
                 \/ ready'[i].op = "write" /\ ready'[i].kind = writeOp /\ writeOp # NoMsg
      /\ \A i, j \in Places' :
           i > Len(rest) /\ j > Len(rest) /\ ready'[i].op = "write" /\ ready'[j].op = "write" => i = j
      /\ writeOp' \in {writeOp, NoMsg}
      /\ m_socket' = "open" => m_socket = "open" /\ (m_pendingWrite' = m_pendingWrite \/ Running("write"))
  <2>1. CASE closeSocket(rest)
    <3>1. m_socket' # "open"
      BY <1>1, <1>2, <2>1, CloseSocketFacts
    <3>2. /\ ready' \in Seq(Handlers) /\ Len(ready') \in Nat
          /\ \A i \in 1..Len(rest) : ready'[i] = rest[i]
          /\ \A i \in 1..Len(ready') : i > Len(rest) =>
               /\ m_socket = "open"
               /\ \/ ready'[i].op = "read"
                  \/ ready'[i].op = "write" /\ ready'[i].kind = writeOp /\ writeOp # NoMsg
          /\ \A i, j \in 1..Len(ready') :
               i > Len(rest) /\ j > Len(rest) /\ ready'[i].op = "write" /\ ready'[j].op = "write" => i = j
          /\ writeOp' = NoMsg
      BY <1>1, <1>2, <2>1, CloseSocketFacts
    <3>3. ASSUME NEW i \in 1..Len(ready'), i <= Len(rest)
          PROVE  i + 1 \in Places /\ ready'[i] = ready[i + 1]
      <4>1. i \in 1..Len(rest)
        BY <1>2, <3>3
      <4> QED BY <1>2, <3>2, <4>1
    <3>4. ASSUME NEW i \in 1..Len(ready') PROVE i <= Len(rest) \/ i > Len(rest)
      BY <1>2
    <3> QED BY <3>1, <3>2, <3>3, <3>4 DEF Places
  <2>2. CASE /\ ready' = rest /\ m_socket' = m_socket /\ writeOp' = writeOp
             /\ m_pendingWrite' = m_pendingWrite \/ Running("write")
    <3>1. ready' \in Seq(Handlers) /\ Len(ready') = Len(rest) /\ Len(rest) \in Nat
      BY <1>2, <2>2
    <3>2. \A i \in Places' : i <= Len(rest) /\ i + 1 \in Places /\ ready'[i] = ready[i + 1]
      BY <1>2, <2>2, <3>1 DEF Places
    <3> QED BY <2>2, <3>1, <3>2 DEF Places
  <2> QED BY <2>1, <2>2 DEF rest
<1>5. \A m \in Msgs : /\ msg'[m] = "writing" => msg[m] = "writing" /\ ~ Running("write")
                      /\ msg[m] = "free" => msg'[m] = "free"
                      /\ ~ Running("write") => msg'[m] = msg[m]
  BY <1>1, <1>3 DEF WritesSteady, OneWriteAtATime, h
<1>6. ASSUME NEW i \in Places', WriteAt(i)'
      PROVE  /\ ~ Running("write") /\ msg'[ready'[i].kind] = "writing" /\ writeOp' = NoMsg
             /\ ready'[i].kind \in Msgs
             /\ i <= Len(rest) => i + 1 \in Places /\ WriteAt(i + 1)
             /\ i > Len(rest) => writeOp # NoMsg
  <2>1. i \in Int
    BY <1>4
  <2>2. CASE i <= Len(rest) /\ i + 1 \in Places /\ ready'[i] = ready[i + 1]
    <3>1. WriteAt(i + 1)
      BY <1>6, <2>2 DEF WriteAt
    <3>2. msg[ready'[i].kind] = "writing" /\ writeOp = NoMsg /\ ready'[i].kind \in Msgs
      <4>1. ready[i + 1] \in Handlers
        BY <1>1, <2>2, ElementOfSeq DEF Places
      <4> QED BY <1>1, <2>2, <3>1, <4>1, HandlerFacts DEF WritesSteady, WriteAt
    <3>3. ~ Running("write")
      BY <1>1, <1>2, <1>3, <1>4, <2>1, <2>2, <3>1 DEF WritesSteady
    <3> QED BY <1>2, <1>4, <1>5, <2>1, <2>2, <3>1, <3>2, <3>3
  <2>3. CASE /\ m_socket = "open" /\ writeOp' = NoMsg /\ i > Len(rest)
             /\ ready'[i].op = "write" /\ ready'[i].kind = writeOp /\ writeOp # NoMsg
    <3>1. msg[writeOp] = "writing" /\ writeOp \in Msgs
      BY <1>1, <2>3 DEF WritesSteady
    <3>2. ~ Running("write")
      BY <1>3, <2>3
    <3> QED BY <1>2, <1>5, <2>1, <2>3, <3>1, <3>2
  <2> QED BY <1>4, <1>6, <2>2, <2>3 DEF WriteAt
<1>7. WritesSteady'
  <2>1. OneWriteAtATime'
    BY <1>1, <1>5 DEF WritesSteady, OneWriteAtATime
  <2>2. ASSUME NEW m \in Msgs, m_socket' = "open", msg'[m] = "writing" PROVE m_pendingWrite' > 0
    BY <1>1, <1>4, <1>5, <2>2 DEF WritesSteady
  <2>3. ASSUME NEW i \in Places', NEW j \in Places', WriteAt(i)', WriteAt(j)' PROVE i = j
    <3>1. i \in Int /\ j \in Int /\ Len(rest) \in Int
      BY <1>2, <1>4
    <3>2. CASE i > Len(rest) /\ j > Len(rest)
      BY <1>4, <2>3, <3>2 DEF WriteAt
    <3>3. CASE i <= Len(rest) /\ j <= Len(rest)
      <4>1. i + 1 = j + 1
        BY <1>1, <1>6, <2>3, <3>3 DEF WritesSteady
      <4> QED BY <3>1, <4>1
    <3>4. ASSUME NEW a \in Places', NEW b \in Places', WriteAt(a)', WriteAt(b)', a <= Len(rest), b > Len(rest)
          PROVE  FALSE
      BY <1>1, <1>6, <3>4 DEF WritesSteady
    <3> QED BY <2>3, <3>1, <3>2, <3>3, <3>4
  <2>4. writeOp' # NoMsg => msg'[writeOp'] = "writing"
    <3>1. writeOp' # NoMsg => writeOp' = writeOp /\ ~ Running("write") /\ writeOp \in Msgs
      BY <1>1, <1>3, <1>4
    <3> QED BY <1>1, <1>5, <3>1 DEF WritesSteady
  <2> QED BY <1>6, <2>1, <2>2, <2>3, <2>4 DEF WritesSteady
<1>8. ASSUME NEW i \in Places', StopAt(i)'
      PROVE  i + 1 \in Places /\ StopAt(i + 1) /\ i <= Len(rest)
  BY <1>4, <1>8 DEF StopAt
<1>9. ASSUME NEW j \in Places', ReadAt(j)', m_connectionState = "CLOSED"
      PROVE  j + 1 \in Places /\ ReadAt(j + 1)
  BY <1>1, <1>4, <1>9 DEF ReadAt, SocketSteady
<1>10. StopsOnce'
  <2>1. "releaseConnection" \in tasks' =>
          m_connectionState' = "CLOSED" /\ listed' /\ \A i \in Places' : ~ StopAt(i)'
    BY <1>1, <1>8 DEF StopsOnce
  <2>2. ASSUME NEW i \in Places', StopAt(i)'
        PROVE  /\ m_connectionState' = "CLOSED" /\ listed'
               /\ \A m \in Msgs : msg'[m] = "free"
               /\ \A j \in Places' : StopAt(j)' => j = i
               /\ \A j \in Places' : ReadAt(j)' => j < i \/ j = i + 1
    <3>1. /\ m_connectionState = "CLOSED" /\ listed
          /\ \A m \in Msgs : msg[m] = "free"
          /\ \A j \in Places : StopAt(j) => j = i + 1
          /\ \A j \in Places : ReadAt(j) => j < i + 1 \/ j = i + 2
      <4>1. i + 1 + 1 = i + 2
        BY <1>4
      <4> QED BY <1>1, <1>8, <2>2, <4>1 DEF StopsOnce
    <3>2. ASSUME NEW j \in Places', StopAt(j)' PROVE j = i
      <4>1. j + 1 = i + 1
        BY <1>8, <3>1, <3>2
      <4> QED BY <1>4, <4>1
    <3>3. ASSUME NEW j \in Places', ReadAt(j)' PROVE j < i \/ j = i + 1
      <4>1. j + 1 < i + 1 \/ j + 1 = i + 2
        BY <1>9, <3>1, <3>3
      <4> QED BY <1>4, <4>1
    <3> QED BY <1>5, <3>1, <3>2, <3>3
  <2>3. ASSUME ~ listed'
        PROVE  /\ m_connectionState' = "CLOSED"
               /\ \A m \in Msgs : msg'[m] = "free"
               /\ \A i \in Places' : ~ StopAt(i)' /\ (ReadAt(i)' => i = 1)
    <3>1. /\ m_connectionState = "CLOSED"
          /\ \A m \in Msgs : msg[m] = "free"
          /\ \A i \in Places : ~ StopAt(i) /\ (ReadAt(i) => i = 1)
      BY <1>1, <2>3 DEF StopsOnce
    <3>2. ASSUME NEW i \in Places', ReadAt(i)' PROVE i = 1
      <4>1. i + 1 = 1
        BY <1>9, <3>1, <3>2
      <4> QED BY <1>4, <4>1
    <3> QED BY <1>5, <1>8, <3>1, <3>2
  <2> QED BY <2>1, <2>2, <2>3 DEF StopsOnce
<1> QED BY <1>4, <1>7, <1>10

(* A handler that has become ready, not onStop.                             *)
LEMMA HandlerReady ==
  ASSUME Steady, NEW h \in Handlers, ready' = Append(ready, h), h.op # "stop",
         h.op = "read" => readOp # "none",
         h.op = "write" => h.kind = writeOp /\ writeOp # NoMsg /\ writeOp' = NoMsg,
         h.op # "write" => writeOp' = writeOp,
         UNCHANGED <<status, msg, m_socket, tasks, listed>>
  PROVE  ready' \in Seq(Handlers) /\ WritesSteady' /\ StopsOnce'
<1>1. /\ Typed /\ WritesSteady /\ SocketSteady /\ StopsOnce /\ ready \in Seq(Handlers)
      /\ writeOp \in Msgs \cup {NoMsg}
  BY DEF Steady, Typed
<1> DEFINE n == Len(ready)
<1>2. /\ ready' \in Seq(Handlers) /\ n \in Nat /\ Len(ready') = n + 1
      /\ \A i \in 1..n : ready'[i] = ready[i]
      /\ ready'[n + 1] = h
  BY <1>1, AppendFacts
<1>3. Places' = 1..(n + 1) /\ Places = 1..n /\ \A i \in Places' : i \in Places \/ i = n + 1
  BY <1>2 DEF Places
<1> HIDE DEF n
<1>4. \A i \in Places' : (i \in Places /\ ready'[i] = ready[i]) \/ (i = n + 1 /\ ready'[i] = h)
  <2> TAKE i \in Places'
  <2>1. CASE i \in Places
    BY <1>2, <1>3, <2>1
  <2>2. CASE i = n + 1
    BY <1>2, <2>2
  <2> QED BY <1>3, <2>1, <2>2
<1>5. /\ m_connectionState' = m_connectionState /\ m_pendingWrite' = m_pendingWrite
      /\ msg' = msg /\ m_socket' = m_socket /\ tasks' = tasks /\ listed' = listed
  BY DEF status
<1>6. WritesSteady'
  <2>1. OneWriteAtATime'
    BY <1>1, <1>5 DEF WritesSteady, OneWriteAtATime
  <2>2. ASSUME NEW i \in Places', WriteAt(i)' PROVE msg'[ready'[i].kind] = "writing" /\ writeOp' = NoMsg
    BY <1>1, <1>4, <1>5, <2>2 DEF WritesSteady, WriteAt
  <2>3. ASSUME NEW i \in Places', NEW j \in Places', WriteAt(i)', WriteAt(j)' PROVE i = j
    BY <1>1, <1>4, <2>3 DEF WritesSteady, WriteAt
  <2> QED BY <1>1, <1>5, <2>1, <2>2, <2>3 DEF WritesSteady
<1>7. StopsOnce'
  <2>1. \A i \in Places' : StopAt(i)' => i \in Places /\ StopAt(i)
    BY <1>4 DEF StopAt
  <2>2. m_connectionState = "CLOSED" => \A i \in Places' : ReadAt(i)' => i \in Places /\ ReadAt(i)
    BY <1>1, <1>4 DEF ReadAt, SocketSteady
  <2> QED BY <1>1, <1>5, <2>1, <2>2 DEF StopsOnce
<1> QED BY <1>2, <1>6, <1>7

-----------------------------------------------------------------------------
(* The steps.                                                              *)

LEMMA SteadyInit == Init => Steady
<1> SUFFICES ASSUME Init PROVE Steady
  OBVIOUS
<1>1. ready = <<>> /\ ready \in Seq(Handlers) /\ Len(ready) = 0 /\ Places = {}
  BY EmptySeq DEF Init, Places
<1>2. Typed
  <2>1. msg \in [Msgs -> {"free", "auto", "queued", "writing", "releasing"}]
    BY DEF Init
  <2>2. /\ m_readError \in BOOLEAN /\ m_writeError \in BOOLEAN /\ m_protocol \in BOOLEAN
        /\ m_connection \in BOOLEAN /\ listed \in BOOLEAN /\ misused \in BOOLEAN
    BY Zenon DEF Init
  <2> QED BY <1>1, <2>1, <2>2 DEF Init, Typed
<1>3. \A m \in Msgs : msg[m] = "free"
  BY DEF Init
<1>4. ProtocolSteady /\ MessagesSteady /\ SocketSteady
  BY <1>3 DEF Init, ProtocolSteady, MessagesSteady, SocketSteady
<1>5. WritesSteady /\ StopsOnce
  BY <1>1, <1>3 DEF Init, WritesSteady, StopsOnce, OneWriteAtATime
<1> QED BY <1>2, <1>4, <1>5 DEF Steady, NothingMisused, Init

LEMMA KernelKeeps ==
  ASSUME Steady, ReadCompletes \/ WriteCompletes \/ \E t \in {"read", "write"} : TimerExpires(t)
  PROVE  Steady'
<1>1. Typed /\ ~ misused /\ ProtocolSteady /\ MessagesSteady /\ SocketSteady
  BY DEF Steady, NothingMisused
<1> SUFFICES ASSUME UNCHANGED <<status, prot, m_socket, msg, sealed, tasks, listed, misused>>,
                    readOp' \in {readOp, "none"}, writeOp' \in {writeOp, NoMsg}, timers' \subseteq timers,
                    ready' \in Seq(Handlers) /\ WritesSteady' /\ StopsOnce'
             PROVE  Steady'
  <2>1. CASE ReadCompletes
    <3>1. PICK ok \in BOOLEAN : ready' = Append(ready, [op |-> "read", kind |-> readOp, ok |-> ok])
      BY <2>1 DEF ReadCompletes, Completes
    <3> DEFINE h == [op |-> "read", kind |-> readOp, ok |-> ok]
    <3>2. h \in Handlers /\ h.op = "read"
      BY <1>1, <2>1, HandlerFacts DEF Typed, ReadCompletes
    <3>3. ready' = Append(ready, h)
      BY <3>1
    <3> HIDE DEF h
    <3>4. ready' \in Seq(Handlers) /\ WritesSteady' /\ StopsOnce'
      BY <2>1, <3>2, <3>3, HandlerReady DEF ReadCompletes
    <3> QED BY <2>1, <3>4 DEF ReadCompletes
  <2>2. CASE WriteCompletes
    <3>1. PICK ok \in BOOLEAN : ready' = Append(ready, [op |-> "write", kind |-> writeOp, ok |-> ok])
      BY <2>2 DEF WriteCompletes, Completes
    <3> DEFINE h == [op |-> "write", kind |-> writeOp, ok |-> ok]
    <3>2. h \in Handlers /\ h.op = "write" /\ h.kind = writeOp
      BY <1>1, <2>2, HandlerFacts DEF Typed, WriteCompletes
    <3>3. ready' = Append(ready, h)
      BY <3>1
    <3> HIDE DEF h
    <3>4. ready' \in Seq(Handlers) /\ WritesSteady' /\ StopsOnce'
      BY <2>2, <3>2, <3>3, HandlerReady DEF WriteCompletes
    <3> QED BY <2>2, <3>4 DEF WriteCompletes
  <2>3. ASSUME NEW t \in {"read", "write"}, TimerExpires(t) PROVE Steady'
    <3> DEFINE h == [op |-> "timer", kind |-> t, ok |-> TRUE]
    <3>1. h \in Handlers /\ h.op = "timer"
      BY HandlerFacts
    <3>2. ready' = Append(ready, h)
      BY <2>3 DEF TimerExpires, Completes
    <3> HIDE DEF h
    <3>3. ready' \in Seq(Handlers) /\ WritesSteady' /\ StopsOnce'
      BY <2>3, <3>1, <3>2, HandlerReady DEF TimerExpires
    <3> QED BY <2>3, <3>3 DEF TimerExpires
  <2> QED BY <2>1, <2>2, <2>3
<1>2. Typed'
  BY <1>1 DEF Typed, status, prot
<1>3. ProtocolSteady' /\ MessagesSteady'
  BY <1>1 DEF ProtocolSteady, MessagesSteady, status, prot
<1>4. SocketSteady'
  BY <1>1 DEF SocketSteady, status
<1> QED BY <1>1, <1>2, <1>3, <1>4 DEF Steady, NothingMisused

(* A connection that starts to close never opens again, and one that is     *)
(* closed stays so.                                                         *)
LEMMA CloseFacts ==
  ASSUME Typed, SocketSteady, close
  PROVE  /\ m_connectionState' \in {"REQUEST_CLOSE", "CLOSED"}
         /\ m_connectionState' = "CLOSED" <=> m_connectionState = "CLOSED"
         /\ tasks' \subseteq {"closeConnection", "releaseConnection", "releaseProtocol"}
         /\ \A t \in {"releaseConnection", "releaseProtocol"} : t \in tasks' <=> t \in tasks
         /\ "closeConnection" \in tasks' => m_connectionState' = "REQUEST_CLOSE"
BY DEF Typed, SocketSteady, close, Closing

(* A protocol that is not touched while the connection only moves towards   *)
(* its end.                                                                 *)
LEMMA ProtocolRests ==
  ASSUME ProtocolSteady, UNCHANGED <<m_protocol, protocol, m_connection>>,
         m_connectionState' # m_connectionState => m_connectionState' \in {"REQUEST_CLOSE", "CLOSED"},
         m_connectionState' = "CLOSED" => m_connectionState = "CLOSED",
         "releaseProtocol" \in tasks' => "releaseProtocol" \in tasks,
         \A m \in Msgs : msg'[m] # "free" => msg[m] # "free"
  PROVE  ProtocolSteady'
BY DEF ProtocolSteady

LEMMA ReadsKeep ==
  ASSUME Steady, ReadFails \/ ReadRefused \/ parseHeader \/ parsePacket
  PROVE  Steady'
<1>1. Typed /\ ~ misused /\ ProtocolSteady /\ MessagesSteady /\ WritesSteady /\ SocketSteady /\ StopsOnce
  BY DEF Steady, NothingMisused
<1>2. /\ ready # <<>> /\ ready' = Tail(ready) /\ ~ Running("write")
      /\ Head(ready) \in Handlers /\ Head(ready).ok \in BOOLEAN
  <2>1. ready # <<>> /\ ready' = Tail(ready) /\ ~ Running("write")
    BY DEF ReadFails, ReadRefused, parseHeader, parsePacket, Received, Running
  <2>2. Head(ready) \in Handlers
    BY <1>1, <2>1, TailFacts DEF Typed
  <2> QED BY <2>1, <2>2, HandlerFacts
<1>3. CASE ReadFails \/ ReadRefused
  <2>1. /\ close
        /\ m_pendingRead' \in 0..1 /\ m_readError' \in BOOLEAN /\ timers' \subseteq timers
        /\ UNCHANGED <<m_pendingWrite, m_writeError, prot, m_socket, readOp, writeOp, msg, sealed, listed, misused>>
    <3>1. CASE ReadFails
      <4>1. m_readError' \in BOOLEAN
        <5>1. m_readError' = (m_readError \/ ~Head(ready).ok)
          BY <3>1 DEF ReadFails
        <5> QED BY <5>1, Zenon
      <4> QED BY <1>1, <3>1, <4>1 DEF ReadFails, Typed
    <3>2. CASE ReadRefused
      <4>1. m_pendingRead = 1
        BY <1>1, <3>2 DEF ReadRefused, Received, SocketSteady
      <4> QED BY <1>1, <3>2, <4>1 DEF ReadRefused, Typed
    <3> QED BY <1>3, <3>1, <3>2
  <2>2. /\ m_connectionState' \in {"REQUEST_CLOSE", "CLOSED"}
        /\ m_connectionState' = "CLOSED" <=> m_connectionState = "CLOSED"
        /\ tasks' \subseteq {"closeConnection", "releaseConnection", "releaseProtocol"}
        /\ \A t \in {"releaseConnection", "releaseProtocol"} : t \in tasks' <=> t \in tasks
        /\ "closeConnection" \in tasks' => m_connectionState' = "REQUEST_CLOSE"
    BY <1>1, <2>1, CloseFacts
  <2>3. ready' \in Seq(Handlers) /\ WritesSteady' /\ StopsOnce'
    BY <1>2, <2>1, <2>2, HandlerRun
  <2>4. Typed'
    BY <1>1, <2>1, <2>2, <2>3 DEF Typed, prot
  <2>5. ProtocolSteady'
    BY <1>1, <2>1, <2>2, ProtocolRests DEF prot
  <2>6. MessagesSteady' /\ SocketSteady'
    BY <1>1, <2>1, <2>2 DEF MessagesSteady, SocketSteady, prot
  <2> QED BY <1>1, <2>1, <2>3, <2>4, <2>5, <2>6 DEF Steady, NothingMisused
<1>4. CASE parseHeader \/ parsePacket
  <2>1. /\ m_connectionState = "OPEN" /\ m_socket = "open" /\ m_pendingRead' = 1 /\ readOp' \in {"body", "header"}
        /\ timers' = timers \cup {"read"} /\ listed
    <3>1. m_connectionState = "OPEN" /\ m_pendingRead' = (m_pendingRead - 1) + 1
      BY <1>4 DEF parseHeader, parsePacket, Received, NextRead
    <3>2. m_socket = "open" /\ m_pendingRead = 1 /\ listed
      BY <1>1, <3>1 DEF SocketSteady
    <3>3. m_pendingRead' = 1
      BY <3>1, <3>2
    <3>4. readOp' \in {"body", "header"} /\ timers' = timers \cup {"read"}
      BY <1>4 DEF parseHeader, parsePacket
    <3> QED BY <3>1, <3>2, <3>3, <3>4
  <2>2. UNCHANGED <<m_connectionState, m_pendingWrite, m_readError, m_writeError, m_outputBuffer,
                    m_socket, writeOp, msg, sealed, tasks, listed>>
    BY <1>4 DEF parseHeader, parsePacket, prot
  <2>3. /\ protocol' \in {"none", "alive"} /\ m_protocol' \in BOOLEAN /\ m_connection' \in BOOLEAN
        /\ m_connection' <=> m_protocol'
        /\ (protocol' = "alive" <=> m_protocol') /\ (protocol = "alive" => protocol' = "alive")
        /\ misused' = FALSE
    <3>1. /\ protocol # "deleted" /\ (protocol = "alive" <=> m_protocol) /\ (m_connection <=> m_protocol)
          /\ misused = FALSE /\ m_protocol \in BOOLEAN /\ m_connection \in BOOLEAN
          /\ protocol \in {"none", "alive", "deleted"}
      BY <1>1, <2>1 DEF ProtocolSteady, Typed
    <3>2. CASE parseHeader
      BY <3>1, <3>2 DEF parseHeader, prot
    <3>3. CASE parsePacket
      <4>1. misused' = FALSE
        <5>1. misused' = (misused \/ protocol = "deleted")
          BY <3>3 DEF parsePacket
        <5> QED BY <3>1, <5>1, Zenon
      <4>2. m_protocol' = TRUE /\ protocol' = "alive" /\ m_connection' = TRUE
        BY <3>1, <3>3 DEF parsePacket
      <4> QED BY <4>1, <4>2
    <3> QED BY <1>4, <3>2, <3>3
  <2>4. ready' \in Seq(Handlers) /\ WritesSteady' /\ StopsOnce'
    BY <1>2, <2>2, HandlerRun
  <2>5. Typed'
    <3>1. misused' \in BOOLEAN
      BY <2>3
    <3> QED BY <1>1, <2>1, <2>2, <2>3, <2>4, <3>1 DEF Typed
  <2>6. ProtocolSteady'
    BY <1>1, <2>1, <2>2, <2>3 DEF ProtocolSteady
  <2>7. MessagesSteady' /\ SocketSteady'
    BY <1>1, <2>1, <2>2 DEF MessagesSteady, SocketSteady
  <2> QED BY <2>3, <2>4, <2>5, <2>6, <2>7 DEF Steady, NothingMisused
<1> QED BY <1>3, <1>4

LEMMA OnWriteKeeps ==
  ASSUME Steady, onWrite
  PROVE  Steady'
<1>1. /\ Typed /\ ~ misused /\ ProtocolSteady /\ MessagesSteady /\ WritesSteady /\ SocketSteady /\ StopsOnce
      /\ misused = FALSE /\ ready \in Seq(Handlers)
  BY DEF Steady, NothingMisused, Typed
<1> DEFINE m == Head(ready).kind
           failed == m_writeError \/ ~Head(ready).ok
<1>2. /\ ready # <<>> /\ Running("write") /\ msg' = [msg EXCEPT ![m] = "releasing"]
      /\ UNCHANGED <<m_readError, prot, sealed, listed>>
      /\ timers' = timers \ {"write"}
  BY DEF onWrite, Running
<1>3. m \in Msgs /\ msg[m] = "writing" /\ writeOp = NoMsg /\ 1 \in Places /\ WriteAt(1)
  <2>1. 1 \in Places /\ Head(ready) = ready[1] /\ ready[1] \in Handlers
    BY <1>1, <1>2, TailFacts DEF Places
  <2> QED BY <1>1, <1>2, <2>1, HandlerFacts DEF Running, WritesSteady, WriteAt
<1>4. m_writeError' \in BOOLEAN
  <2>1. m_writeError' = failed
    BY DEF onWrite
  <2> QED BY <2>1, Zenon
<1>5. m_socket # "deleted"
  BY <1>1, <1>3 DEF SocketSteady, StopsOnce
<1>6. /\ \/ /\ closeSocket(Tail(ready)) /\ close /\ UsesSocket
         \/ /\ m_connectionState = "OPEN" /\ m_pendingWrite' = m_pendingWrite - 1 /\ ready' = Tail(ready)
            /\ UNCHANGED <<m_connectionState, m_socket, m_pendingRead, readOp, writeOp, tasks, misused>>
  BY DEF onWrite, MustClose
<1> HIDE DEF m, failed
<1>7. /\ ready' \in Seq(Handlers) /\ WritesSteady' /\ StopsOnce'
      /\ m_pendingRead' \in 0..1 /\ m_pendingWrite' \in Nat /\ misused' = FALSE
      /\ readOp' \in {"none", "header", "body"} /\ writeOp' \in Msgs \cup {NoMsg}
      /\ m_socket' \in {"open", "closed"}
      /\ m_connectionState' \in {"OPEN", "REQUEST_CLOSE", "CLOSED"}
      /\ m_connectionState' = "OPEN" => m_connectionState = "OPEN" /\ m_socket' = "open" /\ m_pendingRead' = 1
      /\ m_connectionState' = "CLOSED" <=> m_connectionState = "CLOSED"
      /\ m_connectionState' # m_connectionState => m_connectionState' = "REQUEST_CLOSE"
      /\ m_connectionState' = "CLOSED" => m_socket' # "open"
      /\ m_socket' # "open" => readOp' = "none" /\ writeOp' = NoMsg
      /\ tasks' \subseteq {"closeConnection", "releaseConnection", "releaseProtocol"}
      /\ \A t \in {"releaseConnection", "releaseProtocol"} : t \in tasks' <=> t \in tasks
      /\ "closeConnection" \in tasks' => m_connectionState' = "REQUEST_CLOSE"
  <2>1. CASE closeSocket(Tail(ready)) /\ close /\ UsesSocket
    <3>1. /\ m_connectionState' \in {"REQUEST_CLOSE", "CLOSED"}
          /\ m_connectionState' = "CLOSED" <=> m_connectionState = "CLOSED"
          /\ tasks' \subseteq {"closeConnection", "releaseConnection", "releaseProtocol"}
          /\ \A t \in {"releaseConnection", "releaseProtocol"} : t \in tasks' <=> t \in tasks
          /\ "closeConnection" \in tasks' => m_connectionState' = "REQUEST_CLOSE"
      BY <1>1, <2>1, CloseFacts
    <3>2. Tail(ready) \in Seq(Handlers)
      BY <1>1, <1>2, TailFacts
    <3>3. /\ m_socket' = "closed" /\ m_pendingRead' \in 0..1 /\ m_pendingWrite' \in Nat
          /\ readOp' = "none" /\ writeOp' = NoMsg
      BY <1>1, <1>5, <2>1, <3>2, CloseSocketFacts
    <3>4. ready' \in Seq(Handlers) /\ WritesSteady' /\ StopsOnce'
      BY <1>2, <2>1, <3>1, HandlerRun DEF m
    <3>5. misused' = FALSE
      <4>1. misused' = (misused \/ m_socket = "deleted")
        BY <2>1 DEF UsesSocket
      <4> QED BY <1>1, <1>5, <4>1, Zenon
    <3> QED BY <3>1, <3>3, <3>4, <3>5
  <2>2. CASE /\ m_connectionState = "OPEN" /\ m_pendingWrite' = m_pendingWrite - 1 /\ ready' = Tail(ready)
             /\ UNCHANGED <<m_connectionState, m_socket, m_pendingRead, readOp, writeOp, tasks, misused>>
    <3>1. ready' \in Seq(Handlers) /\ WritesSteady' /\ StopsOnce'
      BY <1>2, <2>2, HandlerRun DEF m
    <3>2. m_pendingWrite \in Nat /\ m_pendingWrite > 0
      BY <1>1, <1>3, <2>2 DEF Typed, WritesSteady, SocketSteady
    <3>3. m_socket' = "open" /\ m_pendingRead' = 1 /\ "closeConnection" \notin tasks'
      BY <1>1, <2>2 DEF SocketSteady
    <3> QED BY <1>1, <2>2, <3>1, <3>2, <3>3 DEF Typed
  <2> QED BY <1>6, <2>1, <2>2
<1>8. Typed'
  BY <1>1, <1>2, <1>3, <1>4, <1>7 DEF Typed, prot
<1>9. ProtocolSteady'
  <2>1. \A n \in Msgs : msg'[n] # "free" => msg[n] # "free"
    BY <1>1, <1>2, <1>3 DEF Typed
  <2> QED BY <1>1, <1>2, <1>7, <2>1, ProtocolRests DEF prot
<1>10. MessagesSteady'
  BY <1>1, <1>2, <1>3 DEF MessagesSteady, Typed, prot
<1>11. SocketSteady'
  BY <1>1, <1>2, <1>5, <1>7 DEF SocketSteady
<1> QED BY <1>7, <1>8, <1>9, <1>10, <1>11 DEF Steady, NothingMisused

LEMMA OnTimeoutKeeps ==
  ASSUME Steady, onTimeout
  PROVE  Steady'
<1>1. /\ Typed /\ ~ misused /\ ProtocolSteady /\ MessagesSteady /\ WritesSteady /\ SocketSteady /\ StopsOnce
      /\ misused = FALSE /\ ready \in Seq(Handlers)
  BY DEF Steady, NothingMisused, Typed
<1>2. /\ ready # <<>> /\ ~ Running("write") /\ Head(ready).op = "timer"
      /\ UNCHANGED <<m_readError, m_writeError, prot, timers, msg, sealed, listed>>
  BY DEF onTimeout, Running
<1>3. /\ 1 \in Places /\ ~ ReadAt(1) /\ Tail(ready) \in Seq(Handlers)
  <2>1. 1 \in Places /\ Head(ready) = ready[1] /\ Tail(ready) \in Seq(Handlers)
    BY <1>1, <1>2, TailFacts DEF Places
  <2> QED BY <1>2, <2>1 DEF ReadAt
<1>4. Alive => m_socket # "deleted"
  <2> SUFFICES ASSUME m_socket = "deleted" PROVE ~ Alive
    OBVIOUS
  <2>1. /\ ~ listed /\ m_connectionState = "CLOSED" /\ readOp = "none" /\ ~ m_connection
        /\ \A m \in Msgs : msg[m] = "free"
        /\ \A i \in Places : ReadAt(i) => i = 1
    BY <1>1 DEF SocketSteady, StopsOnce, ProtocolSteady
  <2>2. \A i \in Places : ~ ReadAt(i)
    BY <1>3, <2>1
  <2> QED BY <2>1, <2>2 DEF Alive, Referenced, ReadAt, Places
<1>5. CASE m_socket # "deleted" /\ closeSocket(Tail(ready)) /\ close /\ UsesSocket
  <2>1. /\ m_connectionState' \in {"REQUEST_CLOSE", "CLOSED"}
        /\ m_connectionState' = "CLOSED" <=> m_connectionState = "CLOSED"
        /\ tasks' \subseteq {"closeConnection", "releaseConnection", "releaseProtocol"}
        /\ \A t \in {"releaseConnection", "releaseProtocol"} : t \in tasks' <=> t \in tasks
        /\ "closeConnection" \in tasks' => m_connectionState' = "REQUEST_CLOSE"
    BY <1>1, <1>5, CloseFacts
  <2>2. /\ m_socket' = "closed" /\ m_pendingRead' \in 0..1 /\ m_pendingWrite' \in Nat
        /\ readOp' = "none" /\ writeOp' = NoMsg
    BY <1>1, <1>3, <1>5, CloseSocketFacts
  <2>3. ready' \in Seq(Handlers) /\ WritesSteady' /\ StopsOnce'
    BY <1>2, <1>5, <2>1, HandlerRun
  <2>4. misused' = FALSE
    <3>1. misused' = (misused \/ m_socket = "deleted")
      BY <1>5 DEF UsesSocket
    <3> QED BY <1>1, <1>5, <3>1, Zenon
  <2>5. Typed'
    BY <1>1, <1>2, <2>1, <2>2, <2>3, <2>4 DEF Typed, prot
  <2>6. ProtocolSteady'
    BY <1>1, <1>2, <2>1, ProtocolRests DEF prot
  <2>7. MessagesSteady' /\ SocketSteady'
    BY <1>1, <1>2, <1>5, <2>1, <2>2 DEF MessagesSteady, SocketSteady, prot
  <2> QED BY <2>3, <2>4, <2>5, <2>6, <2>7 DEF Steady, NothingMisused
<1>6. CASE /\ ready' = Tail(ready)
           /\ UNCHANGED <<m_connectionState, m_socket, m_pendingRead, m_pendingWrite,
                           readOp, writeOp, tasks, misused>>
  <2>1. ready' \in Seq(Handlers) /\ WritesSteady' /\ StopsOnce'
    BY <1>2, <1>6, HandlerRun
  <2>2. Typed'
    BY <1>1, <1>2, <1>6, <2>1 DEF Typed, prot
  <2>3. ProtocolSteady' /\ MessagesSteady' /\ SocketSteady'
    BY <1>1, <1>2, <1>6 DEF ProtocolSteady, MessagesSteady, SocketSteady, prot
  <2> QED BY <1>1, <1>6, <2>1, <2>2, <2>3 DEF Steady, NothingMisused
<1> QED BY <1>4, <1>5, <1>6 DEF onTimeout

LEMMA OnStopKeeps ==
  ASSUME Steady, onStop
  PROVE  Steady'
<1>1. /\ Typed /\ ~ misused /\ ProtocolSteady /\ MessagesSteady /\ WritesSteady /\ SocketSteady /\ StopsOnce
      /\ misused = FALSE /\ ready \in Seq(Handlers)
  BY DEF Steady, NothingMisused, Typed
<1>2. /\ ready # <<>> /\ Head(ready).op = "stop" /\ ready' = Tail(ready) /\ timers' = {}
      /\ m_socket' = "deleted" /\ listed' = FALSE
      /\ UNCHANGED <<status, prot, readOp, writeOp, msg, sealed, tasks>>
  BY DEF onStop, Running
<1>3. /\ 1 \in Places /\ StopAt(1) /\ ready' \in Seq(Handlers)
      /\ \A i \in Places' : i \in Int /\ i + 1 \in Places /\ ready'[i] = ready[i + 1]
  <2>1. /\ 1 \in Places /\ Head(ready) = ready[1] /\ ready' \in Seq(Handlers)
        /\ \A i \in Places' : i + 1 \in Places /\ ready'[i] = ready[i + 1]
    BY <1>1, <1>2, TailFacts DEF Places
  <2> QED BY <1>2, <2>1 DEF StopAt, Places
<1>4. /\ m_connectionState = "CLOSED" /\ listed /\ m_socket # "open"
      /\ \A m \in Msgs : msg[m] = "free"
      /\ \A j \in Places : StopAt(j) => j = 1
      /\ \A j \in Places : ReadAt(j) => j < 1 \/ j = 2
      /\ "releaseConnection" \notin tasks
  <2>1. /\ m_connectionState = "CLOSED" /\ listed
        /\ \A m \in Msgs : msg[m] = "free"
        /\ \A j \in Places : StopAt(j) => j = 1
        /\ \A j \in Places : ReadAt(j) => j < 1 \/ j = 1 + 1
    BY <1>1, <1>3 DEF StopsOnce
  <2>2. "releaseConnection" \notin tasks
    BY <1>1, <1>3 DEF StopsOnce
  <2>3. m_socket # "open"
    BY <1>1, <2>1 DEF SocketSteady
  <2> QED BY <2>1, <2>2, <2>3
<1>5. misused' = FALSE
  <2>1. misused' = (misused \/ ~ listed)
    BY DEF onStop
  <2> QED BY <1>1, <1>4, <2>1, Zenon
<1>6. Typed'
  <2>1. timers' \subseteq {"read", "write"} /\ misused' \in BOOLEAN /\ listed' \in BOOLEAN
    BY <1>2, <1>5
  <2> QED BY <1>1, <1>2, <1>3, <2>1 DEF Typed, status, prot
<1>7. ProtocolSteady' /\ MessagesSteady'
  BY <1>1, <1>2 DEF ProtocolSteady, MessagesSteady, status, prot
<1>8. SocketSteady'
  BY <1>1, <1>2, <1>4 DEF SocketSteady, status
<1>9. WritesSteady'
  <2>1. \A i \in Places' : ~ WriteAt(i)'
    <3> TAKE i \in Places'
    <3>1. i + 1 \in Places /\ ready'[i] = ready[i + 1] /\ ready[i + 1] \in Handlers
      BY <1>1, <1>3, ElementOfSeq DEF Places
    <3> QED BY <1>1, <1>4, <3>1, HandlerFacts DEF WriteAt, WritesSteady
  <2>2. \A m \in Msgs : msg'[m] = "free"
    BY <1>2, <1>4
  <2>3. writeOp' = NoMsg
    BY <1>1, <1>2, <1>4 DEF SocketSteady
  <2> QED BY <2>1, <2>2, <2>3 DEF WritesSteady, OneWriteAtATime
<1>10. StopsOnce'
  <2>1. ASSUME NEW i \in Places' PROVE ~ StopAt(i)' /\ (ReadAt(i)' => i = 1)
    <3>1. i \in Int /\ i + 1 \in Places /\ ready'[i] = ready[i + 1] /\ i >= 1
      BY <1>3 DEF Places
    <3>2. ~ StopAt(i)'
      BY <1>4, <3>1 DEF StopAt
    <3>3. ReadAt(i)' => i + 1 < 1 \/ i + 1 = 2
      BY <1>4, <3>1 DEF ReadAt
    <3> QED BY <3>1, <3>2, <3>3
  <2> QED BY <1>2, <1>4, <2>1 DEF StopsOnce, status
<1> QED BY <1>5, <1>6, <1>7, <1>8, <1>9, <1>10 DEF Steady, NothingMisused

(* While a message is in use, or the protocol has its connection, onStop    *)
(* has not come and is not on its way.                                      *)
LEMMA InUseIsListed ==
  ASSUME Steady, NEW m \in Msgs, m_connection \/ msg[m] # "free"
  PROVE  /\ listed /\ protocol = "alive"
         /\ \A i \in Places : ~ StopAt(i)
         /\ "releaseConnection" \in tasks => m_connectionState = "CLOSED"
BY DEF Steady, ProtocolSteady, StopsOnce

LEMMA StopsRest ==
  ASSUME StopsOnce, UNCHANGED <<ready, m_connectionState, listed>>,
         listed, \A i \in Places : ~ StopAt(i),
         "releaseConnection" \in tasks' => "releaseConnection" \in tasks
  PROVE  StopsOnce'
BY DEF StopsOnce, Places, StopAt

LEMMA SentKeeps ==
  ASSUME Steady, NEW m \in Msgs, Sent(m),
         msg[m] = "auto" \/ (msg[m] = "free" /\ m_connection)
  PROVE  Steady'
<1>1. /\ Typed /\ ~ misused /\ ProtocolSteady /\ MessagesSteady /\ WritesSteady /\ SocketSteady /\ StopsOnce
      /\ misused = FALSE /\ ready \in Seq(Handlers)
  BY DEF Steady, NothingMisused, Typed
<1>2. UNCHANGED <<m_connectionState, m_pendingRead, m_readError, m_writeError,
                  m_protocol, protocol, m_connection, m_socket, readOp, ready, tasks, listed>>
  BY DEF Sent
<1>3. /\ listed /\ protocol = "alive" /\ m \notin sealed
      /\ \A i \in Places : ~ StopAt(i)
  BY <1>1, InUseIsListed DEF MessagesSteady
<1>4. StopsOnce'
  BY <1>1, <1>2, <1>3, StopsRest
<1>5. ProtocolSteady'
  BY <1>1, <1>2, <1>3 DEF ProtocolSteady
<1>6. onSendMessage(m) => /\ sealed' = sealed \cup {m} /\ misused' = FALSE
                          /\ m_outputBuffer' = IF m_outputBuffer = m THEN NoMsg ELSE m_outputBuffer
  <2> SUFFICES ASSUME onSendMessage(m) PROVE misused' = FALSE
    BY DEF onSendMessage
  <2>1. misused' = (misused \/ protocol = "deleted" \/ m \in sealed)
    BY DEF onSendMessage
  <2> QED BY <1>1, <1>3, <2>1, Zenon
<1>7. CASE /\ onSendMessage(m) /\ msg' = [msg EXCEPT ![m] = "releasing"]
           /\ UNCHANGED <<m_pendingWrite, writeOp, timers>>
  <2>1. Typed'
    <3>1. misused' \in BOOLEAN /\ sealed' \subseteq Msgs /\ m_outputBuffer' \in Msgs \cup {NoMsg}
      BY <1>1, <1>6, <1>7 DEF Typed
    <3>2. m_pendingWrite' \in Nat /\ writeOp' \in Msgs \cup {NoMsg} /\ timers' \subseteq {"read", "write"}
      BY <1>1, <1>7 DEF Typed
    <3>3. msg' \in [Msgs -> {"free", "auto", "queued", "writing", "releasing"}]
      BY <1>1, <1>7 DEF Typed
    <3> QED BY <1>1, <1>2, <3>1, <3>2, <3>3 DEF Typed
  <2>2. MessagesSteady'
    BY <1>1, <1>6, <1>7 DEF MessagesSteady, Typed
  <2>3. SocketSteady'
    BY <1>1, <1>2, <1>7 DEF SocketSteady
  <2>4. \A n \in Msgs : msg'[n] = "writing" <=> msg[n] = "writing"
    BY <1>1, <1>7 DEF Typed
  <2>5. /\ \A i \in Places : WriteAt(i) => ready[i].kind \in Msgs
        /\ writeOp # NoMsg => writeOp \in Msgs
    BY <1>1, HandlerFacts, ElementOfSeq DEF Typed, Places, WriteAt
  <2>6. WritesSteady'
    BY <1>1, <1>2, <1>7, <2>4, <2>5 DEF WritesSteady, OneWriteAtATime, Places, WriteAt
  <2> QED BY <1>4, <1>5, <1>6, <1>7, <2>1, <2>2, <2>3, <2>6 DEF Steady, NothingMisused
<1>8. CASE /\ Sendable /\ Writable /\ onSendMessage(m) /\ msg' = [msg EXCEPT ![m] = "writing"]
           /\ m_pendingWrite' = m_pendingWrite + 1 /\ writeOp' = m /\ timers' = timers \cup {"write"}
  <2>1. Typed'
    <3>1. misused' \in BOOLEAN /\ sealed' \subseteq Msgs /\ m_outputBuffer' \in Msgs \cup {NoMsg}
      BY <1>1, <1>6, <1>8 DEF Typed
    <3>2. m_pendingWrite' \in Nat /\ writeOp' \in Msgs \cup {NoMsg} /\ timers' \subseteq {"read", "write"}
      BY <1>1, <1>8 DEF Typed
    <3>3. msg' \in [Msgs -> {"free", "auto", "queued", "writing", "releasing"}]
      BY <1>1, <1>8 DEF Typed
    <3> QED BY <1>1, <1>2, <3>1, <3>2, <3>3 DEF Typed
  <2>2. MessagesSteady'
    BY <1>1, <1>6, <1>8 DEF MessagesSteady, Typed
  <2>3. m_socket = "open" /\ m_pendingWrite = 0
    BY <1>1, <1>8 DEF SocketSteady, Sendable, Writable
  <2>4. SocketSteady'
    BY <1>1, <1>2, <2>3 DEF SocketSteady
  <2>5. \A n \in Msgs : msg[n] # "writing"
    BY <1>1, <2>3 DEF WritesSteady
  <2>6. \A i \in Places : ~ WriteAt(i)
    <3> TAKE i \in Places
    <3>1. ready[i] \in Handlers
      BY <1>1, ElementOfSeq DEF Places
    <3> QED BY <1>1, <2>5, <3>1, HandlerFacts DEF WriteAt, WritesSteady
  <2>7. \A n \in Msgs : msg'[n] = "writing" => n = m
    BY <1>1, <1>8, <2>5 DEF Typed
  <2>8. msg'[m] = "writing" /\ m_pendingWrite' = 1
    BY <1>1, <1>8, <2>3 DEF Typed
  <2>9. WritesSteady'
    BY <1>2, <1>8, <2>6, <2>7, <2>8 DEF WritesSteady, OneWriteAtATime, Places, WriteAt
  <2> QED BY <1>4, <1>5, <1>6, <1>8, <2>1, <2>2, <2>4, <2>9 DEF Steady, NothingMisused
<1>9. CASE /\ msg' = [msg EXCEPT ![m] = "queued"]
           /\ UNCHANGED <<m_outputBuffer, sealed, misused, m_pendingWrite, writeOp, timers>>
  <2>1. Typed'
    BY <1>1, <1>2, <1>9 DEF Typed
  <2>2. MessagesSteady'
    BY <1>1, <1>3, <1>9 DEF MessagesSteady, Typed
  <2>3. SocketSteady'
    BY <1>1, <1>2, <1>9 DEF SocketSteady
  <2>4. \A n \in Msgs : msg'[n] = "writing" <=> msg[n] = "writing"
    BY <1>1, <1>9 DEF Typed
  <2>5. /\ \A i \in Places : WriteAt(i) => ready[i].kind \in Msgs
        /\ writeOp # NoMsg => writeOp \in Msgs
    BY <1>1, HandlerFacts, ElementOfSeq DEF Typed, Places, WriteAt
  <2>6. WritesSteady'
    BY <1>1, <1>2, <1>9, <2>4, <2>5 DEF WritesSteady, OneWriteAtATime, Places, WriteAt
  <2> QED BY <1>1, <1>4, <1>5, <1>9, <2>1, <2>2, <2>3, <2>6 DEF Steady, NothingMisused
<1> QED BY <1>7, <1>8, <1>9 DEF Sent, send

LEMMA PoolKeeps ==
  ASSUME Steady, NEW m \in Msgs,
         getOutputBuffer(m) \/ Requeue(m) \/ Drop(m) \/ internalReleaseMessage(m)
  PROVE  Steady'
<1>1. /\ Typed /\ ~ misused /\ ProtocolSteady /\ MessagesSteady /\ WritesSteady /\ SocketSteady /\ StopsOnce
      /\ misused = FALSE /\ ready \in Seq(Handlers)
  BY DEF Steady, NothingMisused, Typed
<1>2. /\ UNCHANGED <<status, m_protocol, protocol, m_connection, kernel, tasks, listed>>
      /\ msg[m] # "free" \/ m_connection
      /\ msg[m] # "writing"
      /\ \E to \in {"free", "auto", "releasing"} : msg' = [msg EXCEPT ![m] = to]
  BY DEF getOutputBuffer, Requeue, Drop, internalReleaseMessage, prot
<1>3. /\ listed /\ protocol = "alive"
      /\ \A i \in Places : ~ StopAt(i)
  BY <1>1, <1>2, InUseIsListed
<1>4. StopsOnce'
  BY <1>1, <1>2, <1>3, StopsRest DEF status, kernel
<1>5. ProtocolSteady'
  BY <1>1, <1>2, <1>3 DEF ProtocolSteady, status
<1>6. SocketSteady'
  BY <1>1, <1>2 DEF SocketSteady, status, kernel
<1>7. WritesSteady'
  <2>1. \A n \in Msgs : msg'[n] = "writing" <=> msg[n] = "writing"
    BY <1>1, <1>2 DEF Typed
  <2>2. /\ \A i \in Places : WriteAt(i) => ready[i].kind \in Msgs
        /\ writeOp # NoMsg => writeOp \in Msgs
    BY <1>1, HandlerFacts, ElementOfSeq DEF Typed, Places, WriteAt
  <2> QED BY <1>1, <1>2, <2>1, <2>2 DEF WritesSteady, OneWriteAtATime, Places, WriteAt, kernel, status
<1>8. misused' = FALSE /\ sealed' \subseteq Msgs /\ m_outputBuffer' \in Msgs \cup {NoMsg} /\ MessagesSteady'
  <2>1. CASE getOutputBuffer(m)
    BY <1>1, <2>1 DEF getOutputBuffer, MessagesSteady, Typed
  <2>2. CASE Requeue(m)
    BY <1>1, <2>2 DEF Requeue, MessagesSteady, Typed, prot
  <2>3. CASE Drop(m)
    <3>1. m \notin sealed
      BY <1>1, <2>3 DEF Drop, MessagesSteady
    <3>2. misused' = (misused \/ protocol = "deleted" \/ m \in sealed)
      BY <2>3 DEF Drop, onSendMessage
    <3>3. misused' = FALSE
      BY <1>1, <1>3, <3>1, <3>2, Zenon
    <3> QED BY <1>1, <2>3, <3>3 DEF Drop, onSendMessage, MessagesSteady, Typed
  <2>4. CASE internalReleaseMessage(m)
    <3>1. misused' = (misused \/ protocol = "deleted")
      BY <2>4 DEF internalReleaseMessage
    <3>2. misused' = FALSE
      BY <1>1, <1>3, <3>1, Zenon
    <3> QED BY <1>1, <2>4, <3>2 DEF internalReleaseMessage, MessagesSteady, Typed, prot
  <2> QED BY <2>1, <2>2, <2>3, <2>4
<1>9. Typed'
  <2>1. misused' \in BOOLEAN
    BY <1>8
  <2>2. msg' \in [Msgs -> {"free", "auto", "queued", "writing", "releasing"}]
    BY <1>1, <1>2 DEF Typed
  <2> QED BY <1>1, <1>2, <1>8, <2>1, <2>2 DEF Typed, status, kernel
<1> QED BY <1>4, <1>5, <1>6, <1>7, <1>8, <1>9 DEF Steady, NothingMisused

LEMMA DisconnectKeeps ==
  ASSUME Steady, Disconnect
  PROVE  Steady'
<1>1. /\ Typed /\ ~ misused /\ ProtocolSteady /\ MessagesSteady /\ WritesSteady /\ SocketSteady /\ StopsOnce
  BY DEF Steady, NothingMisused, Typed
<1>2. /\ close /\ m_connection
      /\ UNCHANGED <<m_pendingRead, m_pendingWrite, m_readError, m_writeError, prot, kernel,
                     msg, sealed, listed, misused>>
  BY DEF Disconnect
<1>3. /\ m_connectionState' \in {"REQUEST_CLOSE", "CLOSED"}
      /\ m_connectionState' = "CLOSED" <=> m_connectionState = "CLOSED"
      /\ tasks' \subseteq {"closeConnection", "releaseConnection", "releaseProtocol"}
      /\ \A t \in {"releaseConnection", "releaseProtocol"} : t \in tasks' <=> t \in tasks
      /\ "closeConnection" \in tasks' => m_connectionState' = "REQUEST_CLOSE"
  BY <1>1, <1>2, CloseFacts
<1>4. Typed'
  BY <1>1, <1>2, <1>3 DEF Typed, prot, kernel
<1>5. ProtocolSteady'
  BY <1>1, <1>2, <1>3, ProtocolRests DEF prot
<1>6. MessagesSteady' /\ SocketSteady'
  BY <1>1, <1>2, <1>3 DEF MessagesSteady, SocketSteady, prot, kernel
<1>7. WritesSteady'
  BY <1>1, <1>2 DEF WritesSteady, OneWriteAtATime, Places, WriteAt, kernel
<1>8. StopsOnce'
  BY <1>1, <1>2, <1>3 DEF StopsOnce, Places, StopAt, ReadAt, kernel
<1> QED BY <1>1, <1>2, <1>4, <1>5, <1>6, <1>7, <1>8 DEF Steady, NothingMisused

LEMMA ReleaseProtocolKeeps ==
  ASSUME Steady, releaseProtocol
  PROVE  Steady'
<1>1. /\ Typed /\ ~ misused /\ ProtocolSteady /\ MessagesSteady /\ WritesSteady /\ SocketSteady /\ StopsOnce
      /\ misused = FALSE
  BY DEF Steady, NothingMisused, Typed
<1>2. /\ "releaseProtocol" \in tasks /\ tasks' = tasks \ {"releaseProtocol"}
      /\ protocol' = "deleted" /\ m_connection' = FALSE
      /\ \A m \in Msgs : msg[m] = "free"
      /\ UNCHANGED <<status, m_protocol, m_outputBuffer, kernel, msg, sealed, listed>>
  BY DEF releaseProtocol, InUse, Referenced
<1>3. protocol = "alive" /\ ~ m_protocol /\ m_connectionState # "OPEN"
  BY <1>1, <1>2 DEF ProtocolSteady
<1>4. misused' = FALSE
  <2>1. misused' = (misused \/ protocol = "deleted")
    BY DEF releaseProtocol
  <2> QED BY <1>1, <1>3, <2>1, Zenon
<1>5. Typed'
  <2>1. misused' \in BOOLEAN /\ m_connection' \in BOOLEAN
    BY <1>2, <1>4
  <2> QED BY <1>1, <1>2, <2>1 DEF Typed, status, kernel
<1>6. ProtocolSteady'
  BY <1>1, <1>2, <1>3 DEF ProtocolSteady, status
<1>7. MessagesSteady' /\ SocketSteady'
  BY <1>1, <1>2 DEF MessagesSteady, SocketSteady, status, kernel
<1>8. WritesSteady'
  BY <1>1, <1>2 DEF WritesSteady, OneWriteAtATime, Places, WriteAt, kernel, status
<1>9. StopsOnce'
  BY <1>1, <1>2 DEF StopsOnce, Places, StopAt, ReadAt, kernel, status
<1> QED BY <1>4, <1>5, <1>6, <1>7, <1>8, <1>9 DEF Steady, NothingMisused

(* onStop is queued when no message is in use, by a connection that was     *)
(* still listed and has had no other.                                       *)
LEMMA StopQueued ==
  ASSUME Steady, \A m \in Msgs : msg[m] = "free",
         listed, \A i \in Places : ~ StopAt(i),
         NEW s, s = Append(ready, [op |-> "stop", kind |-> "none", ok |-> TRUE])
  PROVE  /\ s \in Seq(Handlers) /\ Len(s) = Len(ready) + 1 /\ Len(ready) \in Nat
         /\ \A i \in 1..Len(s) : s[i].op # "write" /\ (s[i].op = "stop" <=> i = Len(s))
         /\ writeOp = NoMsg
<1> DEFINE h == [op |-> "stop", kind |-> "none", ok |-> TRUE]
<1>1. Typed /\ WritesSteady /\ ready \in Seq(Handlers) /\ s = Append(ready, h)
  BY DEF Steady, Typed
<1>2. h \in Handlers /\ h.op = "stop"
  BY HandlerFacts
<1> HIDE DEF h
<1>3. /\ s \in Seq(Handlers) /\ Len(ready) \in Nat /\ Len(s) = Len(ready) + 1
      /\ \A i \in 1..Len(ready) : s[i] = ready[i]
      /\ s[Len(ready) + 1] = h
  BY <1>1, <1>2, AppendFacts
<1>4. \A i \in Places : ~ WriteAt(i)
  <2> TAKE i \in Places
  <2>1. ready[i] \in Handlers
    BY <1>1, ElementOfSeq DEF Places
  <2> QED BY <1>1, <2>1, HandlerFacts DEF WriteAt, WritesSteady
<1>5. writeOp = NoMsg
  BY <1>1 DEF WritesSteady, Typed
<1>6. ASSUME NEW i \in 1..Len(s) PROVE s[i].op # "write" /\ (s[i].op = "stop" <=> i = Len(s))
  <2>1. CASE i = Len(ready) + 1
    BY <1>2, <1>3, <2>1
  <2>2. CASE i # Len(ready) + 1
    <3>1. i \in 1..Len(ready) /\ i # Len(s)
      BY <1>3, <2>2
    <3> QED BY <1>3, <1>4, <3>1 DEF Places, WriteAt, StopAt
  <2> QED BY <2>1, <2>2
<1> QED BY <1>3, <1>5, <1>6

LEMMA ReleaseConnectionKeeps ==
  ASSUME Steady, releaseConnection
  PROVE  Steady'
<1>1. /\ Typed /\ ~ misused /\ ProtocolSteady /\ MessagesSteady /\ WritesSteady /\ SocketSteady /\ StopsOnce
      /\ misused = FALSE
  BY DEF Steady, NothingMisused, Typed
<1>2. /\ "releaseConnection" \in tasks /\ tasks' = tasks \ {"releaseConnection"}
      /\ \A m \in Msgs : msg[m] = "free"
      /\ ready' = Append(ready, [op |-> "stop", kind |-> "none", ok |-> TRUE])
      /\ UNCHANGED <<status, prot, m_socket, readOp, writeOp, timers, msg, sealed, listed>>
  BY DEF releaseConnection, InUse, Referenced, Completes
<1>3. m_connectionState = "CLOSED" /\ listed /\ (\A i \in Places : ~ StopAt(i)) /\ m_socket # "open"
  BY <1>1, <1>2 DEF StopsOnce, SocketSteady
<1>4. misused' = FALSE
  <2>1. misused' = (misused \/ ~ Alive)
    BY DEF releaseConnection
  <2>2. Alive
    BY <1>3 DEF Alive
  <2> QED BY <1>1, <2>1, <2>2, Zenon
<1>5. /\ ready' \in Seq(Handlers) /\ Len(ready') = Len(ready) + 1 /\ Len(ready) \in Nat
      /\ \A i \in 1..Len(ready') : ready'[i].op # "write" /\ (ready'[i].op = "stop" <=> i = Len(ready'))
      /\ writeOp = NoMsg
  BY <1>2, <1>3, StopQueued
<1>6. Typed'
  <2>1. misused' \in BOOLEAN
    BY <1>4
  <2> QED BY <1>1, <1>2, <1>5, <2>1 DEF Typed, status, prot
<1>7. ProtocolSteady' /\ MessagesSteady' /\ SocketSteady'
  BY <1>1, <1>2 DEF ProtocolSteady, MessagesSteady, SocketSteady, status, prot
<1>8. WritesSteady'
  <2>1. \A i \in Places' : ~ WriteAt(i)'
    <3> TAKE i \in Places'
    <3>1. i \in 1..Len(ready')
      BY DEF Places
    <3> QED BY <1>5, <3>1 DEF WriteAt
  <2>2. writeOp' = NoMsg /\ \A m \in Msgs : msg'[m] = "free"
    BY <1>2, <1>5
  <2> QED BY <2>1, <2>2 DEF WritesSteady, OneWriteAtATime
<1>9. StopsOnce'
  <2>1. ASSUME NEW i \in Places', StopAt(i)'
        PROVE  /\ \A j \in Places' : StopAt(j)' => j = i
               /\ \A j \in Places' : ReadAt(j)' => j < i \/ j = i + 1
    <3>1. i = Len(ready')
      BY <1>5, <2>1 DEF Places, StopAt
    <3>2. \A j \in Places' : StopAt(j)' => j = Len(ready')
      BY <1>5 DEF Places, StopAt
    <3>3. ASSUME NEW j \in Places', ReadAt(j)' PROVE j < i
      <4>1. j # Len(ready')
        BY <1>5, <3>3 DEF Places, ReadAt
      <4> QED BY <1>5, <3>1, <4>1 DEF Places
    <3> QED BY <3>1, <3>2, <3>3
  <2>2. listed' /\ m_connectionState' = "CLOSED" /\ \A m \in Msgs : msg'[m] = "free"
    BY <1>2, <1>3 DEF status
  <2> QED BY <1>2, <2>1, <2>2 DEF StopsOnce
<1> QED BY <1>4, <1>6, <1>7, <1>8, <1>9 DEF Steady, NothingMisused

LEMMA CloseConnectionKeeps ==
  ASSUME Steady, closeConnection
  PROVE  Steady'
<1>1. /\ Typed /\ ~ misused /\ ProtocolSteady /\ MessagesSteady /\ WritesSteady /\ SocketSteady /\ StopsOnce
      /\ misused = FALSE /\ ready \in Seq(Handlers)
  BY DEF Steady, NothingMisused, Typed
<1> DEFINE over == m_pendingWrite = 0 \/ m_writeError
           stop == [op |-> "stop", kind |-> "none", ok |-> TRUE]
           rest == ready \o (IF InUse THEN <<>> ELSE <<stop>>)
<1>2. /\ "closeConnection" \in tasks
      /\ m_protocol' = FALSE /\ m_connection' = (m_connection /\ ~m_protocol)
      /\ protocol' = IF m_protocol /\ ~InUse THEN "deleted" ELSE protocol
      /\ tasks' = (tasks \ {"closeConnection"}) \cup
                   {t \in {"releaseConnection", "releaseProtocol"} :
                      InUse /\ (t = "releaseProtocol" => m_protocol) /\ (t = "releaseConnection" => over)}
      /\ m_connectionState' = IF over THEN "CLOSED" ELSE "CLOSING"
      /\ UNCHANGED <<m_readError, m_writeError, m_outputBuffer, timers, msg, sealed, listed>>
  BY DEF closeConnection
<1>3. /\ m_connectionState = "REQUEST_CLOSE" /\ listed /\ m_socket # "deleted" /\ "releaseConnection" \notin tasks
      /\ \A i \in Places : ~ StopAt(i)
  BY <1>1, <1>2 DEF SocketSteady, StopsOnce
<1>4. Alive
  BY <1>3 DEF Alive
<1>5. /\ tasks' \subseteq {"releaseConnection", "releaseProtocol"}
      /\ "releaseConnection" \in tasks' => InUse /\ over
      /\ "releaseProtocol" \in tasks' => "releaseProtocol" \in tasks \/ (InUse /\ m_protocol)
  BY <1>1, <1>2, <1>3 DEF Typed
<1>6. m_connection' = FALSE
  <2>1. ~ (m_connection /\ ~ m_protocol)
    BY <1>1 DEF ProtocolSteady
  <2> QED BY <1>2, <2>1, Zenon
<1>7. InUse <=> \E m \in Msgs : msg[m] # "free"
  BY DEF InUse, Referenced
<1>8. misused' = FALSE
  <2>1. CASE over
    <3>1. misused' = (misused \/ m_socket = "deleted" \/ ~Alive)
      BY <2>1 DEF closeConnection
    <3> QED BY <1>1, <1>3, <1>4, <3>1, Zenon
  <2>2. CASE ~ over
    <3>1. misused' = (misused \/ ~Alive)
      BY <2>2 DEF closeConnection
    <3> QED BY <1>1, <1>4, <3>1, Zenon
  <2> QED BY <2>1, <2>2
<1>9. ProtocolSteady'
  <2>1. /\ m_protocol => protocol = "alive"
        /\ "releaseProtocol" \in tasks => protocol = "alive" /\ ~ m_protocol
        /\ \A m \in Msgs : msg[m] # "free" => protocol = "alive"
    BY <1>1 DEF ProtocolSteady
  <2>2. "releaseProtocol" \in tasks' => protocol' = "alive"
    BY <1>2, <1>5, <2>1
  <2>3. \A m \in Msgs : msg'[m] # "free" => protocol' = "alive"
    BY <1>2, <1>7, <2>1
  <2>4. ~ m_connection' /\ ~ m_protocol' /\ m_connectionState' \in {"CLOSED", "CLOSING"}
    BY <1>2, <1>6
  <2> QED BY <2>2, <2>3, <2>4 DEF ProtocolSteady
<1>10. MessagesSteady'
  BY <1>1, <1>2 DEF MessagesSteady
<1>11. /\ m_protocol' \in BOOLEAN /\ m_connection' \in BOOLEAN /\ misused' \in BOOLEAN
       /\ protocol' \in {"none", "alive", "deleted"}
       /\ m_connectionState' \in {"CLOSED", "CLOSING"}
  <2>1. protocol \in {"none", "alive", "deleted"}
    BY <1>1 DEF Typed
  <2> QED BY <1>2, <1>6, <1>8, <2>1
<1>12. CASE ~ over
  <2>1. UNCHANGED <<m_socket, m_pendingRead, m_pendingWrite, readOp, writeOp, ready>>
    BY <1>12 DEF closeConnection
  <2>2. Typed'
    BY <1>1, <1>2, <1>5, <1>11, <2>1 DEF Typed
  <2>3. m_connectionState' = "CLOSING" /\ "closeConnection" \notin tasks' /\ "releaseConnection" \notin tasks'
    BY <1>2, <1>5, <1>12
  <2>4. SocketSteady'
    BY <1>1, <1>2, <2>1, <2>3 DEF SocketSteady
  <2>5. WritesSteady'
    BY <1>1, <1>2, <2>1 DEF WritesSteady, OneWriteAtATime, Places, WriteAt
  <2>6. StopsOnce'
    <3>1. listed' /\ Places' = Places /\ \A i \in Places : StopAt(i)' <=> StopAt(i)
      BY <1>2, <1>3, <2>1 DEF Places, StopAt
    <3> QED BY <1>3, <2>3, <3>1 DEF StopsOnce
  <2> QED BY <1>8, <1>9, <1>10, <2>2, <2>4, <2>5, <2>6 DEF Steady, NothingMisused
<1>13. CASE over
  <2>1. closeSocket(rest)
    BY <1>13 DEF closeConnection
  <2>2. /\ rest \in Seq(Handlers) /\ Len(ready) \in Nat /\ Len(rest) \in Nat
        /\ InUse => rest = ready
        /\ ~ InUse => /\ Len(rest) = Len(ready) + 1
                      /\ \A i \in 1..Len(rest) : rest[i].op # "write" /\ (rest[i].op = "stop" <=> i = Len(rest))
                      /\ writeOp = NoMsg
    <3>1. Len(ready) \in Nat
      BY <1>1, LenProperties
    <3>2. CASE InUse
      <4>1. rest = ready
        BY <1>1, <3>2, ConcatEmptySeq
      <4> QED BY <1>1, <3>1, <3>2, <4>1
    <3>3. CASE ~ InUse
      <4>1. rest = ready \o <<stop>> /\ stop \in Handlers
        BY <3>3, HandlerFacts
      <4>2. rest = Append(ready, stop)
        BY <1>1, <4>1, AppendFacts
      <4>3. \A m \in Msgs : msg[m] = "free"
        BY <1>7, <3>3
      <4>4. rest = Append(ready, [op |-> "stop", kind |-> "none", ok |-> TRUE])
        BY <4>2
      <4> HIDE DEF rest, stop
      <4>5. /\ rest \in Seq(Handlers) /\ Len(rest) = Len(ready) + 1
            /\ \A i \in 1..Len(rest) : rest[i].op # "write" /\ (rest[i].op = "stop" <=> i = Len(rest))
            /\ writeOp = NoMsg
        BY <1>3, <4>3, <4>4, StopQueued, Zenon
      <4> QED BY <3>1, <3>3, <4>5
    <3> QED BY <3>2, <3>3
  <2> HIDE DEF rest, stop, over
  <2>3. /\ ready' \in Seq(Handlers) /\ Len(ready') \in Nat /\ Len(ready') >= Len(rest)
        /\ \A i \in 1..Len(rest) : ready'[i] = rest[i]
        /\ \A i \in 1..Len(ready') : i > Len(rest) =>
             /\ m_socket = "open"
             /\ \/ ready'[i].op = "read" /\ i = Len(rest) + 1
                \/ ready'[i].op = "write" /\ ready'[i].kind = writeOp /\ writeOp # NoMsg
        /\ \A i, j \in 1..Len(ready') :
             i > Len(rest) /\ j > Len(rest) /\ ready'[i].op = "write" /\ ready'[j].op = "write" => i = j
        /\ m_socket' = "closed"
        /\ m_pendingRead' \in 0..1 /\ m_pendingWrite' \in Nat
        /\ readOp' = "none" /\ writeOp' = NoMsg
    BY <1>1, <1>3, <2>1, <2>2, CloseSocketFacts
  <2>4. \A i \in Places' : i \in Int /\ (i \in 1..Len(rest) \/ i > Len(rest))
    BY <2>2, <2>3 DEF Places
  <2>5. Typed'
    BY <1>1, <1>2, <1>5, <1>11, <2>3 DEF Typed
  <2>6. m_connectionState' = "CLOSED" /\ listed' /\ "closeConnection" \notin tasks'
    BY <1>2, <1>3, <1>5, <1>13
  <2>7. SocketSteady'
    BY <2>3, <2>6 DEF SocketSteady
  <2>8. CASE InUse
    <3>1. rest = ready /\ 1..Len(rest) = Places
      BY <2>2, <2>8 DEF Places
    <3>2. ASSUME NEW i \in Places', WriteAt(i)'
          PROVE  /\ msg'[ready'[i].kind] = "writing"
                 /\ \/ i \in Places /\ WriteAt(i) /\ writeOp = NoMsg
                    \/ i > Len(rest) /\ writeOp # NoMsg
      <4>1. CASE i \in 1..Len(rest)
        BY <1>1, <1>2, <2>3, <3>1, <3>2, <4>1 DEF WritesSteady, WriteAt
      <4>2. CASE i > Len(rest)
        BY <1>1, <1>2, <2>3, <3>2, <4>2 DEF WritesSteady, WriteAt, Places
      <4> QED BY <2>4, <4>1, <4>2
    <3>3. ASSUME NEW i \in Places', NEW j \in Places', WriteAt(i)', WriteAt(j)' PROVE i = j
      <4>1. CASE writeOp = NoMsg
        BY <1>1, <3>2, <3>3, <4>1 DEF WritesSteady
      <4>2. CASE writeOp # NoMsg
        BY <2>3, <3>2, <3>3, <4>2 DEF WriteAt, Places
      <4> QED BY <4>1, <4>2
    <3>4. WritesSteady'
      BY <1>1, <1>2, <2>3, <3>2, <3>3 DEF WritesSteady, OneWriteAtATime
    <3>5. ASSUME NEW i \in Places' PROVE ~ StopAt(i)'
      <4>1. CASE i \in 1..Len(rest)
        BY <1>3, <2>3, <3>1, <4>1 DEF StopAt
      <4>2. CASE i > Len(rest)
        BY <2>3, <4>2 DEF StopAt, Places
      <4> QED BY <2>4, <4>1, <4>2
    <3>6. StopsOnce'
      BY <2>6, <3>5 DEF StopsOnce
    <3> QED BY <1>8, <1>9, <1>10, <2>5, <2>7, <3>4, <3>6 DEF Steady, NothingMisused
  <2>9. CASE ~ InUse
    <3>1. /\ Len(rest) = Len(ready) + 1 /\ writeOp = NoMsg
          /\ \A i \in 1..Len(rest) : rest[i].op # "write" /\ (rest[i].op = "stop" <=> i = Len(rest))
      BY <2>2, <2>9
    <3>2. \A m \in Msgs : msg'[m] = "free"
      BY <1>2, <1>7, <2>9
    <3>3. ASSUME NEW i \in Places'
          PROVE  /\ ~ WriteAt(i)'
                 /\ StopAt(i)' => i = Len(rest)
                 /\ ReadAt(i)' => i < Len(rest) \/ i = Len(rest) + 1
      <4>1. CASE i \in 1..Len(rest)
        <5>1. ReadAt(i)' => i # Len(rest)
          BY <2>3, <3>1, <4>1 DEF ReadAt
        <5> QED BY <2>2, <2>3, <3>1, <4>1, <5>1 DEF StopAt, WriteAt
      <4>2. CASE i > Len(rest)
        BY <2>3, <3>1, <4>2 DEF StopAt, WriteAt, Places
      <4> QED BY <2>4, <4>1, <4>2
    <3>4. WritesSteady'
      BY <2>3, <3>2, <3>3 DEF WritesSteady, OneWriteAtATime
    <3>5. StopsOnce'
      <4>1. "releaseConnection" \notin tasks'
        BY <1>5, <2>9
      <4> QED BY <2>6, <3>2, <3>3, <4>1 DEF StopsOnce
    <3> QED BY <1>8, <1>9, <1>10, <2>5, <2>7, <3>4, <3>5 DEF Steady, NothingMisused
  <2> QED BY <2>8, <2>9
<1> QED BY <1>12, <1>13

-----------------------------------------------------------------------------

LEMMA SteadyRests == Steady /\ UNCHANGED vars => Steady'
<1> SUFFICES ASSUME Steady, UNCHANGED vars PROVE Steady'
  OBVIOUS
<1>1. UNCHANGED <<m_connectionState, m_pendingRead, m_pendingWrite, m_readError, m_writeError, m_protocol,
                  protocol, m_connection, m_outputBuffer, m_socket, readOp, writeOp, timers, ready, msg,
                  sealed, tasks, listed, misused>>
  BY DEF vars, status, prot, kernel
<1>2. Typed' /\ NothingMisused'
  BY <1>1 DEF Steady, Typed, NothingMisused
<1>3. ProtocolSteady' /\ MessagesSteady' /\ SocketSteady'
  BY <1>1 DEF Steady, ProtocolSteady, MessagesSteady, SocketSteady
<1>4. WritesSteady'
  BY <1>1 DEF Steady, WritesSteady, OneWriteAtATime, Places, WriteAt
<1>5. StopsOnce'
  BY <1>1 DEF Steady, StopsOnce, Places, StopAt, ReadAt
<1> QED BY <1>2, <1>3, <1>4, <1>5 DEF Steady

LEMMA SteadyStep == Steady /\ [Next]_vars => Steady'
<1> SUFFICES ASSUME Steady, [Next]_vars PROVE Steady'
  OBVIOUS
<1>1. CASE ReadCompletes \/ WriteCompletes \/ \E t \in {"read", "write"} : TimerExpires(t)
  BY <1>1, KernelKeeps
<1>2. CASE ServiceThread
  BY <1>2, ReadsKeep, OnWriteKeeps, OnTimeoutKeeps, OnStopKeeps DEF ServiceThread
<1>3. CASE DispatcherThread
  BY <1>3, CloseConnectionKeeps, ReleaseProtocolKeeps, ReleaseConnectionKeeps, PoolKeeps DEF DispatcherThread
<1>4. ASSUME NEW m \in Msgs, getOutputBuffer(m) \/ SendSingle(m) \/ Requeue(m) \/ Drop(m) \/ SendAuto(m)
      PROVE  Steady'
  <2>1. CASE SendSingle(m) \/ SendAuto(m)
    <3>1. Sent(m)
      BY <2>1 DEF SendSingle, SendAuto
    <3>2. msg[m] = "auto" \/ (msg[m] = "free" /\ m_connection)
      BY <2>1 DEF SendSingle, SendAuto
    <3> QED BY <3>1, <3>2, SentKeeps
  <2>2. CASE getOutputBuffer(m) \/ Requeue(m) \/ Drop(m)
    BY <2>2, PoolKeeps
  <2> QED BY <1>4, <2>1, <2>2
<1>5. CASE Disconnect
  BY <1>5, DisconnectKeeps
<1>6. CASE UNCHANGED vars
  BY <1>6, SteadyRests
<1> QED BY <1>1, <1>2, <1>3, <1>4, <1>5, <1>6 DEF Next

LEMMA SteadyIsSound == Steady => ConnectionSound
<1> SUFFICES ASSUME Steady PROVE ConnectionSound
  OBVIOUS
<1>1. TypeOK /\ NothingMisused /\ OneWriteAtATime
  BY Flags DEF Steady, WritesSteady
<1>2. BufferIsOpen
  BY DEF Steady, Typed, MessagesSteady, BufferIsOpen
<1> QED BY <1>1, <1>2 DEF ConnectionSound

(* Whatever the order of handlers, timeouts, retries and calls from the     *)
(* dispatcher: socket, protocol and connection are used only while they are *)
(* there and are deleted once, one message is written at a time, and none   *)
(* is added to once it has been encrypted (connection.cpp, protocol.cpp).   *)
THEOREM ConnectionStaysSound == Spec => []ConnectionSound
<1>1. Spec => []Steady
  BY SteadyInit, SteadyStep, PTL DEF Spec
<1> QED BY <1>1, SteadyIsSound, PTL

-----------------------------------------------------------------------------
(* The windows: what a container is in, under any parents.                  *)

Parents == [Boxes -> Spots \cup People \cup Boxes \cup {Nowhere}]

\* Around(par, c) is a set of containers with c that is closed,
LEMMA AroundIsClosed ==
  ASSUME NEW par, NEW c \in Boxes
  PROVE  /\ c \in Around(par, c) /\ Around(par, c) \subseteq Boxes
         /\ \A d \in Around(par, c) : par[d] \in Boxes => par[d] \in Around(par, c)
<1>1. ASSUME NEW d \in Around(par, c), par[d] \in Boxes PROVE par[d] \in Around(par, c)
  <2> SUFFICES ASSUME NEW S \in SUBSET Boxes, c \in S, {par[e] : e \in S} \cap Boxes \subseteq S PROVE par[d] \in S
    BY <1>1 DEF Around
  <2>1. d \in S
    BY DEF Around
  <2> QED BY <1>1, <2>1
<1>2. c \in Around(par, c) /\ Around(par, c) \subseteq Boxes
  BY DEF Around
<1> QED BY <1>1, <1>2

\* and the least such set: this is how anything about it is shown.
LEMMA AroundIsLeast ==
  ASSUME NEW par, NEW c \in Boxes, NEW S \in SUBSET Boxes, c \in S,
         \A d \in S : par[d] \in Boxes => par[d] \in S
  PROVE  Around(par, c) \subseteq S
BY DEF Around

LEMMA AroundFurther ==
  ASSUME NEW par, NEW c \in Boxes, NEW d \in Around(par, c)
  PROVE  d \in Boxes /\ Around(par, d) \subseteq Around(par, c)
<1>1. d \in Boxes
  BY AroundIsClosed
<1> QED BY <1>1, AroundIsClosed, AroundIsLeast

LEMMA AroundNext ==
  ASSUME NEW par, NEW c \in Boxes
  PROVE  /\ par[c] \notin Boxes => Around(par, c) = {c}
         /\ par[c] \in Boxes => Around(par, c) = {c} \cup Around(par, par[c])
<1>1. ASSUME par[c] \notin Boxes PROVE Around(par, c) = {c}
  <2>1. {c} \in SUBSET Boxes /\ c \in {c} /\ \A d \in {c} : par[d] \notin Boxes
    BY <1>1
  <2>2. Around(par, c) \subseteq {c}
    BY <2>1, AroundIsLeast
  <2> QED BY <2>2, AroundIsClosed
<1>2. ASSUME par[c] \in Boxes PROVE Around(par, c) = {c} \cup Around(par, par[c])
  <2> DEFINE S == {c} \cup Around(par, par[c])
  <2>1. S \in SUBSET Boxes /\ c \in S /\ \A d \in S : par[d] \in Boxes => par[d] \in S
    BY <1>2, AroundIsClosed
  <2>2. Around(par, c) \subseteq S
    <3> HIDE DEF S
    <3> QED BY <2>1, AroundIsLeast
  <2>3. S \subseteq Around(par, c)
    <3>1. c \in Around(par, c) /\ par[c] \in Around(par, c)
      BY <1>2, AroundIsClosed
    <3> QED BY <3>1, AroundFurther
  <2> QED BY <2>2, <2>3
<1> QED BY <1>1, <1>2

\* Where nothing is moved.
LEMMA AroundUnmoved ==
  ASSUME NEW par, NEW new, NEW c \in Boxes, \A d \in Around(par, c) : new[d] = par[d]
  PROVE  Around(new, c) = Around(par, c)
<1>1. Around(new, c) \subseteq Around(par, c)
  BY AroundIsClosed, AroundIsLeast
<1>2. Around(par, c) \subseteq Around(new, c)
  <2>1. \A d \in Around(new, c) : par[d] \in Boxes => par[d] \in Around(new, c)
    BY <1>1, AroundIsClosed
  <2> QED BY <2>1, AroundIsClosed, AroundIsLeast
<1> QED BY <1>1, <1>2

\* Where it ends is around all that is around c: so it ends in one place,
LEMMA AroundHasOneEnd ==
  ASSUME NEW par, NEW c \in Boxes, NEW e \in Around(par, c), par[e] \notin Boxes
  PROVE  /\ \A d \in Around(par, c) : e \in Around(par, d)
         /\ \A d \in Around(par, c) : par[d] \notin Boxes => d = e
         /\ Outermost(par, c) = e
<1> DEFINE S == {d \in Around(par, c) : e \in Around(par, d)}
<1>1. S \in SUBSET Boxes /\ c \in S
  BY AroundIsClosed
<1>2. ASSUME NEW d \in S, par[d] \in Boxes PROVE par[d] \in S
  <2>1. d \in Boxes /\ par[d] \in Around(par, c) /\ e # d
    BY <1>2, AroundIsClosed
  <2> QED BY <1>2, <2>1, AroundNext
<1>3. Around(par, c) \subseteq S
  <2> HIDE DEF S
  <2> QED BY <1>1, <1>2, AroundIsLeast
<1>4. ASSUME NEW d \in Around(par, c), par[d] \notin Boxes PROVE d = e
  <2>1. d \in Boxes /\ e \in Around(par, d)
    BY <1>3, AroundIsClosed
  <2> QED BY <1>4, <2>1, AroundNext
<1> QED BY <1>3, <1>4 DEF Outermost

\* Every container is somewhere, and none in itself.
Grounded(par) ==
  /\ par \in Parents
  /\ \A c \in Boxes : \E e \in Around(par, c) : par[e] \notin Boxes
  /\ \A c \in Chests : par[c] \in Spots \cup {Nowhere}

LEMMA OutermostIs ==
  ASSUME NEW par, Grounded(par), NEW c \in Boxes
  PROVE  /\ Outermost(par, c) \in Around(par, c) /\ Outermost(par, c) \in Boxes
         /\ par[Outermost(par, c)] \in Spots \cup People \cup {Nowhere}
         /\ \A d \in Around(par, c) : Outermost(par, d) = Outermost(par, c)
         /\ par[c] \notin Boxes => Outermost(par, c) = c
<1>1. PICK e \in Around(par, c) : par[e] \notin Boxes
  BY DEF Grounded
<1>2. Outermost(par, c) = e /\ e \in Boxes /\ \A d \in Around(par, c) : e \in Around(par, d)
  BY <1>1, AroundHasOneEnd, AroundIsClosed
<1>3. \A d \in Around(par, c) : Outermost(par, d) = e
  BY <1>1, <1>2, AroundHasOneEnd, AroundIsClosed
<1>4. par[e] \in Spots \cup People \cup {Nowhere}
  BY <1>1, <1>2 DEF Grounded, Parents
<1>5. par[c] \notin Boxes => e = c
  BY <1>1, AroundNext
<1> QED BY <1>1, <1>2, <1>3, <1>4, <1>5

LEMMA NotInItself ==
  ASSUME NEW par, Grounded(par), NEW c \in Boxes, par[c] \in Boxes
  PROVE  c \notin Around(par, par[c])
<1> SUFFICES ASSUME c \in Around(par, par[c]) PROVE FALSE
  OBVIOUS
<1> DEFINE S == {d \in Boxes : c \in Around(par, d)}
<1>1. S \in SUBSET Boxes /\ c \in S
  BY AroundIsClosed
<1>2. ASSUME NEW d \in S, par[d] \in Boxes PROVE par[d] \in S
  BY <1>2, AroundNext
<1>3. Around(par, c) \subseteq S
  <2> HIDE DEF S
  <2> QED BY <1>1, <1>2, AroundIsLeast
<1>4. PICK e \in Around(par, c) : par[e] \notin Boxes
  BY DEF Grounded
<1>5. e \in Boxes /\ c \in Around(par, e)
  BY <1>3
<1>6. c = e
  BY <1>4, <1>5, AroundNext
<1> QED BY <1>4, <1>6

\* What becomes of it when c is moved, though not into itself.
LEMMA AroundMoved ==
  ASSUME NEW par, Grounded(par), NEW c \in Boxes, NEW to \in Spots \cup People \cup Boxes \cup {Nowhere},
         to \in Boxes => c \notin Around(par, to),
         c \in Chests => to \in Spots \cup {Nowhere}
  PROVE  LET new == [par EXCEPT ![c] = to]
         IN  /\ Grounded(new)
             /\ \A d \in Boxes : c \in Around(new, d) <=> c \in Around(par, d)
             /\ \A d \in Boxes : c \notin Around(par, d) =>
                  Outermost(new, d) = Outermost(par, d) /\ Holder(new, d) = Holder(par, d)
             /\ \A d \in Boxes : c \in Around(par, d) => Outermost(new, d) = Outermost(new, c)
<1> DEFINE new == [par EXCEPT ![c] = to]
<1>1. new \in Parents /\ new[c] = to /\ \A d \in Boxes : d # c => new[d] = par[d]
  BY DEF Grounded, Parents
<1> HIDE DEF new
<1>2. ASSUME NEW d \in Boxes, c \notin Around(par, d)
      PROVE  /\ Around(new, d) = Around(par, d)
             /\ Outermost(new, d) = Outermost(par, d) /\ Holder(new, d) = Holder(par, d)
             /\ \E e \in Around(new, d) : new[e] \notin Boxes
  <2>1. \A x \in Around(par, d) : new[x] = par[x]
    BY <1>1, <1>2, AroundIsClosed
  <2>2. Around(new, d) = Around(par, d)
    BY <2>1, AroundUnmoved
  <2>3. PICK e \in Around(par, d) : par[e] \notin Boxes
    BY DEF Grounded
  <2>4. e \in Around(new, d) /\ new[e] = par[e] /\ new[e] \notin Boxes
    BY <2>1, <2>2, <2>3
  <2>5. Outermost(new, d) = e /\ Outermost(par, d) = e
    BY <2>3, <2>4, AroundHasOneEnd
  <2> QED BY <2>2, <2>4, <2>5 DEF Holder
<1>3. ASSUME NEW d \in Boxes, c \in Around(par, d) PROVE c \in Around(new, d)
  <2> SUFFICES ASSUME c \notin Around(new, d) PROVE FALSE
    OBVIOUS
  <2>1. \A x \in Around(new, d) : par[x] = new[x]
    BY <1>1, AroundIsClosed
  <2>2. Around(par, d) = Around(new, d)
    BY <2>1, AroundUnmoved
  <2> QED BY <1>3, <2>2
<1>4. \E e \in Around(new, c) : new[e] \notin Boxes
  <2>1. CASE to \in Boxes
    <3>1. PICK e \in Around(new, to) : new[e] \notin Boxes
      BY <1>2, <2>1
    <3> QED BY <1>1, <2>1, <3>1, AroundNext
  <2>2. CASE to \notin Boxes
    BY <1>1, <2>2, AroundIsClosed
  <2> QED BY <2>1, <2>2
<1>5. PICK e \in Around(new, c) : new[e] \notin Boxes
  BY <1>4
<1>6. ASSUME NEW d \in Boxes, c \in Around(par, d) PROVE e \in Around(new, d)
  BY <1>3, <1>5, <1>6, AroundFurther
<1>7. Grounded(new)
  <2>1. \A d \in Boxes : \E x \in Around(new, d) : new[x] \notin Boxes
    BY <1>2, <1>5, <1>6
  <2>2. \A d \in Chests : new[d] \in Spots \cup {Nowhere}
    BY <1>1, WindowsAssumption DEF Grounded
  <2> QED BY <1>1, <2>1, <2>2 DEF Grounded
<1>8. ASSUME NEW d \in Boxes, c \in Around(par, d) PROVE Outermost(new, d) = Outermost(new, c)
  BY <1>3, <1>7, <1>8, OutermostIs
<1> QED BY <1>2, <1>3, <1>7, <1>8 DEF new
-----------------------------------------------------------------------------
(* The windows of one player.                                              *)

Vecs == Seq(Cids \X Boxes)
Screens == [Cids -> Boxes \cup {Nowhere}]

\* Each window is listed once,
Neat(vec) == vec \in Vecs /\ \A j, k \in DOMAIN vec : j # k => vec[j][1] # vec[k][1]
\* what is open is at hand,
AtHand(par, ats, p, c) ==
  LET o == Outermost(par, c)
      h == par[o]
  IN  /\ h # Nowhere /\ Near(IF h \in People THEN ats[h] ELSE h, ats[p])
      /\ h \in People => h = p
      /\ o \in Chests => o = Chest[p]
\* and the client shows it; each container once.
Tells(vec, shows) ==
  /\ \A i \in Cids : getContainer(vec, i) = {shows[i]} \ {Nowhere}
  /\ \A c \in Boxes : \A i, j \in OpenIn(vec, c) : i = j

LEMMA OpenContainers ==
  ASSUME NEW vec, Neat(vec)
  PROVE  /\ \A c \in Boxes : OpenIn(vec, c) = {i \in Cids : c \in getContainer(vec, i)}
         /\ \A c \in Boxes : IsFiniteSet(OpenIn(vec, c))
         /\ \A i \in Cids : getContainer(vec, i) \subseteq Boxes
         /\ \A i \in Cids : \A c, d \in getContainer(vec, i) : c = d
         /\ \A k \in DOMAIN vec : vec[k][1] \in Cids /\ vec[k][2] \in getContainer(vec, vec[k][1])
<1>1. \A k \in DOMAIN vec : vec[k] \in Cids \X Boxes
  BY DEF Neat, Vecs
<1>2. \A k \in DOMAIN vec : vec[k][1] \in Cids /\ vec[k][2] \in Boxes
  BY <1>1
<1>3. \A c \in Boxes : OpenIn(vec, c) = {i \in Cids : c \in getContainer(vec, i)}
  BY <1>2 DEF OpenIn, getContainer
<1>4. \A i \in Cids : getContainer(vec, i) \subseteq Boxes
  BY <1>2 DEF getContainer
<1>5. \A i \in Cids : \A c, d \in getContainer(vec, i) : c = d
  BY DEF getContainer, Neat
<1>6. ASSUME NEW c \in Boxes PROVE IsFiniteSet(OpenIn(vec, c))
  <2> DEFINE D == {k \in DOMAIN vec : vec[k][2] = c}
  <2>1. DOMAIN vec = 1..Len(vec) /\ Len(vec) \in Nat
    BY LenProperties DEF Neat, Vecs
  <2>2. IsFiniteSet(DOMAIN vec)
    BY <2>1, FS_Interval
  <2>3. IsFiniteSet(D)
    BY <2>2, FS_Subset
  <2>4. OpenIn(vec, c) = {vec[k][1] : k \in D}
    BY DEF OpenIn
  <2> DEFINE f == [k \in D |-> vec[k][1]]
  <2>5. f \in Surjection(D, OpenIn(vec, c))
    BY <2>4 DEF Surjection
  <2> HIDE DEF D, f
  <2> QED BY <2>3, <2>5, FS_Surjection
<1>7. \A k \in DOMAIN vec : vec[k][2] \in getContainer(vec, vec[k][1])
  BY DEF getContainer
<1> QED BY <1>2, <1>3, <1>4, <1>5, <1>6, <1>7

\* Windows are closed,
LEMMA PickedWindows ==
  ASSUME NEW vec, Neat(vec), NEW gone, NEW I \in SUBSET DOMAIN vec,
         \A k \in DOMAIN vec : k \in I <=> vec[k][1] \notin gone
  PROVE  /\ Neat(Picked(vec, I))
         /\ \A i \in Cids : getContainer(Picked(vec, I), i) = IF i \in gone THEN {} ELSE getContainer(vec, i)
<1> DEFINE v == Picked(vec, I)
<1>0. vec \in Vecs /\ I \in SUBSET DOMAIN vec /\ \A k \in I : vec[k][1] \notin gone
  BY DEF Neat
<1>1. /\ v \in Vecs
      /\ \A k \in DOMAIN v : \E i \in I : v[k] = vec[i]
      /\ \A i \in I : \E k \in DOMAIN v : v[k] = vec[i]
      /\ (\A i, j \in I : vec[i] = vec[j] => i = j) => \A k, m \in DOMAIN v : v[k] = v[m] => k = m
  BY <1>0, PickedFacts DEF Vecs
<1> HIDE DEF v
<1>2. \A i, j \in I : vec[i][1] = vec[j][1] => i = j
  BY <1>0 DEF Neat
<1>3. \A k, m \in DOMAIN v : v[k] = v[m] => k = m
  <2>1. \A i, j \in I : vec[i] = vec[j] => i = j
    BY <1>2
  <2> QED BY <1>1, <2>1
<1>4. ASSUME NEW k \in DOMAIN v, NEW m \in DOMAIN v, v[k][1] = v[m][1] PROVE k = m
  <2>1. PICK i \in I, j \in I : v[k] = vec[i] /\ v[m] = vec[j]
    BY <1>1
  <2>2. i = j
    BY <1>2, <1>4, <2>1
  <2> QED BY <1>3, <2>1, <2>2
<1>5. Neat(v)
  BY <1>1, <1>4 DEF Neat
<1>6. ASSUME NEW i \in Cids, i \in gone PROVE getContainer(v, i) = {}
  BY <1>0, <1>1, <1>6 DEF getContainer
<1>7. ASSUME NEW i \in Cids, i \notin gone PROVE getContainer(v, i) = getContainer(vec, i)
  <2>1. ASSUME NEW k \in DOMAIN v, v[k][1] = i PROVE v[k][2] \in getContainer(vec, i)
    BY <1>0, <1>1, <2>1 DEF getContainer
  <2>2. ASSUME NEW k \in DOMAIN vec, vec[k][1] = i PROVE vec[k][2] \in getContainer(v, i)
    <3>1. PICK m \in DOMAIN v : v[m] = vec[k]
      BY <1>1, <1>7, <2>2
    <3> QED BY <2>2, <3>1 DEF getContainer
  <2> QED BY <2>1, <2>2 DEF getContainer
<1> QED BY <1>5, <1>6, <1>7 DEF v

LEMMA ClosedWindow ==
  ASSUME NEW vec, Neat(vec), NEW cid \in Cids
  PROVE  /\ Neat(closeContainer(vec, cid))
         /\ \A i \in Cids : getContainer(closeContainer(vec, cid), i) = IF i = cid THEN {} ELSE getContainer(vec, i)
<1> DEFINE I == {k \in DOMAIN vec : vec[k][1] # cid}
           gone == {cid}
<1>1. closeContainer(vec, cid) = Picked(vec, I)
  BY DEF closeContainer
<1>2. I \in SUBSET DOMAIN vec /\ \A k \in DOMAIN vec : k \in I <=> vec[k][1] \notin gone
  OBVIOUS
<1> HIDE DEF I, gone
<1>3. /\ Neat(Picked(vec, I))
      /\ \A i \in Cids : getContainer(Picked(vec, I), i) = IF i \in gone THEN {} ELSE getContainer(vec, i)
  <2>1. \A J \in SUBSET DOMAIN vec : (\A k \in DOMAIN vec : k \in J <=> vec[k][1] \notin gone) =>
          /\ Neat(Picked(vec, J))
          /\ \A i \in Cids : getContainer(Picked(vec, J), i) = IF i \in gone THEN {} ELSE getContainer(vec, i)
    BY PickedWindows
  <2> QED BY <1>2, <2>1
<1>4. \A i \in Cids : i \in gone <=> i = cid
  BY DEF gone
<1> QED BY <1>1, <1>3, <1>4

\* and opened.
LEMMA AddedWindow ==
  ASSUME NEW vec, Neat(vec), NEW cid \in Cids, NEW c \in Boxes
  PROVE  /\ Neat(addContainer(vec, cid, c))
         /\ \A i \in Cids : getContainer(addContainer(vec, cid, c), i) = IF i = cid THEN {c} ELSE getContainer(vec, i)
<1>1. /\ vec \in Vecs /\ DOMAIN vec = 1..Len(vec) /\ Len(vec) \in Nat
      /\ \A k \in DOMAIN vec : vec[k] \in Cids \X Boxes
      /\ \A j, k \in DOMAIN vec : vec[j][1] = vec[k][1] => j = k
  BY LenProperties DEF Neat, Vecs
<1>2. CASE getContainer(vec, cid) # {}
  <2> DEFINE v == [k \in DOMAIN vec |-> IF vec[k][1] = cid THEN <<cid, c>> ELSE vec[k]]
  <2>1. addContainer(vec, cid, c) = v
    BY <1>2 DEF addContainer
  <2>2. <<cid, c>> \in Cids \X Boxes /\ <<cid, c>>[1] = cid /\ <<cid, c>>[2] = c
    OBVIOUS
  <2>3. v \in Vecs
    BY <1>1, <2>2 DEF Vecs
  <2>4. /\ DOMAIN v = DOMAIN vec
        /\ \A k \in DOMAIN vec : v[k][1] = vec[k][1]
        /\ \A k \in DOMAIN vec : vec[k][1] = cid => v[k][2] = c
        /\ \A k \in DOMAIN vec : vec[k][1] # cid => v[k] = vec[k]
    BY <2>2
  <2> HIDE DEF v
  <2>5. Neat(v)
    BY <1>1, <2>3, <2>4 DEF Neat
  <2>6. PICK k \in DOMAIN vec : vec[k][1] = cid
    BY <1>2 DEF getContainer
  <2>7. getContainer(v, cid) = {c}
    BY <2>4, <2>6 DEF getContainer
  <2>8. \A i \in Cids : i # cid => getContainer(v, i) = getContainer(vec, i)
    BY <2>4 DEF getContainer
  <2> QED BY <2>1, <2>5, <2>7, <2>8
<1>3. CASE getContainer(vec, cid) = {}
  <2> DEFINE v == Append(vec, <<cid, c>>)
             n == Len(vec)
  <2>1. addContainer(vec, cid, c) = v
    BY <1>3 DEF addContainer
  <2>2. <<cid, c>> \in Cids \X Boxes /\ <<cid, c>>[1] = cid /\ <<cid, c>>[2] = c
    OBVIOUS
  <2>3. /\ v \in Vecs /\ DOMAIN v = 1..(n + 1) /\ v[n + 1] = <<cid, c>>
        /\ \A k \in 1..n : v[k] = vec[k]
    BY <1>1, <2>2, AppendProperties, LenProperties DEF Vecs
  <2> HIDE DEF v, n
  <2>4. DOMAIN vec = 1..n /\ n \in Nat
    BY <1>1 DEF n
  <2>5. \A k \in DOMAIN v : k \in DOMAIN vec \/ k = n + 1
    BY <2>3, <2>4
  <2>6. /\ \A k \in DOMAIN vec : k \in DOMAIN v /\ v[k] = vec[k] /\ vec[k][1] # cid /\ k # n + 1
        /\ n + 1 \in DOMAIN v /\ v[n + 1][1] = cid /\ v[n + 1][2] = c
    <3>1. \A k \in 1..n : k \in 1..(n + 1) /\ k # n + 1
      BY <2>4
    <3>2. \A k \in DOMAIN vec : vec[k][1] # cid
      BY <1>3 DEF getContainer
    <3> QED BY <2>2, <2>3, <2>4, <3>1, <3>2
  <2>7. Neat(v)
    <3>1. ASSUME NEW j \in DOMAIN v, NEW k \in DOMAIN v, j # k PROVE v[j][1] # v[k][1]
      <4>1. CASE j \in DOMAIN vec /\ k \in DOMAIN vec
        BY <1>1, <2>6, <3>1, <4>1
      <4>2. CASE j \in DOMAIN vec /\ k = n + 1
        BY <2>6, <4>2
      <4>3. CASE j = n + 1 /\ k \in DOMAIN vec
        BY <2>6, <4>3
      <4> QED BY <2>5, <3>1, <4>1, <4>2, <4>3
    <3> QED BY <2>3, <3>1 DEF Neat
  <2>8. getContainer(v, cid) = {c}
    BY <2>5, <2>6 DEF getContainer
  <2>9. ASSUME NEW i \in Cids, i # cid PROVE getContainer(v, i) = getContainer(vec, i)
    BY <2>5, <2>6, <2>9 DEF getContainer
  <2> QED BY <2>1, <2>7, <2>8, <2>9
<1> QED BY <1>2, <1>3

-----------------------------------------------------------------------------
(* What notifications do to the windows of a player.                       *)

Panes == [vec : Vecs, shows : Screens]

\* Some windows are closed, on both sides.
Closes(W, V) ==
  /\ V \in Panes /\ Neat(V.vec)
  /\ \A i \in Cids : getContainer(V.vec, i) \subseteq getContainer(W.vec, i)
  /\ Tells(W.vec, W.shows) => Tells(V.vec, V.shows)

Fits(p, par, ats, W) ==
  /\ W \in Panes /\ Neat(W.vec)
  /\ \A i \in Cids : \A c \in getContainer(W.vec, i) : AtHand(par, ats, p, c)

LEMMA StillOnce ==
  ASSUME NEW vec, NEW v, Neat(vec), Neat(v), \A i \in Cids : getContainer(v, i) \subseteq getContainer(vec, i),
         \A c \in Boxes : \A i, j \in OpenIn(vec, c) : i = j
  PROVE  \A c \in Boxes : \A i, j \in OpenIn(v, c) : i = j
BY OpenContainers

LEMMA NothingCloses == ASSUME NEW W \in Panes, Neat(W.vec) PROVE Closes(W, W)
BY DEF Closes

LEMMA ClosesOn == ASSUME NEW W, NEW U, NEW V, Closes(W, U), Closes(U, V) PROVE Closes(W, V)
BY DEF Closes

LEMMA SentCloses ==
  ASSUME NEW W \in Panes, Neat(W.vec), NEW c \in Boxes
  PROVE  Closes(W, onSendContainer(W, c)) /\ onSendContainer(W, c).vec = W.vec
<1> DEFINE f == [i \in Cids |-> IF i \in OpenIn(W.vec, c) THEN c ELSE W.shows[i]]
           V == onSendContainer(W, c)
<1>1. f \in Screens /\ \A i \in Cids : f[i] = IF i \in OpenIn(W.vec, c) THEN c ELSE W.shows[i]
  BY DEF Panes, Screens
<1>2. V = [W EXCEPT !.shows = f]
  BY DEF onSendContainer
<1> HIDE DEF f
<1>3. V \in Panes /\ V.vec = W.vec /\ V.shows = f
  BY <1>1, <1>2 DEF Panes
<1> HIDE DEF V
<1>4. ASSUME Tells(W.vec, W.shows), NEW i \in Cids PROVE getContainer(W.vec, i) = {f[i]} \ {Nowhere}
  <2>1. CASE i \in OpenIn(W.vec, c)
    <3>1. c \in getContainer(W.vec, i) /\ c # Nowhere
      BY <2>1, OpenContainers, WindowsAssumption
    <3>2. getContainer(W.vec, i) = {c}
      BY <3>1, OpenContainers
    <3> QED BY <1>1, <2>1, <3>1, <3>2
  <2>2. CASE i \notin OpenIn(W.vec, c)
    BY <1>1, <1>4, <2>2 DEF Tells
  <2> QED BY <2>1, <2>2
<1> QED BY <1>3, <1>4 DEF Closes, Tells, V

LEMMA ShutCloses ==
  ASSUME NEW W \in Panes, Neat(W.vec), NEW gone
  PROVE  Closes(W, Shut(W, gone)) /\ \A i \in Cids : i \in gone => getContainer(Shut(W, gone).vec, i) = {}
<1> DEFINE v == Picked(W.vec, {k \in DOMAIN W.vec : W.vec[k][1] \notin gone})
           f == [i \in Cids |-> IF i \in gone THEN Nowhere ELSE W.shows[i]]
<1>1. f \in Screens /\ \A i \in Cids : f[i] = IF i \in gone THEN Nowhere ELSE W.shows[i]
  BY DEF Panes, Screens
<1>2. Neat(v) /\ \A i \in Cids : getContainer(v, i) = IF i \in gone THEN {} ELSE getContainer(W.vec, i)
  <2> DEFINE u == W.vec
             I == {k \in DOMAIN u : u[k][1] \notin gone}
  <2>1. Neat(u) /\ v = Picked(u, I) /\ I \in SUBSET DOMAIN u /\ \A k \in DOMAIN u : k \in I <=> u[k][1] \notin gone
    OBVIOUS
  <2> HIDE DEF I, u, v, f
  <2>2. /\ Neat(Picked(u, I))
        /\ \A i \in Cids : getContainer(Picked(u, I), i) = IF i \in gone THEN {} ELSE getContainer(u, i)
    <3>1. \A J \in SUBSET DOMAIN u : (\A k \in DOMAIN u : k \in J <=> u[k][1] \notin gone) =>
            /\ Neat(Picked(u, J))
            /\ \A i \in Cids : getContainer(Picked(u, J), i) = IF i \in gone THEN {} ELSE getContainer(u, i)
      BY <2>1, PickedWindows
    <3> QED BY <2>1, <3>1
  <2>3. \A i \in Cids : getContainer(W.vec, i) = getContainer(u, i)
    BY DEF u
  <2> QED BY <2>1, <2>2, <2>3
<1>3. Shut(W, gone) = [vec |-> v, shows |-> f]
  BY DEF Shut
<1> HIDE DEF v, f
<1>4. Shut(W, gone) \in Panes /\ Shut(W, gone).vec = v /\ Shut(W, gone).shows = f
  BY <1>1, <1>2, <1>3 DEF Panes, Neat
<1>5. \A i \in Cids : getContainer(v, i) \subseteq getContainer(W.vec, i)
  BY <1>2
<1>6. ASSUME Tells(W.vec, W.shows) PROVE Tells(v, f)
  <2>1. \A i \in Cids : getContainer(v, i) = {f[i]} \ {Nowhere}
    BY <1>1, <1>2, <1>6 DEF Tells
  <2>2. \A c \in Boxes : \A i, j \in OpenIn(v, c) : i = j
    BY <1>2, <1>5, <1>6, StillOnce DEF Tells
  <2> QED BY <2>1, <2>2 DEF Tells
<1> QED BY <1>2, <1>4, <1>5, <1>6 DEF Closes

LEMMA AutoCloses ==
  ASSUME NEW W \in Panes, Neat(W.vec), NEW par, NEW C
  PROVE  LET V == autoCloseContainers(par, W, C)
         IN  /\ Closes(W, V)
             /\ \A i \in Cids : \A d \in getContainer(V.vec, i), c \in C : c \notin Around(par, d)
<1> DEFINE gone == {i \in Cids : \E d \in getContainer(W.vec, i), c \in C : c \in Around(par, d) \/ Removed(par, d)}
           V == Shut(W, gone)
<1>1. autoCloseContainers(par, W, C) = V
  BY DEF autoCloseContainers
<1>2. \A i \in Cids \ gone : \A d \in getContainer(W.vec, i), c \in C : c \notin Around(par, d)
  OBVIOUS
<1> HIDE DEF gone
<1>3. Closes(W, V) /\ \A i \in Cids : i \in gone => getContainer(V.vec, i) = {}
  BY ShutCloses
<1> HIDE DEF V
<1>4. ASSUME NEW i \in Cids, NEW d \in getContainer(V.vec, i), NEW c \in C PROVE c \notin Around(par, d)
  <2>1. i \notin gone /\ d \in getContainer(W.vec, i)
    BY <1>3 DEF Closes
  <2> QED BY <1>2, <2>1
<1> QED BY <1>1, <1>3, <1>4

\* Told of what was moved, a player closes it and what is in it, unless it is still at hand.
LEMMA PostRemoveCloses ==
  ASSUME NEW W \in Panes, Neat(W.vec), NEW par, Grounded(par), NEW p \in People, NEW c \in Boxes
  PROVE  LET V == PostRemove(par, p, W, c)
         IN  /\ Closes(W, V)
             /\ AtHand(par, at, p, c) \/ \A i \in Cids : \A d \in getContainer(V.vec, i) : c \notin Around(par, d)
<1> DEFINE o == Outermost(par, c)
           h == par[o]
           V == PostRemove(par, p, W, c)
<1>1. CASE V = autoCloseContainers(par, W, {c})
  <2>1. /\ Closes(W, V)
        /\ \A i \in Cids : \A d \in getContainer(V.vec, i), x \in {c} : x \notin Around(par, d)
    <3> HIDE DEF V
    <3> QED BY <1>1, AutoCloses
  <2> QED BY <2>1
<1>2. CASE V # autoCloseContainers(par, W, {c})
  <2>1. /\ V = onSendContainer(W, c) /\ InReach(par, p, c)
        /\ h = p \/ (h \notin People /\ (o \in Chests => o = Chest[p]))
    BY <1>2 DEF PostRemove
  <2>2. o \in Chests => par[o] \in Spots \cup {Nowhere}
    BY DEF Grounded
  <2>3. h = p => o \notin Chests
    BY <2>2, WindowsAssumption
  <2>4. AtHand(par, at, p, c)
    <3>1. Holder(par, c) = h
      BY DEF Holder
    <3> QED BY <2>1, <2>3, <3>1 DEF AtHand, InReach
  <2>5. Closes(W, V)
    BY <2>1, SentCloses
  <2> QED BY <2>4, <2>5
<1> QED BY <1>1, <1>2

-----------------------------------------------------------------------------
(* The invariant, and that every step keeps it.                             *)

WindowsKept ==
  /\ Grounded(parent) /\ at \in [People -> Spots]
  /\ containerVec \in [People -> Vecs] /\ windows \in [People -> Screens]
  /\ doubled \subseteq People /\ moves \in 0..MaxMoves
  /\ \A p \in People : /\ Fits(p, parent, at, Open(p))
                       /\ p \in doubled \/ Tells(containerVec[p], windows[p])

LEMMA OpenIs ==
  ASSUME WindowsKept, NEW p \in People
  PROVE  /\ Open(p) \in Panes /\ Neat(Open(p).vec) /\ Fits(p, parent, at, Open(p))
         /\ Open(p).vec = containerVec[p] /\ Open(p).shows = windows[p]
BY DEF WindowsKept, Open, Fits

LEMMA KeptAfter ==
  ASSUME WindowsKept, NEW ws, \A q \in People : ws[q] \in Panes /\ Fits(q, parent', at', ws[q]),
         Grounded(parent'), at' \in [People -> Spots], moves' \in 0..MaxMoves, doubled' \subseteq People,
         containerVec' = [q \in People |-> ws[q].vec], windows' = [q \in People |-> ws[q].shows],
         \A q \in People : q \in doubled' \/ Tells(ws[q].vec, ws[q].shows)
  PROVE  WindowsKept'
<1>1. \A q \in People : containerVec'[q] = ws[q].vec /\ windows'[q] = ws[q].shows
  OBVIOUS
<1>2. \A q \in People : Open(q)' = ws[q]
  BY <1>1 DEF Open, Panes
<1>3. containerVec' \in [People -> Vecs] /\ windows' \in [People -> Screens]
  BY DEF Panes
<1>4. Grounded(parent)'
  BY DEF Grounded, Parents, Around
<1>5. \A q \in People : Fits(q, parent, at, Open(q))'
  <2>1. \A q \in People : Fits(q, parent, at, Open(q))' <=> Fits(q, parent', at', Open(q)')
    BY DEF Fits, AtHand, Outermost, Around, Near, getContainer, Neat
  <2> QED BY <1>2, <2>1
<1>6. \A q \in People : q \in doubled' \/ Tells(containerVec[q], windows[q])'
  <2>1. \A q \in People : Tells(containerVec[q], windows[q])' <=> Tells(containerVec'[q], windows'[q])
    BY DEF Tells, getContainer, OpenIn
  <2> QED BY <1>1, <2>1
<1> QED BY <1>3, <1>4, <1>5, <1>6 DEF WindowsKept

\* One player's windows change, and perhaps what is where, but nothing that others look at.
LEMMA OneShows ==
  ASSUME WindowsKept, NEW p \in People, NEW W, Shows(p, W),
         Grounded(parent'), at' \in [People -> Spots], moves' \in 0..MaxMoves,
         Fits(p, parent', at', W),
         doubled \subseteq doubled', doubled' \subseteq doubled \cup {p},
         p \in doubled' \/ Tells(W.vec, W.shows),
         \A q \in People \ {p}, d \in Boxes : AtHand(parent, at, q, d) => AtHand(parent', at', q, d)
  PROVE  WindowsKept'
<1> DEFINE ws == [q \in People |-> IF q = p THEN W ELSE Open(q)]
<1>1. ws[p] = W /\ \A q \in People \ {p} : ws[q] = Open(q)
  OBVIOUS
<1>2. /\ containerVec' = [containerVec EXCEPT ![p] = W.vec] /\ windows' = [windows EXCEPT ![p] = W.shows]
      /\ containerVec \in [People -> Vecs] /\ windows \in [People -> Screens]
  BY DEF Shows, WindowsKept
<1>3. containerVec' = [q \in People |-> ws[q].vec] /\ windows' = [q \in People |-> ws[q].shows]
  <2>1. \A q \in People \ {p} : ws[q].vec = containerVec[q] /\ ws[q].shows = windows[q]
    BY <1>1, OpenIs
  <2> HIDE DEF ws
  <2> QED BY <1>1, <1>2, <2>1
<1> HIDE DEF ws
<1>4. ASSUME NEW q \in People \ {p}
      PROVE  /\ ws[q] \in Panes /\ Fits(q, parent', at', ws[q])
             /\ q \in doubled' \/ Tells(ws[q].vec, ws[q].shows)
  <2>1. /\ Open(q) \in Panes /\ Neat(Open(q).vec) /\ Fits(q, parent, at, Open(q))
        /\ q \in doubled \/ Tells(Open(q).vec, Open(q).shows)
    BY OpenIs DEF WindowsKept
  <2>2. \A i \in Cids : getContainer(Open(q).vec, i) \subseteq Boxes
    BY <2>1, OpenContainers
  <2>3. Fits(q, parent', at', Open(q))
    BY <2>1, <2>2 DEF Fits
  <2> QED BY <1>1, <2>1, <2>3
<1>5. \A q \in People : ws[q] \in Panes /\ Fits(q, parent', at', ws[q])
  BY <1>1, <1>4 DEF Fits
<1>6. \A q \in People : q \in doubled' \/ Tells(ws[q].vec, ws[q].shows)
  BY <1>1, <1>4
<1>7. doubled' \subseteq People
  BY DEF WindowsKept
<1> QED BY <1>3, <1>5, <1>6, <1>7, KeptAfter

LEMMA RestsKept == ASSUME WindowsKept, UNCHANGED windowVars PROVE WindowsKept'
<1> DEFINE ws == [q \in People |-> Open(q)]
<1>1. /\ parent' = parent /\ at' = at /\ moves' = moves /\ doubled' = doubled
      /\ containerVec' = containerVec /\ windows' = windows
  BY DEF windowVars
<1>2. \A q \in People : ws[q].vec = containerVec[q] /\ ws[q].shows = windows[q]
  BY OpenIs
<1>3. \A q \in People : ws[q] \in Panes /\ Fits(q, parent, at, ws[q]) /\ (q \in doubled \/ Tells(ws[q].vec, ws[q].shows))
  <2>1. \A q \in People : ws[q] = Open(q)
    OBVIOUS
  <2> HIDE DEF ws
  <2> QED BY <1>2, <2>1, OpenIs DEF WindowsKept
<1> HIDE DEF ws
<1>4. containerVec' = [q \in People |-> ws[q].vec] /\ windows' = [q \in People |-> ws[q].shows]
  BY <1>1, <1>2 DEF WindowsKept
<1>5. /\ Grounded(parent') /\ at' \in [People -> Spots] /\ moves' \in 0..MaxMoves /\ doubled' \subseteq People
      /\ \A q \in People : ws[q] \in Panes /\ Fits(q, parent', at', ws[q])
      /\ \A q \in People : q \in doubled' \/ Tells(ws[q].vec, ws[q].shows)
  BY <1>1, <1>3 DEF WindowsKept
<1> QED BY <1>4, <1>5, KeptAfter

\* Who has nothing doubled has each container in one window.
LEMMA DoublesFacts ==
  ASSUME doubled \subseteq People, NEW p \in People, NEW vec, Neat(vec), Doubles(p, vec)
  PROVE  /\ doubled \subseteq doubled' /\ doubled' \subseteq doubled \cup {p}
         /\ p \in doubled' \/ \A c \in Boxes : \A i, j \in OpenIn(vec, c) : i = j
<1>1. ASSUME NEW c \in Boxes, ~ (Cardinality(OpenIn(vec, c)) > 1), NEW i \in OpenIn(vec, c), NEW j \in OpenIn(vec, c), i # j
      PROVE  FALSE
  <2>1. IsFiniteSet(OpenIn(vec, c)) /\ {i, j} \subseteq OpenIn(vec, c)
    BY OpenContainers
  <2>2. Cardinality({i, j}) = 2
    <3>1. IsFiniteSet({i}) /\ Cardinality({i}) = 1 /\ j \notin {i}
      BY <1>1, FS_Singleton
    <3>2. Cardinality({i} \cup {j}) = 1 + 1
      BY <3>1, FS_AddElement
    <3>3. {i} \cup {j} = {i, j}
      OBVIOUS
    <3> QED BY <3>2, <3>3
  <2>3. Cardinality({i, j}) <= Cardinality(OpenIn(vec, c)) /\ Cardinality(OpenIn(vec, c)) \in Nat
    BY <2>1, FS_Subset, FS_CardinalityType
  <2> QED BY <1>1, <2>2, <2>3
<1>2. CASE \E c \in Boxes : Cardinality(OpenIn(vec, c)) > 1
  BY <1>2 DEF Doubles
<1>3. CASE ~ \E c \in Boxes : Cardinality(OpenIn(vec, c)) > 1
  BY <1>1, <1>3 DEF Doubles
<1> QED BY <1>2, <1>3

\* A container at hand is put into a window.
LEMMA OpensWindow ==
  ASSUME NEW p \in People, NEW par, NEW ats, NEW W, Fits(p, par, ats, W), NEW c \in Boxes, AtHand(par, ats, p, c),
         NEW cid \in Cids, NEW V, V.vec = addContainer(W.vec, cid, c), V \in Panes,
         V.shows = [W.shows EXCEPT ![cid] = c],
         doubled \subseteq People, p \in doubled \/ Tells(W.vec, W.shows), Doubles(p, V.vec)
  PROVE  /\ Fits(p, par, ats, V)
         /\ doubled \subseteq doubled' /\ doubled' \subseteq doubled \cup {p}
         /\ p \in doubled' \/ Tells(V.vec, V.shows)
<1>1. Neat(V.vec) /\ \A i \in Cids : getContainer(V.vec, i) = IF i = cid THEN {c} ELSE getContainer(W.vec, i)
  <2> DEFINE u == W.vec
  <2>1. Neat(u) /\ V.vec = addContainer(u, cid, c)
    BY DEF Fits
  <2> HIDE DEF u
  <2>2. /\ Neat(addContainer(u, cid, c))
        /\ \A i \in Cids : getContainer(addContainer(u, cid, c), i) = IF i = cid THEN {c} ELSE getContainer(u, i)
    BY <2>1, AddedWindow
  <2> QED BY <2>1, <2>2 DEF u
<1>2. Fits(p, par, ats, V)
  BY <1>1 DEF Fits
<1>3. \A i \in Cids : V.shows[i] = IF i = cid THEN c ELSE W.shows[i]
  BY DEF Fits, Panes, Screens
<1>4. c # Nowhere
  BY WindowsAssumption
<1>5. /\ doubled \subseteq doubled' /\ doubled' \subseteq doubled \cup {p}
      /\ p \in doubled' \/ \A d \in Boxes : \A i, j \in OpenIn(V.vec, d) : i = j
  BY <1>1, DoublesFacts
<1>6. ASSUME p \notin doubled' PROVE Tells(V.vec, V.shows)
  <2>1. Tells(W.vec, W.shows)
    BY <1>5, <1>6
  <2>2. \A i \in Cids : getContainer(V.vec, i) = {V.shows[i]} \ {Nowhere}
    BY <1>1, <1>3, <1>4, <2>1 DEF Tells
  <2> QED BY <1>5, <1>6, <2>2 DEF Tells
<1> QED BY <1>2, <1>5, <1>6

\* Or taken out of the first that has it.
LEMMA ClosesFirst ==
  ASSUME NEW W \in Panes, Neat(W.vec), NEW c \in Boxes, OpenIn(W.vec, c) # {}
  PROVE  LET first == W.vec[CHOOSE k \in DOMAIN W.vec : W.vec[k][2] = c /\ \A j \in 1..(k - 1) : W.vec[j][2] # c][1]
         IN  Closes(W, [vec |-> closeContainer(W.vec, first),
                        shows |-> [i \in Cids |-> IF i \in OpenIn(W.vec, c) THEN Nowhere ELSE W.shows[i]]])
<1> DEFINE vec == W.vec
           K == {k \in DOMAIN vec : vec[k][2] = c}
           m == CHOOSE k \in DOMAIN vec : vec[k][2] = c /\ \A j \in 1..(k - 1) : vec[j][2] # c
           first == vec[m][1]
           f == [i \in Cids |-> IF i \in OpenIn(vec, c) THEN Nowhere ELSE W.shows[i]]
           v == closeContainer(vec, first)
<1>1. m \in DOMAIN vec /\ vec[m][2] = c
  <2>1. DOMAIN vec = 1..Len(vec) /\ Len(vec) \in Nat
    BY LenProperties DEF Neat, Vecs
  <2>2. K \in SUBSET Nat /\ K # {}
    BY <2>1 DEF OpenIn
  <2>3. Min(K) \in K /\ \A y \in K : Min(K) <= y
    <3> HIDE DEF K
    <3> QED BY <2>2, SmallestIsOne
  <2> DEFINE k == Min(K)
  <2>4. k \in DOMAIN vec /\ vec[k][2] = c /\ \A y \in DOMAIN vec : vec[y][2] = c => k <= y
    BY <2>3
  <2> HIDE DEF k
  <2>5. \A j \in 1..(k - 1) : j \in DOMAIN vec /\ ~ (k <= j)
    BY <2>1, <2>4
  <2>6. \A j \in 1..(k - 1) : vec[j][2] # c
    BY <2>4, <2>5
  <2> QED BY <2>4, <2>6
<1> HIDE DEF m
<1>2. first \in Cids /\ first \in OpenIn(vec, c)
  BY <1>1, OpenContainers DEF OpenIn
<1> HIDE DEF first
<1>3. Neat(v) /\ \A i \in Cids : getContainer(v, i) = IF i = first THEN {} ELSE getContainer(vec, i)
  BY <1>2, ClosedWindow
<1> HIDE DEF v
<1>4. f \in Screens /\ \A i \in Cids : f[i] = IF i \in OpenIn(vec, c) THEN Nowhere ELSE W.shows[i]
  BY DEF Panes, Screens
<1> HIDE DEF f
<1>5. ASSUME Tells(vec, W.shows) PROVE Tells(v, f)
  <2>1. \A i \in OpenIn(vec, c) : i = first
    BY <1>2, <1>5 DEF Tells
  <2>2. \A i \in Cids : getContainer(v, i) = {f[i]} \ {Nowhere}
    BY <1>2, <1>3, <1>4, <1>5, <2>1 DEF Tells
  <2>3. \A d \in Boxes : \A i, j \in OpenIn(v, d) : i = j
    BY <1>3, <1>5, StillOnce DEF Tells
  <2> QED BY <2>2, <2>3 DEF Tells
<1>6. Closes(W, [vec |-> v, shows |-> f])
  <2>1. [vec |-> v, shows |-> f] \in Panes
    BY <1>3, <1>4 DEF Panes, Neat
  <2>2. \A i \in Cids : getContainer(v, i) \subseteq getContainer(vec, i)
    BY <1>3
  <2> QED BY <1>3, <1>5, <2>1, <2>2 DEF Closes
<1> QED BY <1>6 DEF v, f, first, m

\* What is closed fits as before.
LEMMA ClosedFits ==
  ASSUME NEW p, NEW par, NEW ats, NEW W, Fits(p, par, ats, W), NEW V, Closes(W, V)
  PROVE  Fits(p, par, ats, V)
BY DEF Fits, Closes

LEMMA ToggleFits ==
  ASSUME WindowsKept, NEW p \in People, NEW par, Fits(p, par, at, Open(p)), NEW c \in Boxes, AtHand(par, at, p, c),
         NEW cid \in Cids, Toggle(p, c, cid)
  PROVE  \E W : /\ Shows(p, W) /\ Fits(p, par, at, W)
                /\ doubled \subseteq doubled' /\ doubled' \subseteq doubled \cup {p}
                /\ p \in doubled' \/ Tells(W.vec, W.shows)
<1> DEFINE U == Open(p)
<1>1. /\ U \in Panes /\ Neat(U.vec) /\ U.vec = containerVec[p] /\ U.shows = windows[p]
      /\ doubled \subseteq People /\ (p \in doubled \/ Tells(U.vec, U.shows))
  BY OpenIs DEF WindowsKept
<1>2. CASE OpenIn(containerVec[p], c) # {}
  <2> DEFINE first == U.vec[CHOOSE k \in DOMAIN U.vec : U.vec[k][2] = c /\ \A j \in 1..(k - 1) : U.vec[j][2] # c][1]
             W == [vec |-> closeContainer(U.vec, first),
                   shows |-> [i \in Cids |-> IF i \in OpenIn(U.vec, c) THEN Nowhere ELSE U.shows[i]]]
  <2>1. Shows(p, W) /\ doubled' = doubled
    <3> HIDE DEF U
    <3> QED BY <1>1, <1>2 DEF Toggle
  <2>2. Closes(U, W)
    <3> HIDE DEF U
    <3> QED BY <1>1, <1>2, ClosesFirst
  <2> HIDE DEF W, U
  <2>3. Fits(p, par, at, W)
    BY <2>2, ClosedFits DEF U
  <2>4. p \in doubled' \/ Tells(W.vec, W.shows)
    BY <1>1, <2>1, <2>2 DEF Closes
  <2> QED BY <2>1, <2>3, <2>4
<1>3. CASE OpenIn(containerVec[p], c) = {}
  <2> DEFINE added == addContainer(U.vec, cid, c)
             W == onSendContainer([vec |-> added, shows |-> U.shows], c)
             f == [i \in Cids |-> IF i \in OpenIn(added, c) THEN c ELSE U.shows[i]]
  <2>1. Shows(p, W) /\ Doubles(p, added)
    <3> HIDE DEF U
    <3> QED BY <1>1, <1>3 DEF Toggle
  <2>2. Neat(added) /\ \A i \in Cids : getContainer(added, i) = IF i = cid THEN {c} ELSE getContainer(U.vec, i)
    BY <1>1, AddedWindow
  <2>3. W = [vec |-> added, shows |-> f]
    BY DEF onSendContainer
  <2> HIDE DEF W, added, U
  <2>4. OpenIn(added, c) = {cid}
    <3>1. \A i \in Cids : c \notin getContainer(U.vec, i)
      BY <1>1, <1>3, OpenContainers
    <3>2. OpenIn(added, c) = {i \in Cids : c \in getContainer(added, i)}
      BY <2>2, OpenContainers
    <3> QED BY <2>2, <3>1, <3>2
  <2>5. f \in Screens /\ f = [U.shows EXCEPT ![cid] = c]
    BY <1>1, <2>4 DEF Panes, Screens
  <2> HIDE DEF f
  <2>6. W \in Panes /\ W.vec = added /\ W.shows = f
    BY <2>2, <2>3, <2>5 DEF Panes, Neat
  <2>7. Fits(p, par, at, U)
    BY DEF U
  <2>8. W.vec = addContainer(U.vec, cid, c)
    BY <2>6 DEF added
  <2>9. /\ Fits(p, par, at, W)
        /\ doubled \subseteq doubled' /\ doubled' \subseteq doubled \cup {p}
        /\ p \in doubled' \/ Tells(W.vec, W.shows)
    BY <1>1, <2>1, <2>5, <2>6, <2>7, <2>8, OpensWindow
  <2> QED BY <2>1, <2>9
<1> QED BY <1>2, <1>3

-----------------------------------------------------------------------------
(* Moving a container, and its removal.                                     *)

\* What is at hand stays so while neither its outermost container nor who holds it changes.
LEMMA AtHandAlike ==
  ASSUME NEW par, NEW new, NEW ats, NEW p, NEW d, NEW e,
         Outermost(new, e) = Outermost(par, d), Holder(new, e) = Holder(par, d), AtHand(par, ats, p, d)
  PROVE  AtHand(new, ats, p, e)
BY DEF AtHand, Holder

\* Whoever has something at hand is told of what happens in its place.
LEMMA AtHandIsTold ==
  ASSUME NEW par, Grounded(par), NEW new, NEW ats, NEW p \in People, NEW c \in Boxes, AtHand(par, ats, p, c),
         par[c] \in Boxes => Holder(new, par[c]) = Holder(par, par[c])
  PROVE  p \in ToldOf(new, par[c])
<1>1. Holder(par, c) # Nowhere /\ (Holder(par, c) \in People => Holder(par, c) = p)
  BY DEF AtHand, Holder
<1>2. CASE par[c] \in Boxes
  <2>1. par[c] \in Around(par, c)
    BY <1>2, AroundIsClosed
  <2>2. Outermost(par, par[c]) = Outermost(par, c)
    BY <2>1, OutermostIs
  <2>3. Holder(new, par[c]) = Holder(par, c)
    BY <1>2, <2>2 DEF Holder
  <2> QED BY <1>1, <1>2, <2>3 DEF ToldOf
<1>3. CASE par[c] \notin Boxes
  <2>1. Holder(par, c) = par[c]
    BY <1>3, OutermostIs DEF Holder
  <2> QED BY <1>1, <1>3, <2>1 DEF ToldOf
<1> QED BY <1>2, <1>3

\* So a player who is not told had nothing in it open, and one who is has closed what is gone.
LEMMA PostRemoveFits ==
  ASSUME WindowsKept, NEW p \in People, NEW c \in Boxes, c \notin Chests,
         NEW to \in Spots \cup People \cup Boxes \cup {Nowhere}, to \in Boxes => c \notin Around(parent, to)
  PROVE  LET new == [parent EXCEPT ![c] = to]
             V == IF p \in ToldOf(new, parent[c]) THEN PostRemove(new, p, Open(p), c) ELSE Open(p)
         IN  Closes(Open(p), V) /\ Fits(p, new, at, V)
<1> DEFINE new == [parent EXCEPT ![c] = to]
           V == IF p \in ToldOf(new, parent[c]) THEN PostRemove(new, p, Open(p), c) ELSE Open(p)
<1>1. Grounded(parent) /\ Open(p) \in Panes /\ Neat(Open(p).vec) /\ Fits(p, parent, at, Open(p))
  BY OpenIs DEF WindowsKept
<1>2. /\ Grounded(new)
      /\ \A d \in Boxes : c \in Around(new, d) <=> c \in Around(parent, d)
      /\ \A d \in Boxes : c \notin Around(parent, d) =>
           Outermost(new, d) = Outermost(parent, d) /\ Holder(new, d) = Holder(parent, d)
      /\ \A d \in Boxes : c \in Around(parent, d) => Outermost(new, d) = Outermost(new, c)
  BY <1>1, AroundMoved
<1> HIDE DEF new
<1>3. /\ Closes(Open(p), V)
      /\ \/ AtHand(new, at, p, c)
         \/ p \notin ToldOf(new, parent[c])
         \/ \A i \in Cids : \A d \in getContainer(V.vec, i) : c \notin Around(new, d)
  <2> DEFINE W == Open(p)
             U == PostRemove(new, p, W, c)
  <2>1. W \in Panes /\ Neat(W.vec)
    BY <1>1
  <2> HIDE DEF W
  <2>2. /\ Closes(W, U)
        /\ AtHand(new, at, p, c) \/ \A i \in Cids : \A d \in getContainer(U.vec, i) : c \notin Around(new, d)
    BY <1>2, <2>1, PostRemoveCloses
  <2>3. Closes(W, W)
    BY <2>1, NothingCloses
  <2> HIDE DEF U
  <2>4. CASE p \in ToldOf(new, parent[c])
    <3>1. V = U
      BY <2>4 DEF U, W
    <3> HIDE DEF V
    <3> QED BY <2>2, <3>1 DEF W
  <2>5. CASE p \notin ToldOf(new, parent[c])
    <3>1. V = W
      BY <2>5 DEF W
    <3> HIDE DEF V
    <3> QED BY <2>3, <2>5, <3>1 DEF W
  <2> QED BY <2>4, <2>5
<1> HIDE DEF V
<1>4. ASSUME NEW d \in Boxes, AtHand(parent, at, p, d), c \in Around(parent, d) PROVE p \in ToldOf(new, parent[c])
  <2>1. Outermost(parent, c) = Outermost(parent, d)
    BY <1>1, <1>4, OutermostIs
  <2>2. AtHand(parent, at, p, c)
    BY <1>4, <2>1, AtHandAlike DEF Holder
  <2>3. parent[c] \in Boxes => Holder(new, parent[c]) = Holder(parent, parent[c])
    BY <1>1, <1>2, NotInItself
  <2> QED BY <1>1, <2>2, <2>3, AtHandIsTold
<1>5. ASSUME NEW i \in Cids, NEW d \in getContainer(V.vec, i) PROVE AtHand(new, at, p, d)
  <2>1. d \in Boxes /\ AtHand(parent, at, p, d)
    BY <1>1, <1>3, OpenContainers DEF Closes, Fits
  <2>2. CASE c \notin Around(parent, d)
    BY <1>2, <2>1, <2>2, AtHandAlike
  <2>3. CASE c \in Around(parent, d)
    <3>1. AtHand(new, at, p, c)
      BY <1>2, <1>3, <1>4, <2>1, <2>3
    <3>2. Outermost(new, d) = Outermost(new, c)
      BY <1>2, <2>1, <2>3
    <3> QED BY <3>1, <3>2, AtHandAlike DEF Holder
  <2> QED BY <2>2, <2>3
<1>6. Closes(Open(p), V) /\ Fits(p, new, at, V)
  BY <1>3, <1>5 DEF Fits, Closes
<1> QED BY <1>6 DEF V, new

LEMMA MovedKeeps ==
  ASSUME WindowsKept, NEW c \in Boxes, c \notin Chests,
         NEW to \in Spots \cup People \cup Boxes \cup {Nowhere}, to \in Boxes => c \notin Around(parent, to),
         Moved([parent EXCEPT ![c] = to], c), UNCHANGED <<at, doubled>>, moves' \in 0..MaxMoves
  PROVE  WindowsKept'
<1> DEFINE new == [parent EXCEPT ![c] = to]
           V(p) == IF p \in ToldOf(new, parent[c]) THEN PostRemove(new, p, Open(p), c) ELSE Open(p)
           sent(p) == new[c] # Nowhere /\ p \in ToldOf(new, new[c])
           ws == [p \in People |-> IF sent(p) THEN onSendContainer(V(p), c) ELSE V(p)]
<1>1. /\ parent' = new
      /\ containerVec' = [p \in People |-> ws[p].vec] /\ windows' = [p \in People |-> ws[p].shows]
  BY DEF Moved
<1>2. Grounded(new)
  BY AroundMoved DEF WindowsKept
<1>3. ASSUME NEW p \in People PROVE Closes(Open(p), V(p)) /\ Fits(p, new, at, V(p))
  BY PostRemoveFits
<1>4. ASSUME NEW p \in People PROVE Closes(Open(p), ws[p]) /\ Fits(p, new, at, ws[p])
  <2> DEFINE W == V(p)
  <2>1. W \in Panes /\ Neat(W.vec) /\ Closes(Open(p), W) /\ Fits(p, new, at, W)
    BY <1>3 DEF Fits
  <2>2. ws[p] = IF sent(p) THEN onSendContainer(W, c) ELSE W
    OBVIOUS
  <2> HIDE DEF W, ws, sent, new
  <2>3. CASE sent(p)
    <3>1. Closes(W, onSendContainer(W, c))
      BY <2>1, SentCloses
    <3>2. ws[p] = onSendContainer(W, c)
      BY <2>2, <2>3
    <3>3. Closes(W, ws[p])
      BY <3>1, <3>2
    <3> QED BY <2>1, <3>3, ClosesOn, ClosedFits
  <2>4. CASE ~ sent(p)
    <3>1. ws[p] = W
      BY <2>2, <2>4
    <3> HIDE DEF W
    <3> QED BY <2>1, <3>1
  <2> QED BY <2>3, <2>4
<1> HIDE DEF ws, new, V
<1>5. \A q \in People : ws[q] \in Panes /\ Fits(q, parent', at', ws[q])
  BY <1>1, <1>4 DEF Fits
<1>6. \A q \in People : q \in doubled' \/ Tells(ws[q].vec, ws[q].shows)
  BY <1>4, OpenIs DEF WindowsKept, Closes
<1>7. Grounded(parent') /\ at' \in [People -> Spots] /\ doubled' \subseteq People
  BY <1>1, <1>2 DEF WindowsKept
<1> QED BY <1>1, <1>5, <1>6, <1>7, KeptAfter

LEMMA MoveContainerKeeps ==
  ASSUME WindowsKept, NEW c \in Boxes, NEW to \in Spots \cup People \cup Boxes, MoveContainer(c, to)
  PROVE  WindowsKept'
<1>1. moves' \in 0..MaxMoves
  BY WindowsAssumption DEF MoveContainer, Happens, WindowsKept
<1> QED BY <1>1, MovedKeeps DEF MoveContainer

LEMMA RemoveContainerKeeps ==
  ASSUME WindowsKept, NEW c \in Boxes, RemoveContainer(c)
  PROVE  WindowsKept'
<1>1. moves' \in 0..MaxMoves
  BY WindowsAssumption DEF RemoveContainer, Happens, WindowsKept
<1>2. Nowhere \notin Boxes
  BY WindowsAssumption
<1> QED BY <1>1, <1>2, MovedKeeps DEF RemoveContainer

-----------------------------------------------------------------------------
(* Opening and closing.                                                     *)

LEMMA NearFacts ==
  /\ \A s \in Spots : Near(s, s)
  /\ \A s, t \in Spots : Near(s, t) => Near(t, s)
<1>1. \A s \in Spots : s \in Int
  BY WindowsAssumption
<1> QED BY <1>1 DEF Near

LEMMA UseContainerKeeps ==
  ASSUME WindowsKept, NEW p \in People, NEW c \in Boxes, NEW cid \in Cids, UseContainer(p, c, cid)
  PROVE  WindowsKept'
<1>1. /\ Grounded(parent) /\ at \in [People -> Spots] /\ Fits(p, parent, at, Open(p))
      /\ Neat(containerVec[p]) /\ Open(p).vec = containerVec[p]
  BY OpenIs DEF WindowsKept
<1>2. AtHand(parent, at, p, c)
  <2>1. CASE parent[c] = p
    <3>1. Outermost(parent, c) = c /\ c \notin Chests /\ p # Nowhere
      BY <1>1, <2>1, OutermostIs, WindowsAssumption DEF Grounded
    <3> QED BY <1>1, <2>1, <3>1, NearFacts DEF AtHand
  <2>2. CASE parent[c] \in Spots /\ Near(parent[c], at[p]) /\ c \notin Chests
    <3>1. Outermost(parent, c) = c /\ parent[c] \notin People /\ parent[c] # Nowhere
      BY <1>1, <2>2, OutermostIs, WindowsAssumption
    <3> QED BY <2>2, <3>1 DEF AtHand
  <2>3. CASE parent[c] \in Boxes /\ OpenIn(containerVec[p], parent[c]) # {}
    <3>1. PICK i \in Cids : parent[c] \in getContainer(containerVec[p], i)
      BY <1>1, <2>3, OpenContainers
    <3>2. AtHand(parent, at, p, parent[c])
      BY <1>1, <3>1 DEF Fits
    <3>3. parent[c] \in Around(parent, c)
      BY <2>3, AroundIsClosed
    <3>4. Outermost(parent, parent[c]) = Outermost(parent, c)
      BY <1>1, <3>3, OutermostIs
    <3> QED BY <3>2, <3>4, AtHandAlike DEF Holder
  <2> QED BY <2>1, <2>2, <2>3 DEF UseContainer, Usable
<1>3. PICK W : /\ Shows(p, W) /\ Fits(p, parent, at, W)
               /\ doubled \subseteq doubled' /\ doubled' \subseteq doubled \cup {p}
               /\ p \in doubled' \/ Tells(W.vec, W.shows)
  BY <1>1, <1>2, ToggleFits DEF UseContainer
<1>4. parent' = parent /\ at' = at /\ moves' \in 0..MaxMoves
  BY WindowsAssumption DEF UseContainer, Happens, WindowsKept
<1> QED BY <1>1, <1>3, <1>4, OneShows

\* His depot comes to him: what he has open in it is there, and nobody else had any of it open.
LEMMA UseLockerKeeps ==
  ASSUME WindowsKept, NEW p \in People, NEW s \in Lockers, NEW cid \in Cids, UseLocker(p, s, cid)
  PROVE  WindowsKept'
<1> DEFINE c == Chest[p]
           new == [parent EXCEPT ![c] = s]
<1>1. /\ Grounded(parent) /\ at \in [People -> Spots] /\ Fits(p, parent, at, Open(p))
      /\ Neat(Open(p).vec)
  BY OpenIs DEF WindowsKept
<1>2. c \in Chests /\ c \in Boxes /\ s \in Spots /\ s \notin Boxes /\ s \notin People /\ s # Nowhere
  BY WindowsAssumption
<1>3. /\ Grounded(new)
      /\ \A d \in Boxes : c \in Around(new, d) <=> c \in Around(parent, d)
      /\ \A d \in Boxes : c \notin Around(parent, d) =>
           Outermost(new, d) = Outermost(parent, d) /\ Holder(new, d) = Holder(parent, d)
      /\ \A d \in Boxes : c \in Around(parent, d) => Outermost(new, d) = Outermost(new, c)
  <2> HIDE DEF c
  <2>1. s \in Spots \cup People \cup Boxes \cup {Nowhere} /\ (s \in Boxes => c \notin Around(parent, s)) /\ s \in Spots \cup {Nowhere}
    BY <1>2
  <2>2. LET y == [parent EXCEPT ![c] = s]
        IN  /\ Grounded(y)
            /\ \A d \in Boxes : c \in Around(y, d) <=> c \in Around(parent, d)
            /\ \A d \in Boxes : c \notin Around(parent, d) =>
                 Outermost(y, d) = Outermost(parent, d) /\ Holder(y, d) = Holder(parent, d)
            /\ \A d \in Boxes : c \in Around(parent, d) => Outermost(y, d) = Outermost(y, c)
    <3>1. c \in Boxes
      BY <1>2
    <3>2. Grounded(parent)
      BY <1>1
    <3> QED BY <3>1, <3>2, <2>1, AroundMoved
  <2> QED BY <2>2
<1>4. new[c] = s
  BY <1>1, <1>2 DEF Grounded, Parents
<1> HIDE DEF new
<1>5. Outermost(new, c) = c
  BY <1>2, <1>3, <1>4, OutermostIs
<1>6. AtHand(new, at, p, c)
  BY <1>2, <1>4, <1>5 DEF AtHand, UseLocker
<1>7. ASSUME NEW d \in Boxes, AtHand(parent, at, p, d) PROVE AtHand(new, at, p, d)
  <2>1. CASE c \notin Around(parent, d)
    BY <1>3, <1>7, <2>1, AtHandAlike
  <2>2. CASE c \in Around(parent, d)
    BY <1>3, <1>6, <2>2, AtHandAlike DEF Holder
  <2> QED BY <2>1, <2>2
<1>8. ASSUME NEW q \in People \ {p}, NEW d \in Boxes, AtHand(parent, at, q, d) PROVE AtHand(new, at, q, d)
  <2>1. CASE c \notin Around(parent, d)
    BY <1>3, <1>8, <2>1, AtHandAlike
  <2>2. CASE c \in Around(parent, d)
    <3>1. parent[c] \notin Boxes
      BY <1>1, <1>2, WindowsAssumption DEF Grounded
    <3>2. Outermost(parent, d) = c
      BY <1>1, <1>2, <2>2, <3>1, OutermostIs
    <3>3. c = Chest[q]
      BY <1>2, <1>8, <3>2 DEF AtHand
    <3> QED BY <3>3, WindowsAssumption
  <2> QED BY <2>1, <2>2
<1>9. Fits(p, new, at, Open(p))
  BY <1>1, <1>7, OpenContainers DEF Fits
<1>10. PICK W : /\ Shows(p, W) /\ Fits(p, new, at, W)
                /\ doubled \subseteq doubled' /\ doubled' \subseteq doubled \cup {p}
                /\ p \in doubled' \/ Tells(W.vec, W.shows)
  <2>1. Toggle(p, c, cid)
    BY DEF UseLocker
  <2> HIDE DEF c
  <2> QED BY <1>2, <1>6, <1>9, <2>1, ToggleFits
<1>11. parent' = new /\ at' = at /\ moves' \in 0..MaxMoves
  BY WindowsAssumption DEF UseLocker, Happens, WindowsKept, new
<1> QED BY <1>1, <1>3, <1>8, <1>10, <1>11, OneShows

LEMMA CloseKeeps ==
  ASSUME WindowsKept, NEW p \in People, NEW cid \in Cids, playerCloseContainer(p, cid)
  PROVE  WindowsKept'
<1> DEFINE vec == containerVec[p]
           v == closeContainer(vec, cid)
           f == [windows[p] EXCEPT ![cid] = Nowhere]
           W == [vec |-> v, shows |-> f]
<1>1. /\ Grounded(parent) /\ at \in [People -> Spots] /\ Fits(p, parent, at, Open(p))
      /\ Neat(vec) /\ Open(p).vec = vec /\ windows[p] \in Screens /\ (p \in doubled \/ Tells(vec, windows[p]))
  BY OpenIs DEF WindowsKept
<1>2. Shows(p, W) /\ parent' = parent /\ at' = at /\ doubled' = doubled /\ moves' \in 0..MaxMoves
  BY WindowsAssumption DEF playerCloseContainer, Happens, WindowsKept
<1> HIDE DEF vec
<1>3. Neat(v) /\ \A i \in Cids : getContainer(v, i) = IF i = cid THEN {} ELSE getContainer(vec, i)
  BY <1>1, ClosedWindow
<1>4. f \in Screens /\ \A i \in Cids : f[i] = IF i = cid THEN Nowhere ELSE windows[p][i]
  BY <1>1 DEF Screens
<1> HIDE DEF v, f
<1>5. W \in Panes /\ W.vec = v /\ W.shows = f
  BY <1>3, <1>4 DEF Panes, Neat
<1> HIDE DEF W
<1>6. Fits(p, parent, at, W)
  BY <1>1, <1>3, <1>5 DEF Fits
<1>7. ASSUME Tells(vec, windows[p]) PROVE Tells(v, f)
  <2>1. \A i \in Cids : getContainer(v, i) = {f[i]} \ {Nowhere}
    BY <1>3, <1>4, <1>7 DEF Tells
  <2>2. \A d \in Boxes : \A i, j \in OpenIn(v, d) : i = j
    <3>1. \A i \in Cids : getContainer(v, i) \subseteq getContainer(vec, i)
      BY <1>3
    <3> QED BY <1>1, <1>3, <1>7, <3>1, StillOnce DEF Tells
  <2> QED BY <2>1, <2>2 DEF Tells
<1> QED BY <1>1, <1>2, <1>5, <1>6, <1>7, OneShows

LEMMA MoveUpKeeps ==
  ASSUME WindowsKept, NEW p \in People, NEW cid \in Cids, playerMoveUpContainer(p, cid)
  PROVE  WindowsKept'
<1> DEFINE U == Open(p)
<1>1. /\ Grounded(parent) /\ at \in [People -> Spots] /\ Fits(p, parent, at, U) /\ U \in Panes /\ Neat(U.vec)
      /\ U.vec = containerVec[p] /\ U.shows = windows[p] /\ (p \in doubled \/ Tells(U.vec, U.shows))
      /\ doubled \subseteq People
  BY OpenIs DEF WindowsKept
<1> HIDE DEF U
<1>2. PICK c \in getContainer(U.vec, cid) :
        /\ parent[c] \in Boxes
        /\ Shows(p, [vec |-> addContainer(U.vec, cid, parent[c]), shows |-> [U.shows EXCEPT ![cid] = parent[c]]])
        /\ Doubles(p, addContainer(U.vec, cid, parent[c]))
  BY <1>1 DEF playerMoveUpContainer
<1> DEFINE d == parent[c]
           v == addContainer(U.vec, cid, d)
           f == [U.shows EXCEPT ![cid] = d]
           W == [vec |-> v, shows |-> f]
<1>3. c \in Boxes /\ d \in Boxes /\ AtHand(parent, at, p, c)
  BY <1>1, <1>2, OpenContainers DEF Fits
<1>4. AtHand(parent, at, p, d)
  <2>1. d \in Around(parent, c)
    BY <1>3, AroundIsClosed
  <2>2. Outermost(parent, d) = Outermost(parent, c)
    BY <1>1, <1>3, <2>1, OutermostIs
  <2> QED BY <1>3, <2>2, AtHandAlike DEF Holder
<1>5. Shows(p, W) /\ Doubles(p, v)
  BY <1>2
<1>6. Neat(v) /\ f \in Screens
  <2>1. U.shows \in Screens
    BY <1>1 DEF Panes
  <2>2. f \in Screens
    BY <1>3, <2>1 DEF Screens
  <2> HIDE DEF d
  <2> QED BY <1>1, <1>3, <2>2, AddedWindow
<1>7. W \in Panes /\ W.vec = v /\ W.shows = f
  BY <1>6 DEF Panes, Neat
<1>8. /\ Fits(p, parent, at, W)
      /\ doubled \subseteq doubled' /\ doubled' \subseteq doubled \cup {p}
      /\ p \in doubled' \/ Tells(W.vec, W.shows)
  <2> HIDE DEF W, d
  <2> QED BY <1>1, <1>3, <1>4, <1>5, <1>7, OpensWindow
<1>9. parent' = parent /\ at' = at /\ moves' \in 0..MaxMoves
  BY WindowsAssumption DEF playerMoveUpContainer, Happens, WindowsKept
<1> HIDE DEF W
<1> QED BY <1>1, <1>5, <1>8, <1>9, OneShows

-----------------------------------------------------------------------------
(* The walk of the player, and the theorem.                                 *)

\* Whatever he had open and is not at hand from where he is now is closed.
LEMMA PlayerMovedKeeps ==
  ASSUME WindowsKept, NEW p \in People, NEW s \in Spots, PlayerMoved(p, s)
  PROVE  WindowsKept'
<1> DEFINE here(c) == LET h == Holder(parent, c) IN h = p \/ Near(s, IF h \in People THEN at[h] ELSE h)
           far == {c \in Boxes : OpenIn(containerVec[p], c) # {} /\ ~ here(c)}
           U == Open(p)
           W == autoCloseContainers(parent, U, far)
           ats == [at EXCEPT ![p] = s]
<1>1. /\ Grounded(parent) /\ at \in [People -> Spots] /\ Fits(p, parent, at, U) /\ U \in Panes /\ Neat(U.vec)
      /\ U.vec = containerVec[p] /\ U.shows = windows[p] /\ (p \in doubled \/ Tells(U.vec, U.shows))
  BY OpenIs DEF WindowsKept
<1>2. /\ Shows(p, W) /\ at' = ats /\ parent' = parent /\ doubled' = doubled /\ moves' \in 0..MaxMoves
  BY WindowsAssumption DEF PlayerMoved, Happens, WindowsKept
<1>3. ats \in [People -> Spots] /\ ats[p] = s /\ \A q \in People \ {p} : ats[q] = at[q]
  BY <1>1
<1> HIDE DEF ats, U
<1>4. Closes(U, W) /\ \A i \in Cids : \A d \in getContainer(W.vec, i), c \in far : c \notin Around(parent, d)
  <2> HIDE DEF far, W
  <2>1. LET V == autoCloseContainers(parent, U, far)
        IN  Closes(U, V) /\ \A i \in Cids : \A d \in getContainer(V.vec, i), c \in far : c \notin Around(parent, d)
    BY <1>1, AutoCloses
  <2> QED BY <2>1 DEF W
<1> HIDE DEF W
<1>5. ASSUME NEW i \in Cids, NEW d \in getContainer(W.vec, i) PROVE AtHand(parent, ats, p, d)
  <2>1. d \in Boxes /\ d \in getContainer(U.vec, i)
    BY <1>1, <1>4, OpenContainers DEF Closes
  <2>2. AtHand(parent, at, p, d) /\ OpenIn(containerVec[p], d) # {}
    BY <1>1, <2>1, OpenContainers DEF Fits
  <2>3. here(d)
    <3>1. d \notin far
      BY <1>4, <2>1, AroundIsClosed
    <3> QED BY <2>1, <2>2, <3>1
  <2> DEFINE h == Holder(parent, d)
  <2>4. /\ h # Nowhere /\ (h \in People => h = p) /\ (Outermost(parent, d) \in Chests => Outermost(parent, d) = Chest[p])
        /\ h \in Spots \cup People \cup {Nowhere}
    BY <1>1, <2>1, <2>2, OutermostIs DEF AtHand, Holder
  <2>5. h = p \/ Near(s, IF h \in People THEN at[h] ELSE h)
    BY <2>3
  <2>6. Near(IF h \in People THEN ats[h] ELSE h, ats[p])
    <3> HIDE DEF h
    <3>1. CASE h \in People
      BY <1>3, <2>4, <3>1, NearFacts
    <3>2. CASE h \notin People
      BY <1>3, <2>4, <2>5, <3>2, NearFacts
    <3> QED BY <3>1, <3>2
  <2> QED BY <2>4, <2>6 DEF AtHand, Holder
<1>6. Fits(p, parent, ats, W)
  BY <1>4, <1>5 DEF Fits, Closes
<1>7. ASSUME NEW q \in People \ {p}, NEW d \in Boxes, AtHand(parent, at, q, d) PROVE AtHand(parent, ats, q, d)
  BY <1>3, <1>7 DEF AtHand
<1>8. p \in doubled' \/ Tells(W.vec, W.shows)
  BY <1>1, <1>2, <1>4 DEF Closes
<1> HIDE DEF far
<1> QED BY <1>1, <1>2, <1>3, <1>6, <1>7, <1>8, OneShows

LEMMA WindowsBegin == ASSUME WindowsInit PROVE WindowsKept
<1>1. parent \in Parents /\ at \in [People -> Spots] /\ doubled \subseteq People /\ moves \in 0..MaxMoves
  BY WindowsAssumption DEF WindowsInit, Parents
<1>2. Grounded(parent)
  <2>1. \A c \in Boxes : parent[c] \notin Boxes
    BY WindowsAssumption DEF WindowsInit
  <2>2. \A c \in Boxes : c \in Around(parent, c)
    BY AroundIsClosed
  <2>3. \A c \in Chests : parent[c] \in Spots \cup {Nowhere}
    BY WindowsAssumption DEF WindowsInit
  <2> QED BY <1>1, <2>1, <2>2, <2>3 DEF Grounded
<1> DEFINE e == << >>
           f == [i \in Cids |-> Nowhere]
<1>3. e \in Vecs /\ DOMAIN e = {} /\ f \in Screens /\ \A i \in Cids : f[i] = Nowhere
  BY DEF Vecs, Screens
<1>4. containerVec = [p \in People |-> e] /\ windows = [p \in People |-> f]
  BY DEF WindowsInit
<1> HIDE DEF e, f
<1>5. Neat(e) /\ \A i : getContainer(e, i) = {} /\ OpenIn(e, i) = {}
  BY <1>3 DEF Neat, getContainer, OpenIn
<1>6. Tells(e, f)
  BY <1>3, <1>5 DEF Tells
<1>7. ASSUME NEW p \in People PROVE Fits(p, parent, at, Open(p))
  <2>1. Open(p) = [vec |-> e, shows |-> f]
    BY <1>4 DEF Open
  <2>2. Open(p) \in Panes /\ Open(p).vec = e
    BY <1>3, <2>1 DEF Panes
  <2> QED BY <1>5, <2>2 DEF Fits
<1> QED BY <1>1, <1>2, <1>3, <1>4, <1>6, <1>7 DEF WindowsKept

LEMMA WindowsStep == ASSUME WindowsKept, [WindowsNext]_windowVars PROVE WindowsKept'
<1>1. ASSUME NEW p \in People, NEW i \in Cids, NEW c \in Boxes, UseContainer(p, c, i) PROVE WindowsKept'
  BY <1>1, UseContainerKeeps
<1>2. ASSUME NEW p \in People, NEW i \in Cids, NEW s \in Lockers, UseLocker(p, s, i) PROVE WindowsKept'
  BY <1>2, UseLockerKeeps
<1>3. ASSUME NEW p \in People, NEW i \in Cids, playerCloseContainer(p, i) \/ playerMoveUpContainer(p, i) PROVE WindowsKept'
  BY <1>3, CloseKeeps, MoveUpKeeps
<1>4. ASSUME NEW p \in People, NEW s \in Spots, PlayerMoved(p, s) PROVE WindowsKept'
  BY <1>4, PlayerMovedKeeps
<1>5. ASSUME NEW c \in Boxes, RemoveContainer(c) PROVE WindowsKept'
  BY <1>5, RemoveContainerKeeps
<1>6. ASSUME NEW c \in Boxes, NEW to \in Spots \cup People \cup Boxes, MoveContainer(c, to) PROVE WindowsKept'
  BY <1>6, MoveContainerKeeps
<1>7. CASE UNCHANGED windowVars
  BY <1>7, RestsKept
<1> QED BY <1>1, <1>2, <1>3, <1>4, <1>5, <1>6, <1>7 DEF WindowsNext

LEMMA KeptInReach == ASSUME WindowsKept PROVE WindowsInReach
<1>1. WindowsTypeOK
  BY DEF WindowsKept, WindowsTypeOK, Grounded, Parents, Vecs, Screens
<1>2. ASSUME NEW p \in People
      PROVE  LET vec == containerVec[p] IN
             /\ \A k \in DOMAIN vec :
                  LET c == vec[k][2] o == Outermost(parent, c) IN
                  /\ InReach(parent, p, c)
                  /\ parent[o] \in People => parent[o] = p
                  /\ o \in Chests => o = Chest[p]
             /\ p \in doubled \/ \A i \in Cids : getContainer(vec, i) = {windows[p][i]} \ {Nowhere}
             /\ \A j, k \in DOMAIN vec : j # k => vec[j][1] # vec[k][1]
  <2> DEFINE vec == containerVec[p]
  <2>1. Fits(p, parent, at, Open(p)) /\ Open(p).vec = vec /\ Neat(vec) /\ (p \in doubled \/ Tells(vec, windows[p]))
    BY OpenIs DEF WindowsKept
  <2> HIDE DEF vec
  <2>2. ASSUME NEW k \in DOMAIN vec PROVE AtHand(parent, at, p, vec[k][2])
    <3>1. vec[k][1] \in Cids /\ vec[k][2] \in getContainer(vec, vec[k][1])
      BY <2>1, OpenContainers
    <3> QED BY <2>1, <3>1 DEF Fits
  <2>3. ASSUME NEW c, AtHand(parent, at, p, c)
        PROVE  /\ InReach(parent, p, c)
               /\ parent[Outermost(parent, c)] \in People => parent[Outermost(parent, c)] = p
               /\ Outermost(parent, c) \in Chests => Outermost(parent, c) = Chest[p]
    BY <2>3 DEF AtHand, InReach, Holder
  <2> QED BY <2>1, <2>2, <2>3 DEF Tells, Neat, vec
<1> QED BY <1>1, <1>2 DEF WindowsInReach

\* What a player has open is at hand: nothing out of reach, on another or in the depot of
\* another stays in a window, however containers and players are moved (player.cpp
\* onSendContainer, autoCloseContainers, closeContainer; game.cpp Game::onCreatureMove...).
THEOREM WindowsStayInReach == WindowsSpec => []WindowsInReach
<1>1. WindowsInit => WindowsKept
  BY WindowsBegin
<1>2. WindowsKept /\ [WindowsNext]_windowVars => WindowsKept'
  BY WindowsStep
<1>3. WindowsKept => WindowsInReach
  BY KeptInReach
<1> QED BY <1>1, <1>2, <1>3, PTL DEF WindowsSpec
=============================================================================
