--------------------------- MODULE Session_proofs ---------------------------
(***************************************************************************)
(* Theorems of Session for every number of requests and whichever of them  *)
(* have bodies.                                                            *)
(***************************************************************************)
EXTENDS Session, Integers, TLAPS

-----------------------------------------------------------------------------
(* The inductive invariant. *)

Part(M) == [part : {"head", "body"}, of : M]

\* s holds the parts of the messages msgs from the one after the o-th on.
Segment(s, msgs, o) ==
  \A k \in DOMAIN msgs :
    /\ 2 * k - 1 - o \in DOMAIN s => s[2 * k - 1 - o] = Head1(msgs[k])
    /\ 2 * k - o \in DOMAIN s => s[2 * k - o] = Body(msgs[k])

Requests == [i \in 1 .. sent |-> i]

\* The parts of the requests, and of the responses, that were parsed or cleared.
TakenRequests == 2 * sent - Len(client_buffer_) - Len(fromClient)
TakenResponses == 2 * Len(made) - Len(server_buffer_) - Len(fromServer)

\* What has been read ahead and what has not been read is what the peers sent last.
StreamsOK ==
  /\ client_buffer_ \in Seq(Part(Request)) /\ fromClient \in Seq(Part(Request))
  /\ server_buffer_ \in Seq(Part(Response)) /\ fromServer \in Seq(Part(Response))
  /\ TakenRequests >= 0 /\ TakenResponses >= 0
  /\ Segment(client_buffer_, Requests, TakenRequests)
  /\ Segment(fromClient, Requests, TakenRequests + Len(client_buffer_))
  /\ Segment(server_buffer_, made, TakenResponses)
  /\ Segment(fromServer, made, TakenResponses + Len(server_buffer_))
  /\ stage = "new" => client_buffer_ = <<>> /\ server_buffer_ = <<>>

AtServer(i) == \E k \in DOMAIN atServer : atServer[k] = i
Delivered(r) == \E k \in DOMAIN delivered : delivered[k] = r

\* Requests arrive in the order of the stream.
RequestsInOrder ==
  /\ Increasing(atServer)
  /\ \A k \in DOMAIN atServer : 2 * atServer[k] <= TakenRequests
  /\ stage = "SendToServer" =>
       /\ client_request_ \in Request /\ 2 * client_request_ <= TakenRequests
       /\ \A k \in DOMAIN atServer : atServer[k] < client_request_

\* A request parsed or cleared is on its way, has arrived or was pipelined, and
\* so were those read ahead: the one before was not answered when they were sent.
RequestsAccounted ==
  /\ ~Over => \A i \in 1 .. sent : 2 * (i - 1) < TakenRequests =>
                \/ stage = "SendToServer" /\ client_request_ = i
                \/ AtServer(i) \/ i \in pipelined
  /\ \A i \in 1 .. sent :
       TakenRequests <= 2 * (i - 1) /\ 2 * (i - 1) < TakenRequests + Len(client_buffer_)
         => i \in pipelined
  /\ \A i \in 2 .. sent : i \in pipelined \/ Final(delivered, i - 1)

\* An interim response was sent before the response made[j].
Excused(j) == \E i \in 1 .. j - 1 : ~made[i].final

\* The server answers the requests that arrived, in their order, each once.
ServerInOrder ==
  /\ \A j, k \in DOMAIN made : made[j] = made[k] => j = k
  /\ \A j \in DOMAIN made : AtServer(made[j].to)
  /\ \A j \in DOMAIN made, l \in DOMAIN atServer :
       made[j].to = atServer[l] => \A h \in 1 .. l - 1 : Final(made, atServer[h])
  /\ \A j \in DOMAIN made : Excused(j) \/ (j \in DOMAIN atServer /\ made[j].to = atServer[j])

\* Responses arrive in the order of the stream.
ResponsesInOrder ==
  /\ \A k \in DOMAIN delivered :
       \E j \in DOMAIN made : delivered[k] = made[j] /\ 2 * j <= TakenResponses
  /\ \A k, l \in DOMAIN delivered, i, j \in DOMAIN made :
       k < l /\ delivered[k] = made[i] /\ delivered[l] = made[j] => i < j
  /\ stage = "SendToClient" =>
       \E j \in DOMAIN made :
         /\ server_response_ = made[j] /\ 2 * j <= TakenResponses
         /\ \A k \in DOMAIN delivered, i \in DOMAIN made : delivered[k] = made[i] => i < j

\* For each request that arrived a response is read and delivered.
Exchanges ==
  /\ stage \in {"new", "ClientRead", "SendToServer"} =>
       Len(delivered) = Len(atServer) /\ 2 * Len(atServer) <= TakenResponses
  /\ stage \in {"ServerRead", "SendToClient"} =>
       Len(delivered) = Len(atServer) - 1 /\ begun = atServer[Len(atServer)]
  /\ stage = "ServerRead" => 2 * (Len(atServer) - 1) <= TakenResponses
  /\ stage = "SendToClient" => 2 * Len(atServer) <= TakenResponses

\* A response parsed or cleared is on its way, has arrived or is excused, and
\* those read ahead are.
ResponsesAccounted ==
  /\ ~Over => \A j \in DOMAIN made : 2 * (j - 1) < TakenResponses =>
                \/ stage = "SendToClient" /\ server_response_ = made[j]
                \/ Delivered(made[j]) \/ Excused(j)
  /\ \A j \in DOMAIN made :
       TakenResponses <= 2 * (j - 1) /\ 2 * (j - 1) < TakenResponses + Len(server_buffer_)
         => Excused(j)

\* The strings hold the bodies of what arrived and of what is on its way.
BodiesAccounted ==
  /\ ~Over => \A b \in client_body_ : \/ \E k \in DOMAIN atServer : b \in RequestBody(atServer[k])
                                      \/ stage = "SendToServer" /\ b \in RequestBody(client_request_)
  /\ stage = "SendToServer" => RequestBody(client_request_) \subseteq client_body_
  /\ ~Over => \A b \in server_body_ : \/ \E k \in DOMAIN delivered : b \in ResponseBody(delivered[k])
                                      \/ stage = "SendToClient" /\ b \in ResponseBody(server_response_)
  /\ stage = "SendToClient" => ResponseBody(server_response_) \subseteq server_body_

NoInterim == \A i \in Request : ~Interim(made, i)

\* With no request pipelined, and none answered by an interim response, exchanges
\* follow one another.
AnswersInStep ==
  /\ pipelined = {} =>
       /\ \A k \in DOMAIN atServer : atServer[k] = k
       /\ stage \in {"new", "ClientRead", "ServerRead", "SendToClient"} =>
            TakenRequests = 2 * Len(atServer)
       /\ stage = "SendToServer" =>
            client_request_ = Len(atServer) + 1 /\ TakenRequests = 2 * client_request_
  /\ NoInterim /\ stage = "SendToClient" => server_response_.to = begun
  /\ pipelined = {} /\ NoInterim => \A k \in DOMAIN delivered : delivered[k].to = k

Inv ==
  /\ TypeOK /\ StreamsOK
  /\ RequestsInOrder /\ RequestsAccounted
  /\ ServerInOrder /\ ResponsesInOrder /\ Exchanges /\ ResponsesAccounted
  /\ BodiesAccounted /\ SpoiledHasCause /\ AnswersInStep

-----------------------------------------------------------------------------
(* Streams. *)

LEMMA SubSequences ==
  ASSUME NEW X, NEW s \in Seq(X), NEW k \in 0 .. Len(s)
  PROVE  /\ Take(s, k) \in Seq(X) /\ Len(Take(s, k)) = k
         /\ \A p \in 1 .. k : Take(s, k)[p] = s[p]
         /\ Drop(s, k) \in Seq(X) /\ Len(Drop(s, k)) = Len(s) - k
         /\ \A p \in 1 .. Len(s) - k : Drop(s, k)[p] = s[p + k]
<1>1. k \in Nat /\ Len(s) \in Nat /\ \A p \in 1 .. Len(s) : s[p] \in X
  OBVIOUS
<1>2. /\ Take(s, k) \in Seq(X) /\ Len(Take(s, k)) = k
      /\ \A p \in 1 .. k : Take(s, k)[p] = s[p]
  BY <1>1 DEF Take
<1>3. /\ Drop(s, k) \in Seq(X) /\ Len(Drop(s, k)) = Len(s) - k
      /\ \A p \in 1 .. Len(s) - k : Drop(s, k)[p] = s[p + k]
  BY <1>1 DEF Drop
<1> QED BY <1>2, <1>3

LEMMA Concatenation ==
  ASSUME NEW X, NEW s \in Seq(X), NEW t \in Seq(X)
  PROVE  /\ s \o t \in Seq(X) /\ Len(s \o t) = Len(s) + Len(t)
         /\ \A p \in 1 .. Len(s) : (s \o t)[p] = s[p]
         /\ \A p \in 1 .. Len(t) : (s \o t)[Len(s) + p] = t[p]
OBVIOUS

LEMMA SegmentConcat ==
  ASSUME NEW M, NEW X, NEW msgs \in Seq(M), NEW s \in Seq(X), NEW t \in Seq(X), NEW o \in Nat,
         Segment(s, msgs, o), Segment(t, msgs, o + Len(s))
  PROVE  Segment(s \o t, msgs, o)
<1>1. Len(s) \in Nat /\ Len(t) \in Nat /\ DOMAIN s = 1 .. Len(s) /\ DOMAIN t = 1 .. Len(t)
      /\ DOMAIN (s \o t) = 1 .. Len(s) + Len(t) /\ DOMAIN msgs \subseteq Nat
  BY Concatenation
<1>2. ASSUME NEW p \in 1 .. Len(s) + Len(t)
      PROVE  (s \o t)[p] = IF p <= Len(s) THEN s[p] ELSE t[p - Len(s)]
  BY <1>1, Concatenation
<1>3. ASSUME NEW q \in Int, NEW v, q - o \in DOMAIN (s \o t),
             q - o \in DOMAIN s => s[q - o] = v,
             q - (o + Len(s)) \in DOMAIN t => t[q - (o + Len(s))] = v
      PROVE  (s \o t)[q - o] = v
  <2>1. (q - o) - Len(s) = q - (o + Len(s))
    BY <1>1
  <2>2. CASE q - o <= Len(s)
    BY <1>1, <1>2, <1>3, <2>2
  <2>3. CASE q - o > Len(s)
    <3>1. q - (o + Len(s)) \in DOMAIN t
      BY <1>1, <1>3, <2>3
    <3>2. q - o \in 1 .. Len(s) + Len(t) /\ ~(q - o <= Len(s))
      BY <1>1, <1>3, <2>3
    <3>3. (s \o t)[q - o] = t[(q - o) - Len(s)]
      BY <1>2, <3>2
    <3>4. t[q - (o + Len(s))] = v
      BY <1>3, <3>1
    <3> QED BY <2>1, <3>3, <3>4
  <2>4. q - o <= Len(s) \/ q - o > Len(s)
    BY <1>1
  <2> QED BY <2>2, <2>3, <2>4, Zenon
<1> SUFFICES ASSUME NEW k \in DOMAIN msgs
             PROVE  /\ 2 * k - 1 - o \in DOMAIN (s \o t) => (s \o t)[2 * k - 1 - o] = Head1(msgs[k])
                    /\ 2 * k - o \in DOMAIN (s \o t) => (s \o t)[2 * k - o] = Body(msgs[k])
  BY DEF Segment
<1>4. 2 * k - 1 \in Int /\ 2 * k \in Int
  BY <1>1
<1>5. 2 * k - 1 - o \in DOMAIN (s \o t) => (s \o t)[2 * k - 1 - o] = Head1(msgs[k])
  <2>1. /\ 2 * k - 1 - o \in DOMAIN s => s[2 * k - 1 - o] = Head1(msgs[k])
        /\ 2 * k - 1 - (o + Len(s)) \in DOMAIN t => t[2 * k - 1 - (o + Len(s))] = Head1(msgs[k])
    BY DEF Segment
  <2> QED BY <1>3, <1>4, <2>1
<1>6. 2 * k - o \in DOMAIN (s \o t) => (s \o t)[2 * k - o] = Body(msgs[k])
  <2>1. /\ 2 * k - o \in DOMAIN s => s[2 * k - o] = Body(msgs[k])
        /\ 2 * k - (o + Len(s)) \in DOMAIN t => t[2 * k - (o + Len(s))] = Body(msgs[k])
    BY DEF Segment
  <2> QED BY <1>3, <1>4, <2>1
<1> QED BY <1>5, <1>6

LEMMA SegmentTake ==
  ASSUME NEW M, NEW X, NEW msgs \in Seq(M), NEW s \in Seq(X), NEW o \in Nat,
         NEW n \in 0 .. Len(s), Segment(s, msgs, o)
  PROVE  Segment(Take(s, n), msgs, o)
<1>1. /\ DOMAIN s = 1 .. Len(s) /\ DOMAIN Take(s, n) = 1 .. n /\ DOMAIN msgs \subseteq Nat
      /\ n \in Nat /\ n <= Len(s) /\ Len(s) \in Nat
      /\ \A p \in 1 .. n : Take(s, n)[p] = s[p]
  BY SubSequences
<1>2. DOMAIN Take(s, n) \subseteq DOMAIN s /\ \A p \in DOMAIN Take(s, n) : Take(s, n)[p] = s[p]
  BY <1>1
<1> QED BY <1>2 DEF Segment

LEMMA SegmentDrop ==
  ASSUME NEW M, NEW X, NEW msgs \in Seq(M), NEW s \in Seq(X), NEW o \in Nat,
         NEW n \in 0 .. Len(s), Segment(s, msgs, o)
  PROVE  Segment(Drop(s, n), msgs, o + n)
<1>1. /\ DOMAIN s = 1 .. Len(s) /\ DOMAIN Drop(s, n) = 1 .. Len(s) - n /\ DOMAIN msgs \subseteq Nat
      /\ n \in Nat /\ n <= Len(s) /\ Len(s) \in Nat
      /\ \A p \in 1 .. Len(s) - n : Drop(s, n)[p] = s[p + n]
  BY SubSequences
<1>2. ASSUME NEW q \in Int, NEW v, q - (o + n) \in DOMAIN Drop(s, n),
             q - o \in DOMAIN s => s[q - o] = v
      PROVE  Drop(s, n)[q - (o + n)] = v
  <2>1. (q - (o + n)) + n = q - o /\ q - o \in DOMAIN s
    BY <1>1, <1>2
  <2> QED BY <1>1, <1>2, <2>1
<1> SUFFICES ASSUME NEW k \in DOMAIN msgs
             PROVE  /\ 2 * k - 1 - (o + n) \in DOMAIN Drop(s, n)
                         => Drop(s, n)[2 * k - 1 - (o + n)] = Head1(msgs[k])
                    /\ 2 * k - (o + n) \in DOMAIN Drop(s, n)
                         => Drop(s, n)[2 * k - (o + n)] = Body(msgs[k])
  BY DEF Segment
<1>3. 2 * k - 1 \in Int /\ 2 * k \in Int
  BY <1>1
<1>4. /\ 2 * k - 1 - o \in DOMAIN s => s[2 * k - 1 - o] = Head1(msgs[k])
      /\ 2 * k - o \in DOMAIN s => s[2 * k - o] = Body(msgs[k])
  BY DEF Segment
<1> QED BY <1>2, <1>3, <1>4

\* A peer sends one more message.
LEMMA SegmentAppend ==
  ASSUME NEW M, NEW X, NEW msgs \in Seq(M), NEW m \in M, NEW s \in Seq(X), NEW o \in Nat,
         o + Len(s) <= 2 * Len(msgs), Segment(s, msgs, o)
  PROVE  Segment(s, Append(msgs, m), o)
<1>1. /\ DOMAIN s = 1 .. Len(s) /\ Len(s) \in Nat /\ Len(msgs) \in Nat
      /\ DOMAIN msgs = 1 .. Len(msgs) /\ DOMAIN Append(msgs, m) = 1 .. Len(msgs) + 1
      /\ \A k \in DOMAIN msgs : Append(msgs, m)[k] = msgs[k]
  OBVIOUS
<1> SUFFICES ASSUME NEW k \in DOMAIN Append(msgs, m)
             PROVE  /\ 2 * k - 1 - o \in DOMAIN s => s[2 * k - 1 - o] = Head1(Append(msgs, m)[k])
                    /\ 2 * k - o \in DOMAIN s => s[2 * k - o] = Body(Append(msgs, m)[k])
  BY DEF Segment
<1>2. CASE k \in DOMAIN msgs
  BY <1>1, <1>2 DEF Segment
<1>3. CASE k = Len(msgs) + 1
  BY <1>1, <1>3
<1> QED BY <1>1, <1>2, <1>3

LEMMA SegmentExtend ==
  ASSUME NEW M, NEW msgs \in Seq(M), NEW m \in M, NEW s \in Seq(Part(M)), NEW o \in Nat,
         o + Len(s) = 2 * Len(msgs), Segment(s, msgs, o)
  PROVE  /\ s \o Parts(m) \in Seq(Part(M)) /\ Len(s \o Parts(m)) = Len(s) + 2
         /\ Segment(s \o Parts(m), Append(msgs, m), o)
<1>1. Parts(m) \in Seq(Part(M)) /\ Len(Parts(m)) = 2
      /\ Parts(m)[1] = Head1(m) /\ Parts(m)[2] = Body(m)
  BY DEF Parts, Part, Head1, Body
<1>2. Append(msgs, m) \in Seq(M) /\ Len(s) \in Nat /\ Len(msgs) \in Nat
      /\ DOMAIN Append(msgs, m) = 1 .. Len(msgs) + 1 /\ Append(msgs, m)[Len(msgs) + 1] = m
  OBVIOUS
<1>3. Segment(s, Append(msgs, m), o)
  BY <1>2, SegmentAppend
<1>4. Segment(Parts(m), Append(msgs, m), o + Len(s))
  <2> SUFFICES ASSUME NEW k \in 1 .. Len(msgs) + 1
               PROVE  /\ 2 * k - 1 - 2 * Len(msgs) \in DOMAIN Parts(m)
                           => Parts(m)[2 * k - 1 - 2 * Len(msgs)] = Head1(Append(msgs, m)[k])
                      /\ 2 * k - 2 * Len(msgs) \in DOMAIN Parts(m)
                           => Parts(m)[2 * k - 2 * Len(msgs)] = Body(Append(msgs, m)[k])
    BY <1>2 DEF Segment
  <2>1. DOMAIN Parts(m) = 1 .. 2
    BY <1>1
  <2>2. CASE k = Len(msgs) + 1
    <3>1. 2 * k - 1 - 2 * Len(msgs) = 1 /\ 2 * k - 2 * Len(msgs) = 2
      BY <1>2, <2>2
    <3> QED BY <1>1, <1>2, <2>2, <3>1
  <2>3. CASE k <= Len(msgs)
    <3>1. 2 * k - 1 - 2 * Len(msgs) < 1 /\ 2 * k - 2 * Len(msgs) < 1
      BY <1>2, <2>3
    <3> QED BY <2>1, <3>1
  <2> QED BY <1>2, <2>2, <2>3
<1>5. s \o Parts(m) \in Seq(Part(M)) /\ Len(s \o Parts(m)) = Len(s) + Len(Parts(m))
  BY <1>1, Concatenation, Zenon
<1>6. Segment(s \o Parts(m), Append(msgs, m), o)
  BY <1>1, <1>2, <1>3, <1>4, SegmentConcat, Zenon
<1> QED BY <1>1, <1>5, <1>6

\* A segment that starts with a head starts with a message.
LEMMA SegmentHead ==
  ASSUME NEW M, NEW msgs \in Seq(M), NEW s \in Seq(Part(M)), NEW o \in Nat,
         o + Len(s) <= 2 * Len(msgs), Segment(s, msgs, o), s # <<>>, s[1].part = "head"
  PROVE  \E i \in DOMAIN msgs : o = 2 * (i - 1) /\ s[1].of = msgs[i]
<1>1. Len(s) \in Nat /\ Len(s) >= 1 /\ Len(msgs) \in Nat /\ DOMAIN msgs = 1 .. Len(msgs)
      /\ DOMAIN s = 1 .. Len(s) /\ 1 \in DOMAIN s
  OBVIOUS
<1>2. PICK k \in Nat : o = 2 * k \/ o = 2 * k + 1
  <2>1. o = 2 * (o \div 2) \/ o = 2 * (o \div 2) + 1
    OBVIOUS
  <2>2. o \div 2 \in Nat
    OBVIOUS
  <2> QED BY <2>1, <2>2
<1>3. k + 1 \in DOMAIN msgs
  BY <1>1, <1>2
<1>4. CASE o = 2 * k + 1
  <2>1. 2 * (k + 1) - o = 1
    BY <1>4
  <2>2. s[1] = Body(msgs[k + 1])
    BY <1>1, <1>3, <2>1 DEF Segment
  <2> QED BY <2>2 DEF Body
<1>5. CASE o = 2 * k
  <2>1. 2 * (k + 1) - 1 - o = 1
    BY <1>5
  <2>2. s[1] = Head1(msgs[k + 1])
    BY <1>1, <1>3, <2>1 DEF Segment
  <2>3. s[1].of = msgs[k + 1] /\ o = 2 * ((k + 1) - 1)
    BY <1>5, <2>2 DEF Head1
  <2> QED BY <1>3, <2>3
<1> QED BY <1>2, <1>4, <1>5

\* A read: bytes is what the parser sees, the buffer and n parts of the socket.
LEMMA Reads ==
  ASSUME NEW M, NEW msgs \in Seq(M), NEW buffer \in Seq(Part(M)), NEW socket \in Seq(Part(M)),
         NEW o \in Nat, o + Len(buffer) + Len(socket) = 2 * Len(msgs),
         Segment(buffer, msgs, o), Segment(socket, msgs, o + Len(buffer)),
         NEW n \in 0 .. Len(socket), StartsWithMessage(buffer \o Take(socket, n))
  PROVE  /\ \E i \in DOMAIN msgs :
              o = 2 * (i - 1) /\ (buffer \o Take(socket, n))[1].of = msgs[i]
         /\ Drop(buffer \o Take(socket, n), 2) \in Seq(Part(M)) /\ Drop(socket, n) \in Seq(Part(M))
         /\ Len(Drop(buffer \o Take(socket, n), 2)) = Len(buffer) + n - 2
         /\ Len(Drop(socket, n)) = Len(socket) - n
         /\ Segment(Drop(buffer \o Take(socket, n), 2), msgs, o + 2)
         /\ Segment(Drop(socket, n), msgs, o + Len(buffer) + n)
<1> DEFINE bytes == buffer \o Take(socket, n)
<1>1. /\ Len(buffer) \in Nat /\ Len(socket) \in Nat /\ Len(msgs) \in Nat /\ n \in Nat /\ n <= Len(socket)
      /\ Take(socket, n) \in Seq(Part(M)) /\ Len(Take(socket, n)) = n
      /\ Drop(socket, n) \in Seq(Part(M)) /\ Len(Drop(socket, n)) = Len(socket) - n
  BY SubSequences
<1>2. bytes \in Seq(Part(M)) /\ Len(bytes) = Len(buffer) + n
  <2>1. bytes \in Seq(Part(M)) /\ Len(bytes) = Len(buffer) + Len(Take(socket, n))
    BY <1>1, Concatenation, Zenon
  <2> QED BY <1>1, <2>1
<1>3. Segment(Take(socket, n), msgs, o + Len(buffer))
  BY <1>1, SegmentTake
<1>4. Segment(bytes, msgs, o)
  BY <1>1, <1>3, SegmentConcat
<1>5. Len(bytes) >= 2 /\ bytes # <<>> /\ bytes[1].part = "head"
  BY <1>2 DEF StartsWithMessage
<1> HIDE DEF bytes
<1>6. \E i \in DOMAIN msgs : o = 2 * (i - 1) /\ bytes[1].of = msgs[i]
  <2>1. o + Len(bytes) <= 2 * Len(msgs)
    BY <1>1, <1>2
  <2> QED BY <1>2, <1>4, <1>5, <2>1, SegmentHead, Zenon
<1>7. 2 \in 0 .. Len(bytes)
  BY <1>1, <1>2, <1>5
<1>8. Drop(bytes, 2) \in Seq(Part(M)) /\ Len(Drop(bytes, 2)) = Len(buffer) + n - 2
  <2>1. Drop(bytes, 2) \in Seq(Part(M)) /\ Len(Drop(bytes, 2)) = Len(bytes) - 2
    BY <1>2, <1>7, SubSequences, ZenonT(60)
  <2> QED BY <1>2, <2>1
<1>9. Segment(Drop(bytes, 2), msgs, o + 2)
  BY <1>2, <1>4, <1>7, SegmentDrop
<1>10. Segment(Drop(socket, n), msgs, o + Len(buffer) + n)
  <2>1. o + Len(buffer) \in Nat
    BY <1>1
  <2> QED BY <2>1, SegmentDrop
<1> QED BY <1>1, <1>6, <1>8, <1>9, <1>10 DEF bytes

-----------------------------------------------------------------------------
(* What each step does to the streams. *)

LEMMA RequestsSent ==
  ASSUME TypeOK
  PROVE  /\ sent \in Nat /\ Requests \in Seq(Request) /\ Len(Requests) = sent
         /\ DOMAIN Requests = 1 .. sent /\ \A i \in 1 .. sent : Requests[i] = i
         /\ 1 .. sent \subseteq Request
<1>1. sent \in 0 .. MaxRequests /\ MaxRequests \in Nat
  BY RequestsAssumption DEF TypeOK
<1>2. \A i \in 1 .. sent : i \in Request
  BY <1>1 DEF Request
<1> QED BY <1>1, <1>2 DEF Requests

LEMMA StreamTypes ==
  ASSUME TypeOK, StreamsOK
  PROVE  /\ Len(client_buffer_) \in Nat /\ Len(fromClient) \in Nat
         /\ Len(server_buffer_) \in Nat /\ Len(fromServer) \in Nat
         /\ sent \in Nat /\ Len(made) \in Nat /\ made \in Seq(Response)
         /\ TakenRequests \in Nat /\ TakenResponses \in Nat
         /\ TakenRequests + Len(client_buffer_) + Len(fromClient) = 2 * sent
         /\ TakenResponses + Len(server_buffer_) + Len(fromServer) = 2 * Len(made)
<1>1. /\ Len(client_buffer_) \in Nat /\ Len(fromClient) \in Nat
      /\ Len(server_buffer_) \in Nat /\ Len(fromServer) \in Nat
  BY DEF StreamsOK
<1>2. sent \in Nat /\ made \in Seq(Response) /\ Len(made) \in Nat
  BY RequestsSent DEF TypeOK
<1> QED BY <1>1, <1>2 DEF StreamsOK, TakenRequests, TakenResponses

\* A step that leaves the streams and what was sent leaves what was taken.
LEMMA SameStreams ==
  ASSUME StreamsOK, stage' # "new" \/ stage = "new",
         UNCHANGED <<fromClient, fromServer, client_buffer_, server_buffer_, sent, made>>
  PROVE  StreamsOK' /\ TakenRequests' = TakenRequests /\ TakenResponses' = TakenResponses
BY DEF StreamsOK, Requests, TakenRequests, TakenResponses, Segment

\* Clearing the buffers takes what was read ahead.
LEMMA StreamsCleared ==
  ASSUME TypeOK, StreamsOK, ClientRead, UNCHANGED <<fromClient, fromServer, sent, made>>
  PROVE  /\ StreamsOK' /\ TakenRequests' = TakenRequests + Len(client_buffer_)
         /\ TakenResponses' = TakenResponses + Len(server_buffer_)
<1>1. client_buffer_' = <<>> /\ server_buffer_' = <<>> /\ stage' = "ClientRead"
  BY DEF ClientRead, Clears
<1>2. /\ TakenRequests' = TakenRequests + Len(client_buffer_)
      /\ TakenResponses' = TakenResponses + Len(server_buffer_)
  BY <1>1, StreamTypes DEF TakenRequests, TakenResponses
<1>3. /\ Segment(client_buffer_', Requests', TakenRequests')
      /\ Segment(server_buffer_', made', TakenResponses')
  BY <1>1 DEF Segment
<1>4. /\ TakenRequests' + Len(client_buffer_') = TakenRequests + Len(client_buffer_)
      /\ TakenResponses' + Len(server_buffer_') = TakenResponses + Len(server_buffer_)
  BY <1>1, <1>2, StreamTypes, SMTT(30)
<1>5. Requests' = Requests
  BY DEF Requests
<1>6. /\ Segment(fromClient', Requests', TakenRequests' + Len(client_buffer_'))
      /\ Segment(fromServer', made', TakenResponses' + Len(server_buffer_'))
  BY <1>4, <1>5 DEF StreamsOK
<1>7. TakenRequests' >= 0 /\ TakenResponses' >= 0
  BY <1>2, StreamTypes, SMTT(30)
<1> QED BY <1>1, <1>2, <1>3, <1>6, <1>7 DEF StreamsOK

LEMMA StreamsClientRead ==
  ASSUME TypeOK, StreamsOK, HandleClientRead
  PROVE  /\ StreamsOK' /\ TakenResponses' = TakenResponses
         /\ \E i \in 1 .. sent :
              /\ TakenRequests = 2 * (i - 1) /\ TakenRequests' = 2 * i
              /\ client_request_' = i /\ client_body_' = client_body_ \cup RequestBody(i)
<1> DEFINE bytes(n) == client_buffer_ \o Take(fromClient, n)
<1>1. PICK n \in 0 .. Len(fromClient) :
        /\ StartsWithMessage(bytes(n))
        /\ client_request_' = bytes(n)[1].of
        /\ client_body_' = client_body_ \cup RequestBody(bytes(n)[1].of)
        /\ client_buffer_' = Drop(bytes(n), 2)
        /\ fromClient' = Drop(fromClient, n)
  BY DEF HandleClientRead
<1>2. /\ stage' = "SendToServer" /\ sent' = sent /\ made' = made
      /\ fromServer' = fromServer /\ server_buffer_' = server_buffer_
  BY DEF HandleClientRead, peers, arrivals
<1>3. /\ client_buffer_ \in Seq(Part(Request)) /\ fromClient \in Seq(Part(Request))
      /\ Segment(client_buffer_, Requests, TakenRequests)
      /\ Segment(fromClient, Requests, TakenRequests + Len(client_buffer_))
  BY DEF StreamsOK
<1>4. /\ \E i \in DOMAIN Requests : TakenRequests = 2 * (i - 1) /\ bytes(n)[1].of = Requests[i]
      /\ Drop(bytes(n), 2) \in Seq(Part(Request)) /\ Drop(fromClient, n) \in Seq(Part(Request))
      /\ Len(Drop(bytes(n), 2)) = Len(client_buffer_) + n - 2
      /\ Len(Drop(fromClient, n)) = Len(fromClient) - n
      /\ Segment(Drop(bytes(n), 2), Requests, TakenRequests + 2)
      /\ Segment(Drop(fromClient, n), Requests, TakenRequests + Len(client_buffer_) + n)
  <2>1. TakenRequests \in Nat /\ TakenRequests + Len(client_buffer_) + Len(fromClient) = 2 * Len(Requests)
        /\ Requests \in Seq(Request)
    BY StreamTypes, RequestsSent
  <2> QED BY <1>1, <1>3, <2>1, Reads, Zenon
<1>5. PICK i \in 1 .. sent : TakenRequests = 2 * (i - 1) /\ bytes(n)[1].of = i
  BY <1>4, RequestsSent
<1> HIDE DEF bytes
<1>6. Len(client_buffer_') = Len(client_buffer_) + n - 2 /\ Len(fromClient') = Len(fromClient) - n
  BY <1>1, <1>4
<1>7. TakenRequests' = TakenRequests + 2 /\ TakenResponses' = TakenResponses
  BY <1>2, <1>6, StreamTypes, SMTT(30) DEF TakenRequests, TakenResponses
<1>8. TakenRequests' + Len(client_buffer_') = TakenRequests + Len(client_buffer_) + n
  BY <1>6, <1>7, StreamTypes, SMTT(30)
<1>9. Requests' = Requests
  BY <1>2 DEF Requests
<1>10. /\ Segment(client_buffer_', Requests', TakenRequests')
       /\ Segment(fromClient', Requests', TakenRequests' + Len(client_buffer_'))
  BY <1>1, <1>4, <1>7, <1>8, <1>9
<1>11. client_buffer_' \in Seq(Part(Request)) /\ fromClient' \in Seq(Part(Request)) /\ TakenRequests' >= 0
  BY <1>1, <1>4, <1>7, StreamTypes
<1>12. StreamsOK'
  BY <1>2, <1>7, <1>10, <1>11 DEF StreamsOK
<1>13. TakenRequests' = 2 * i
  BY <1>5, <1>7
<1> QED BY <1>1, <1>5, <1>7, <1>12, <1>13

LEMMA StreamsServerRead ==
  ASSUME TypeOK, StreamsOK, HandleServerRead
  PROVE  /\ StreamsOK' /\ TakenRequests' = TakenRequests
         /\ \E j \in DOMAIN made :
              /\ TakenResponses = 2 * (j - 1) /\ TakenResponses' = 2 * j
              /\ server_response_' = made[j]
              /\ server_body_' = server_body_ \cup ResponseBody(made[j])
<1> DEFINE bytes(n) == server_buffer_ \o Take(fromServer, n)
<1>1. PICK n \in 0 .. Len(fromServer) :
        /\ StartsWithMessage(bytes(n))
        /\ server_response_' = bytes(n)[1].of
        /\ server_body_' = server_body_ \cup ResponseBody(bytes(n)[1].of)
        /\ server_buffer_' = Drop(bytes(n), 2)
        /\ fromServer' = Drop(fromServer, n)
  BY DEF HandleServerRead
<1>2. /\ stage' = "SendToClient" /\ sent' = sent /\ made' = made
      /\ fromClient' = fromClient /\ client_buffer_' = client_buffer_
  BY DEF HandleServerRead, peers, arrivals
<1>3. /\ server_buffer_ \in Seq(Part(Response)) /\ fromServer \in Seq(Part(Response))
      /\ Segment(server_buffer_, made, TakenResponses)
      /\ Segment(fromServer, made, TakenResponses + Len(server_buffer_))
  BY DEF StreamsOK
<1>4. /\ \E j \in DOMAIN made : TakenResponses = 2 * (j - 1) /\ bytes(n)[1].of = made[j]
      /\ Drop(bytes(n), 2) \in Seq(Part(Response)) /\ Drop(fromServer, n) \in Seq(Part(Response))
      /\ Len(Drop(bytes(n), 2)) = Len(server_buffer_) + n - 2
      /\ Len(Drop(fromServer, n)) = Len(fromServer) - n
      /\ Segment(Drop(bytes(n), 2), made, TakenResponses + 2)
      /\ Segment(Drop(fromServer, n), made, TakenResponses + Len(server_buffer_) + n)
  <2>1. TakenResponses \in Nat /\ TakenResponses + Len(server_buffer_) + Len(fromServer) = 2 * Len(made)
        /\ made \in Seq(Response)
    BY StreamTypes
  <2> QED BY <1>1, <1>3, <2>1, Reads, Zenon
<1>5. PICK j \in DOMAIN made : TakenResponses = 2 * (j - 1) /\ bytes(n)[1].of = made[j]
  BY <1>4
<1> HIDE DEF bytes
<1>6. Len(server_buffer_') = Len(server_buffer_) + n - 2 /\ Len(fromServer') = Len(fromServer) - n
  BY <1>1, <1>4
<1>7. TakenResponses' = TakenResponses + 2 /\ TakenRequests' = TakenRequests
  BY <1>2, <1>6, StreamTypes DEF TakenRequests, TakenResponses
<1>8. TakenResponses' + Len(server_buffer_') = TakenResponses + Len(server_buffer_) + n
  BY <1>6, <1>7, StreamTypes, SMTT(30)
<1>9. Requests' = Requests
  BY <1>2 DEF Requests
<1>10. /\ Segment(server_buffer_', made', TakenResponses')
       /\ Segment(fromServer', made', TakenResponses' + Len(server_buffer_'))
  BY <1>1, <1>2, <1>4, <1>7, <1>8
<1>11. server_buffer_' \in Seq(Part(Response)) /\ fromServer' \in Seq(Part(Response)) /\ TakenResponses' >= 0
  BY <1>1, <1>4, <1>7, StreamTypes
<1>12. StreamsOK'
  BY <1>2, <1>7, <1>9, <1>10, <1>11 DEF StreamsOK
<1>13. TakenResponses' = 2 * j
  <2>1. j \in Nat
    BY StreamTypes
  <2> QED BY <1>5, <1>7, <2>1
<1> QED BY <1>1, <1>5, <1>7, <1>12, <1>13

LEMMA StreamsClientSends ==
  ASSUME TypeOK, StreamsOK, ClientSends
  PROVE  StreamsOK' /\ TakenRequests' = TakenRequests /\ TakenResponses' = TakenResponses
<1>1. /\ sent' = sent + 1 /\ fromClient' = fromClient \o Parts(sent')
      /\ client_buffer_' = client_buffer_ /\ fromServer' = fromServer
      /\ server_buffer_' = server_buffer_ /\ made' = made /\ stage' = stage
  BY DEF ClientSends, arrivals
<1>2. sent + 1 \in Request /\ Requests \in Seq(Request) /\ Len(Requests) = sent /\ sent \in Nat
  BY RequestsSent, RequestsAssumption DEF ClientSends, Request
<1>3. Requests' = Append(Requests, sent + 1)
  BY <1>1, <1>2 DEF Requests
<1> DEFINE o == TakenRequests + Len(client_buffer_)
<1>4. o \in Nat /\ o + Len(fromClient) = 2 * Len(Requests)
  BY <1>2, StreamTypes
<1>5. fromClient \in Seq(Part(Request)) /\ Segment(fromClient, Requests, o)
  BY DEF StreamsOK
<1> HIDE DEF o
<1>6. /\ fromClient' \in Seq(Part(Request)) /\ Len(fromClient') = Len(fromClient) + 2
      /\ Segment(fromClient', Requests', o)
  <2>1. /\ fromClient \o Parts(sent + 1) \in Seq(Part(Request))
        /\ Len(fromClient \o Parts(sent + 1)) = Len(fromClient) + 2
        /\ Segment(fromClient \o Parts(sent + 1), Append(Requests, sent + 1), o)
    <3> DEFINE q == sent + 1
    <3>1. q \in Request /\ Requests \in Seq(Request)
      BY <1>2
    <3> HIDE DEF q
    <3>2. /\ fromClient \o Parts(q) \in Seq(Part(Request))
          /\ Len(fromClient \o Parts(q)) = Len(fromClient) + 2
          /\ Segment(fromClient \o Parts(q), Append(Requests, q), o)
      BY <1>4, <1>5, <3>1, SegmentExtend
    <3> QED BY <3>2 DEF q
  <2> QED BY <1>1, <1>3, <2>1, Zenon
<1>7. TakenRequests' = TakenRequests /\ TakenResponses' = TakenResponses
  <2>1. TakenRequests' = 2 * (sent + 1) - Len(client_buffer_) - (Len(fromClient) + 2)
    BY <1>1, <1>6, Zenon DEF TakenRequests
  <2>2. TakenRequests = 2 * (sent + 1) - Len(client_buffer_) - (Len(fromClient) + 2)
    <3> DEFINE l == Len(client_buffer_)
               f == Len(fromClient)
    <3>1. l \in Nat /\ f \in Nat /\ sent \in Nat /\ TakenRequests \in Nat
          /\ TakenRequests + l + f = 2 * sent
      BY StreamTypes
    <3> HIDE DEF l, f
    <3>2. TakenRequests = 2 * (sent + 1) - l - (f + 2)
      BY <3>1
    <3> QED BY <3>2 DEF l, f
  <2>3. TakenResponses' = TakenResponses
    BY <1>1 DEF TakenResponses
  <2> QED BY <2>1, <2>2, <2>3, Zenon
<1>8. Segment(client_buffer_', Requests', TakenRequests')
  <2>1. TakenRequests + Len(client_buffer_) <= 2 * Len(Requests) /\ TakenRequests \in Nat
    BY <1>2, StreamTypes
  <2>2. client_buffer_ \in Seq(Part(Request)) /\ Segment(client_buffer_, Requests, TakenRequests)
    BY DEF StreamsOK
  <2>3. Segment(client_buffer_, Append(Requests, sent + 1), TakenRequests)
    BY <1>2, <2>1, <2>2, SegmentAppend, Zenon
  <2> QED BY <1>1, <1>3, <1>7, <2>3, Zenon
<1>9. Segment(fromClient', Requests', TakenRequests' + Len(client_buffer_'))
  BY <1>1, <1>6, <1>7 DEF o
<1> QED BY <1>1, <1>6, <1>7, <1>8, <1>9 DEF StreamsOK

LEMMA StreamsServerSends ==
  ASSUME TypeOK, StreamsOK, NEW r \in Response, ServerSends(r)
  PROVE  StreamsOK' /\ TakenRequests' = TakenRequests /\ TakenResponses' = TakenResponses
<1>1. /\ made' = Append(made, r) /\ fromServer' = fromServer \o Parts(r)
      /\ client_buffer_' = client_buffer_ /\ fromClient' = fromClient
      /\ server_buffer_' = server_buffer_ /\ sent' = sent /\ stage' = stage
  BY DEF ServerSends, arrivals
<1>2. made \in Seq(Response) /\ Len(made) \in Nat /\ Len(made') = Len(made) + 1
  BY <1>1, StreamTypes
<1> DEFINE o == TakenResponses + Len(server_buffer_)
<1>3. o \in Nat /\ o + Len(fromServer) = 2 * Len(made)
  BY <1>2, StreamTypes
<1>4. fromServer \in Seq(Part(Response)) /\ Segment(fromServer, made, o)
  BY DEF StreamsOK
<1> HIDE DEF o
<1>5. /\ fromServer' \in Seq(Part(Response)) /\ Len(fromServer') = Len(fromServer) + 2
      /\ Segment(fromServer', made', o)
  <2>1. /\ fromServer \o Parts(r) \in Seq(Part(Response))
        /\ Len(fromServer \o Parts(r)) = Len(fromServer) + 2
        /\ Segment(fromServer \o Parts(r), Append(made, r), o)
    BY <1>2, <1>3, <1>4, SegmentExtend
  <2> QED BY <1>1, <2>1, Zenon
<1>6. TakenRequests' = TakenRequests /\ TakenResponses' = TakenResponses
  BY <1>1, <1>2, <1>5, StreamTypes DEF TakenRequests, TakenResponses
<1>7. Segment(server_buffer_', made', TakenResponses')
  <2>1. TakenResponses + Len(server_buffer_) <= 2 * Len(made) /\ TakenResponses \in Nat
    BY <1>2, StreamTypes
  <2>2. server_buffer_ \in Seq(Part(Response)) /\ Segment(server_buffer_, made, TakenResponses)
    BY DEF StreamsOK
  <2>3. Segment(server_buffer_, Append(made, r), TakenResponses)
    BY <1>2, <2>1, <2>2, SegmentAppend, Zenon
  <2> QED BY <1>1, <1>6, <2>3, Zenon
<1>8. Segment(fromServer', made', TakenResponses' + Len(server_buffer_'))
  BY <1>1, <1>5, <1>6 DEF o
<1>9. Requests' = Requests
  BY <1>1 DEF Requests
<1> QED BY <1>1, <1>5, <1>6, <1>7, <1>8, <1>9 DEF StreamsOK

-----------------------------------------------------------------------------
(* Every step keeps the invariant. *)

LEMMA Appended ==
  ASSUME NEW X, NEW s \in Seq(X), NEW x \in X
  PROVE  /\ Append(s, x) \in Seq(X) /\ Len(s) \in Nat /\ Len(Append(s, x)) = Len(s) + 1
         /\ DOMAIN s = 1 .. Len(s) /\ DOMAIN Append(s, x) = 1 .. Len(s) + 1
         /\ \A k \in 1 .. Len(s) : Append(s, x)[k] = s[k]
         /\ Append(s, x)[Len(s) + 1] = x
OBVIOUS

LEMMA InvInit == Init => Inv
<1> SUFFICES ASSUME Init PROVE Inv
  OBVIOUS
<1>1. /\ stage = "new" /\ sent = 0 /\ pipelined = {}
      /\ requestBodies = <<>> /\ responseBodies = <<>>
      /\ fromClient = <<>> /\ fromServer = <<>> /\ client_buffer_ = <<>> /\ server_buffer_ = <<>>
      /\ atServer = <<>> /\ made = <<>> /\ delivered = <<>>
      /\ client_body_ = {} /\ server_body_ = {}
  BY DEF Init
<1>2. TypeOK
  <2>1. 0 \in 0 .. MaxRequests
    BY RequestsAssumption
  <2>2. atServer \in Seq(Request) /\ made \in Seq(Response)
        /\ delivered \in Seq(Response \cup {NoResponse})
        /\ requestBodies \in Seq(SUBSET Uploads) /\ responseBodies \in Seq(SUBSET Downloads)
    BY <1>1
  <2> QED BY <1>1, <2>1, <2>2 DEF Init, TypeOK
<1>3. TakenRequests = 0 /\ TakenResponses = 0
  <2>1. Len(<<>>) = 0
    OBVIOUS
  <2>2. TakenRequests = 2 * 0 - 0 - 0 /\ TakenResponses = 2 * 0 - 0 - 0
    BY <1>1, <2>1, Zenon DEF TakenRequests, TakenResponses
  <2> QED BY <2>2
<1>4. StreamsOK
  BY <1>1, <1>3 DEF StreamsOK, Segment
<1>5. RequestsInOrder /\ RequestsAccounted
  BY <1>1, <1>3 DEF RequestsInOrder, RequestsAccounted, Increasing
<1>6. ServerInOrder /\ ResponsesInOrder
  BY <1>1, <1>3 DEF ServerInOrder, ResponsesInOrder
<1>7. Exchanges /\ ResponsesAccounted
  BY <1>1, <1>3 DEF Exchanges, ResponsesAccounted
<1>8. BodiesAccounted /\ SpoiledHasCause /\ AnswersInStep
  BY <1>1, <1>3 DEF BodiesAccounted, SpoiledHasCause, OthersBodies, AnswersInStep
<1> QED BY <1>2, <1>4, <1>5, <1>6, <1>7, <1>8 DEF Inv

\* A delivered final response was given to a request that arrived.
LEMMA DeliveredArrived ==
  ASSUME Inv, NEW i, Final(delivered, i)
  PROVE  AtServer(i)
<1>1. PICK k \in DOMAIN delivered : delivered[k].to = i
  BY DEF Final
<1>2. PICK j \in DOMAIN made : delivered[k] = made[j]
  BY DEF Inv, ResponsesInOrder
<1> QED BY <1>1, <1>2 DEF Inv, ServerInOrder

\* A request is read: those read ahead with it were pipelined, because the one
\* before each of them had not even arrived.
LEMMA ClientReadKeeps == ASSUME Inv, HandleClientRead PROVE Inv'
<1>1. /\ stage = "ClientRead" /\ stage' = "SendToServer"
      /\ UNCHANGED <<fromServer, server_buffer_, server_response_, server_body_, begun>>
      /\ UNCHANGED <<sent, made, pipelined, atServer, delivered, requestBodies, responseBodies>>
  BY DEF HandleClientRead, peers, arrivals
<1>2. StreamsOK' /\ TakenResponses' = TakenResponses
  BY StreamsClientRead DEF Inv
<1>3. PICK i \in 1 .. sent :
        /\ TakenRequests = 2 * (i - 1) /\ TakenRequests' = 2 * i
        /\ client_request_' = i /\ client_body_' = client_body_ \cup RequestBody(i)
  BY StreamsClientRead DEF Inv
<1>4. i \in Request /\ i \in Nat /\ sent \in Nat /\ 1 .. sent \subseteq Nat
  BY RequestsSent DEF Inv
<1>5. atServer \in Seq(Request) /\ \A k \in DOMAIN atServer : atServer[k] \in Nat
  <2>1. Request \subseteq Nat
    BY RequestsAssumption DEF Request
  <2>2. atServer \in Seq(Request)
    BY DEF Inv, TypeOK
  <2>3. \A k \in DOMAIN atServer : atServer[k] \in Request
    BY <2>2
  <2> QED BY <2>1, <2>2, <2>3
<1>6. TypeOK'
  BY <1>1, <1>3, <1>4 DEF Inv, TypeOK, Operations, RequestBody
<1>7. RequestsInOrder'
  <2>1. \A k \in DOMAIN atServer : 2 * atServer[k] <= 2 * (i - 1)
    BY <1>3 DEF Inv, RequestsInOrder
  <2>2. \A k \in DOMAIN atServer : 2 * atServer[k] <= 2 * i /\ atServer[k] < i
    BY <1>4, <1>5, <2>1
  <2> QED BY <1>1, <1>3, <1>4, <2>2 DEF Inv, RequestsInOrder
<1>8. RequestsAccounted'
  <2>1. ASSUME NEW h \in 1 .. sent, 2 * (h - 1) < 2 * i
        PROVE  h = i \/ AtServer(h) \/ h \in pipelined
    <3>1. CASE h = i
      BY <3>1
    <3>2. CASE h # i
      <4>1. 2 * (h - 1) < 2 * (i - 1)
        BY <1>4, <2>1, <3>2
      <4> QED BY <1>1, <1>3, <4>1 DEF Inv, RequestsAccounted, Over
    <3> QED BY <3>1, <3>2
  <2>2. ASSUME NEW h \in 1 .. sent, 2 * i <= 2 * (h - 1) PROVE h \in pipelined
    <3>1. h \in 2 .. sent /\ h - 1 > i - 1 /\ h \in Nat
      BY <1>4, <2>2
    <3>2. ASSUME Final(delivered, h - 1) PROVE FALSE
      <4>1. PICK k \in DOMAIN atServer : atServer[k] = h - 1
        BY <3>2, DeliveredArrived DEF AtServer
      <4>2. 2 * (h - 1) <= 2 * (i - 1)
        BY <1>3, <4>1 DEF Inv, RequestsInOrder
      <4> QED BY <1>4, <3>1, <4>2
    <3> QED BY <3>1, <3>2 DEF Inv, RequestsAccounted
  <2>3. \A h : AtServer(h)' <=> AtServer(h)
    BY <1>1 DEF AtServer
  <2>4. \A h \in 2 .. sent' : h \in pipelined' \/ Final(delivered, h - 1)'
    BY <1>1 DEF Inv, RequestsAccounted
  <2> QED BY <1>1, <1>3, <2>1, <2>2, <2>3, <2>4 DEF RequestsAccounted
<1>9. ServerInOrder' /\ ResponsesInOrder'
  BY <1>1, <1>2 DEF Inv, ServerInOrder, ResponsesInOrder, AtServer, Excused
<1>10. Exchanges'
  BY <1>1, <1>2 DEF Inv, Exchanges
<1>11. ResponsesAccounted'
  BY <1>1, <1>2 DEF Inv, ResponsesAccounted, Delivered, Excused, Over
<1>12. BodiesAccounted'
  BY <1>1, <1>3 DEF Inv, BodiesAccounted, Over
<1>13. SpoiledHasCause'
  BY <1>1 DEF Inv, SpoiledHasCause, OthersBodies
<1>14. AnswersInStep'
  <2>1. ASSUME pipelined = {} PROVE i = Len(atServer) + 1
    <3>1. 2 * (i - 1) = 2 * Len(atServer)
      BY <1>1, <1>3, <2>1 DEF Inv, AnswersInStep
    <3> QED BY <1>4, <1>5, <3>1
  <2> QED BY <1>1, <1>3, <2>1 DEF Inv, AnswersInStep, NoInterim
<1> QED BY <1>2, <1>6, <1>7, <1>8, <1>9, <1>10, <1>11, <1>12, <1>13, <1>14 DEF Inv

\* A request arrives, and the write succeeds or fails.
LEMMA RequestArrivesKeeps ==
  ASSUME Inv, RequestArrives, UNCHANGED <<streams, sent, made, pipelined>>,
         UNCHANGED <<client_request_, server_response_, client_body_, server_body_>>,
         \/ stage' = "ServerRead" /\ begun' = client_request_
         \/ stage' = "cancelled" /\ begun' = begun
  PROVE  Inv'
<1> DEFINE q == client_request_
           n == Len(atServer)
<1>1. /\ stage = "SendToServer" /\ stage' \in {"ServerRead", "cancelled"}
      /\ atServer' = Append(atServer, q) /\ delivered' = delivered
      /\ requestBodies' = Append(requestBodies, client_body_) /\ responseBodies' = responseBodies
  BY DEF RequestArrives
<1>2. /\ q \in Request /\ q \in Nat /\ 2 * q <= TakenRequests
      /\ \A k \in DOMAIN atServer : atServer[k] < q
  BY <1>1 DEF Inv, RequestsInOrder, Request
<1>3. /\ atServer' \in Seq(Request) /\ n \in Nat /\ Len(atServer') = n + 1
      /\ DOMAIN atServer = 1 .. n /\ DOMAIN atServer' = 1 .. n + 1
      /\ (\A k \in 1 .. n : atServer'[k] = atServer[k]) /\ atServer'[n + 1] = q
  BY <1>1, <1>2, Appended DEF Inv, TypeOK
<1>16. /\ requestBodies' \in Seq(SUBSET Uploads) /\ Len(requestBodies') = n + 1
       /\ \A k \in 1 .. n : requestBodies'[k] = requestBodies[k]
       /\ requestBodies'[n + 1] = client_body_
  <2>1. /\ requestBodies \in Seq(SUBSET Uploads) /\ Len(requestBodies) = n
        /\ client_body_ \in SUBSET Uploads
    BY DEF Inv, TypeOK
  <2> QED BY <1>1, <2>1, Appended
<1>4. StreamsOK' /\ TakenRequests' = TakenRequests /\ TakenResponses' = TakenResponses
  BY <1>1, SameStreams DEF streams, Inv
<1>5. TypeOK'
  BY <1>1, <1>2, <1>3, <1>16 DEF Inv, TypeOK, Operations, streams
<1>6. RequestsInOrder'
  <2>1. Increasing(atServer')
    BY <1>2, <1>3 DEF Inv, RequestsInOrder, Increasing
  <2> QED BY <1>1, <1>2, <1>3, <1>4, <2>1 DEF Inv, RequestsInOrder
<1>7. (\A h : AtServer(h) => AtServer(h)') /\ AtServer(q)'
  BY <1>3 DEF AtServer
<1>8. RequestsAccounted'
  BY <1>1, <1>4, <1>7 DEF Inv, RequestsAccounted, streams, Over
<1>9. ServerInOrder'
  <2>1. \A j \in DOMAIN made : \E k \in DOMAIN atServer' : atServer'[k] = made[j].to
    BY <1>7 DEF Inv, ServerInOrder, AtServer
  <2>2. ASSUME NEW j \in DOMAIN made', NEW l \in DOMAIN atServer', made'[j].to = atServer'[l]
        PROVE  \A h \in 1 .. l - 1 : Final(made, atServer[h])' 
    <3>1. PICK k \in DOMAIN atServer : atServer[k] = made[j].to
      BY DEF Inv, ServerInOrder, AtServer
    <3>2. atServer'[l] # q
      BY <1>2, <2>2, <3>1
    <3>3. l \in 1 .. n /\ made[j].to = atServer[l]
      BY <1>3, <2>2, <3>2
    <3> QED BY <1>3, <3>3 DEF Inv, ServerInOrder
  <2>3. \A j \in DOMAIN made' :
          Excused(j)' \/ (j \in DOMAIN atServer' /\ made'[j].to = atServer'[j])
    BY <1>3 DEF Inv, ServerInOrder, Excused
  <2> QED BY <2>1, <2>2, <2>3 DEF Inv, ServerInOrder, AtServer
<1>10. ResponsesInOrder'
  BY <1>1, <1>4 DEF Inv, ResponsesInOrder
<1>11. Exchanges'
  <2>1. Len(delivered) = n /\ 2 * n <= TakenResponses
    BY <1>1 DEF Inv, Exchanges
  <2>2. Len(delivered') = Len(atServer') - 1 /\ 2 * (Len(atServer') - 1) <= TakenResponses'
        /\ q = atServer'[Len(atServer')]
    BY <1>1, <1>3, <1>4, <2>1
  <2> QED BY <1>1, <2>2 DEF Exchanges
<1>12. ResponsesAccounted'
  BY <1>1, <1>4 DEF Inv, ResponsesAccounted, Delivered, Excused, streams, Over
<1>13. BodiesAccounted'
  <2>1. \A b \in client_body_ : \E k \in DOMAIN atServer' : b \in RequestBody(atServer'[k])
    BY <1>1, <1>3 DEF Inv, BodiesAccounted, Over
  <2> QED BY <1>1, <2>1 DEF Inv, BodiesAccounted, Over
<1>14. SpoiledHasCause'
  <2>1. ASSUME NEW k \in 1 .. n
        PROVE  /\ RequestBody(atServer'[k]) \subseteq requestBodies'[k]
               /\ requestBodies'[k] \subseteq UNION {RequestBody(atServer'[h]) : h \in 1 .. k}
    <3>1. \A h \in 1 .. k : atServer'[h] = atServer[h]
      BY <1>3
    <3>2. /\ RequestBody(atServer[k]) \subseteq requestBodies[k]
          /\ requestBodies[k] \subseteq UNION {RequestBody(atServer[h]) : h \in 1 .. k}
      BY <1>3 DEF Inv, SpoiledHasCause, OthersBodies
    <3> QED BY <1>3, <1>16, <3>1, <3>2
  <2>2. RequestBody(atServer'[n + 1]) \subseteq requestBodies'[n + 1]
    BY <1>1, <1>3, <1>16 DEF Inv, BodiesAccounted
  <2>3. ASSUME NEW b \in client_body_ PROVE \E h \in 1 .. n + 1 : b \in RequestBody(atServer'[h])
    BY <1>1, <1>3 DEF Inv, BodiesAccounted, Over
  <2>4. requestBodies'[n + 1] \subseteq UNION {RequestBody(atServer'[h]) : h \in 1 .. n + 1}
    BY <1>16, <2>3
  <2>5. \A k \in DOMAIN atServer' :
          /\ RequestBody(atServer'[k]) \subseteq requestBodies'[k]
          /\ requestBodies'[k] \subseteq UNION {RequestBody(atServer'[h]) : h \in 1 .. k}
    BY <1>3, <2>1, <2>2, <2>4
  <2>6. \A k \in DOMAIN delivered' :
          /\ ResponseBody(delivered'[k]) \subseteq responseBodies'[k]
          /\ responseBodies'[k] \subseteq UNION {ResponseBody(delivered'[h]) : h \in 1 .. k}
    BY <1>1 DEF Inv, SpoiledHasCause, OthersBodies
  <2> QED BY <2>5, <2>6 DEF SpoiledHasCause, OthersBodies
<1>15. AnswersInStep'
  <2>1. ASSUME pipelined = {} PROVE q = n + 1 /\ TakenRequests = 2 * q
    BY <1>1, <2>1 DEF Inv, AnswersInStep
  <2>2. NoInterim' => NoInterim
    BY DEF NoInterim, Interim
  <2>3. pipelined = {} => \A k \in DOMAIN atServer' : atServer'[k] = k
    BY <1>3, <2>1 DEF Inv, AnswersInStep
  <2> QED BY <1>1, <1>3, <1>4, <2>1, <2>2, <2>3 DEF Inv, AnswersInStep
<1> QED BY <1>4, <1>5, <1>6, <1>8, <1>9, <1>10, <1>11, <1>12, <1>13, <1>14, <1>15 DEF Inv

\* A response is read: without interim responses the first one not read is that
\* to the last request that arrived, and so none comes behind it.
LEMMA ServerReadKeeps == ASSUME Inv, HandleServerRead PROVE Inv'
<1> DEFINE n == Len(atServer)
<1>1. /\ stage = "ServerRead" /\ stage' = "SendToClient"
      /\ UNCHANGED <<fromClient, client_buffer_, client_request_, client_body_, begun>>
      /\ UNCHANGED <<sent, made, pipelined, atServer, delivered, requestBodies, responseBodies>>
  BY DEF HandleServerRead, peers, arrivals
<1>2. StreamsOK' /\ TakenRequests' = TakenRequests
  BY StreamsServerRead DEF Inv
<1>3. PICK j \in DOMAIN made :
        /\ TakenResponses = 2 * (j - 1) /\ TakenResponses' = 2 * j
        /\ server_response_' = made[j] /\ server_body_' = server_body_ \cup ResponseBody(made[j])
  BY StreamsServerRead DEF Inv
<1>4. /\ made \in Seq(Response) /\ made[j] \in Response /\ DOMAIN made \subseteq Nat /\ j \in Nat
      /\ atServer \in Seq(Request) /\ n \in Nat /\ DOMAIN atServer = 1 .. n
  BY DEF Inv, TypeOK
<1>5. Len(delivered) = n - 1 /\ begun = atServer[n] /\ n <= j
  <2>1. 2 * (n - 1) <= 2 * (j - 1) /\ Len(delivered) = n - 1 /\ begun = atServer[n]
    BY <1>1, <1>3 DEF Inv, Exchanges
  <2> QED BY <1>4, <2>1
<1>6. TypeOK'
  <2>1. ResponseBody(made[j]) \subseteq Downloads
    BY DEF ResponseBody
  <2> QED BY <1>1, <1>3, <1>4, <2>1 DEF Inv, TypeOK, Operations
<1>7. RequestsInOrder' /\ RequestsAccounted'
  BY <1>1, <1>2 DEF Inv, RequestsInOrder, RequestsAccounted, AtServer, Over
<1>8. ServerInOrder'
  BY <1>1 DEF Inv, ServerInOrder, AtServer, Excused
<1>9. ResponsesInOrder'
  <2>1. ASSUME NEW k \in DOMAIN delivered
        PROVE  /\ \E i \in DOMAIN made : delivered[k] = made[i] /\ 2 * i <= 2 * j
               /\ \A i \in DOMAIN made : delivered[k] = made[i] => i < j
    <3>1. PICK i \in DOMAIN made : delivered[k] = made[i] /\ 2 * i <= 2 * (j - 1)
      BY <1>3 DEF Inv, ResponsesInOrder
    <3>2. i < j
      BY <1>4, <3>1
    <3>3. \A h \in DOMAIN made : delivered[k] = made[h] => h = i
      BY <3>1 DEF Inv, ServerInOrder
    <3> QED BY <1>4, <3>1, <3>2, <3>3
  <2>2. 2 * j <= 2 * j
    BY <1>4
  <2> QED BY <1>1, <1>3, <2>1, <2>2 DEF Inv, ResponsesInOrder
<1>10. Exchanges'
  <2>1. 2 * n <= 2 * j
    BY <1>4, <1>5
  <2> QED BY <1>1, <1>3, <1>5, <2>1 DEF Exchanges
<1>11. ResponsesAccounted'
  <2>1. ASSUME NEW h \in DOMAIN made, 2 * (h - 1) < 2 * j
        PROVE  h = j \/ Delivered(made[h]) \/ Excused(h)
    <3>1. CASE h = j
      BY <3>1
    <3>2. CASE h # j
      <4>1. 2 * (h - 1) < 2 * (j - 1)
        BY <1>4, <2>1, <3>2
      <4> QED BY <1>1, <1>3, <4>1 DEF Inv, ResponsesAccounted, Over
    <3> QED BY <3>1, <3>2
  <2>2. ASSUME NEW h \in DOMAIN made, 2 * j <= 2 * (h - 1) PROVE Excused(h)
    <3>1. h \notin DOMAIN atServer
      BY <1>4, <1>5, <2>2
    <3> QED BY <3>1 DEF Inv, ServerInOrder
  <2>3. \A h : (Delivered(h)' <=> Delivered(h)) /\ (Excused(h)' <=> Excused(h))
    BY <1>1 DEF Delivered, Excused
  <2> QED BY <1>1, <1>3, <2>1, <2>2, <2>3 DEF ResponsesAccounted
<1>12. BodiesAccounted'
  BY <1>1, <1>3 DEF Inv, BodiesAccounted, Over
<1>13. SpoiledHasCause'
  BY <1>1 DEF Inv, SpoiledHasCause, OthersBodies
<1>14. AnswersInStep'
  <2>1. ASSUME NoInterim PROVE made[j].to = begun
    <3>1. \A i \in 1 .. j - 1 : i \in DOMAIN made /\ made[i] \in Response
      BY <1>4
    <3>2. ~Excused(j)
      BY <2>1, <3>1 DEF Excused, NoInterim, Interim, Response
    <3>3. j \in DOMAIN atServer /\ made[j].to = atServer[j]
      BY <3>2 DEF Inv, ServerInOrder
    <3>4. j = n
      BY <1>4, <1>5, <3>3
    <3> QED BY <1>5, <3>3, <3>4
  <2> QED BY <1>1, <1>2, <1>3, <2>1 DEF Inv, AnswersInStep, NoInterim
<1> QED BY <1>2, <1>6, <1>7, <1>8, <1>9, <1>10, <1>11, <1>12, <1>13, <1>14 DEF Inv

\* A response arrives; then what was read ahead is cleared, all of it accounted
\* for, or the write fails.
LEMMA ResponseArrivesKeeps ==
  ASSUME Inv, ResponseArrives, UNCHANGED <<fromClient, fromServer, begun, sent, made, pipelined>>,
         \/ ClientRead
         \/ stage' = "cancelled" /\ UNCHANGED <<streams, messages>>
  PROVE  Inv'
<1> DEFINE r == server_response_
           n == Len(delivered)
<1>1. /\ stage = "SendToClient" /\ stage' \in {"ClientRead", "cancelled"}
      /\ delivered' = Append(delivered, r) /\ atServer' = atServer
      /\ responseBodies' = Append(responseBodies, server_body_) /\ requestBodies' = requestBodies
      /\ client_body_' = client_body_ /\ server_body_' = server_body_
  BY DEF ResponseArrives, ClientRead, Clears, messages
<1>2. PICK j \in DOMAIN made :
        /\ r = made[j] /\ 2 * j <= TakenResponses
        /\ \A k \in DOMAIN delivered, i \in DOMAIN made : delivered[k] = made[i] => i < j
  BY <1>1 DEF Inv, ResponsesInOrder
<1>3. /\ made \in Seq(Response) /\ DOMAIN made \subseteq Nat /\ r \in Response
      /\ delivered \in Seq(Response \cup {NoResponse})
  <2>1. made \in Seq(Response) /\ delivered \in Seq(Response \cup {NoResponse})
    BY DEF Inv, TypeOK
  <2> QED BY <1>2, <2>1
<1>4. /\ delivered' \in Seq(Response \cup {NoResponse}) /\ n \in Nat /\ Len(delivered') = n + 1
      /\ DOMAIN delivered = 1 .. n /\ DOMAIN delivered' = 1 .. n + 1
      /\ (\A k \in 1 .. n : delivered'[k] = delivered[k]) /\ delivered'[n + 1] = r
  BY <1>1, <1>3, Appended
<1>17. /\ responseBodies' \in Seq(SUBSET Downloads) /\ Len(responseBodies') = n + 1
       /\ \A k \in 1 .. n : responseBodies'[k] = responseBodies[k]
       /\ responseBodies'[n + 1] = server_body_
  <2>1. /\ responseBodies \in Seq(SUBSET Downloads) /\ Len(responseBodies) = n
        /\ server_body_ \in SUBSET Downloads
    BY DEF Inv, TypeOK
  <2> QED BY <1>1, <2>1, Appended
<1>5. /\ StreamsOK'
      /\ \/ /\ TakenRequests' = TakenRequests + Len(client_buffer_) /\ client_buffer_' = <<>>
            /\ TakenResponses' = TakenResponses + Len(server_buffer_) /\ server_buffer_' = <<>>
         \/ /\ TakenRequests' = TakenRequests /\ TakenResponses' = TakenResponses
            /\ UNCHANGED <<client_buffer_, server_buffer_>> /\ stage' = "cancelled"
  <2>1. CASE ClientRead
    BY <2>1, StreamsCleared DEF Inv, ClientRead, Clears
  <2>2. CASE stage' = "cancelled" /\ UNCHANGED <<streams, messages>>
    BY <2>2, SameStreams DEF Inv, streams
  <2> QED BY <2>1, <2>2
<1>6. /\ TakenRequests \in Nat /\ Len(client_buffer_) \in Nat /\ TakenRequests' \in Nat
      /\ TakenRequests <= TakenRequests' /\ TakenRequests' <= TakenRequests + Len(client_buffer_)
      /\ TakenResponses \in Nat /\ Len(server_buffer_) \in Nat /\ TakenResponses' \in Nat
      /\ TakenResponses <= TakenResponses' /\ TakenResponses' <= TakenResponses + Len(server_buffer_)
      /\ TakenRequests' + Len(client_buffer_') <= TakenRequests + Len(client_buffer_)
      /\ TakenResponses' + Len(server_buffer_') <= TakenResponses + Len(server_buffer_)
  <2>1. /\ TakenRequests \in Nat /\ Len(client_buffer_) \in Nat
        /\ TakenResponses \in Nat /\ Len(server_buffer_) \in Nat
    BY StreamTypes DEF Inv
  <2> QED BY <1>5, <2>1
<1>7. TypeOK'
  <2>1. CASE ClientRead
    BY <1>1, <1>4, <1>17, <2>1 DEF Inv, TypeOK, Operations, ClientRead, Clears
  <2>2. CASE stage' = "cancelled" /\ UNCHANGED <<streams, messages>>
    BY <1>1, <1>4, <1>17, <2>2 DEF Inv, TypeOK, Operations, streams, messages
  <2> QED BY <2>1, <2>2
<1>8. RequestsInOrder'
  <2>1. \A k \in DOMAIN atServer : atServer[k] \in Nat
    <3>1. atServer \in Seq(Request)
      BY DEF Inv, TypeOK
    <3>2. Request \subseteq Nat
      BY RequestsAssumption DEF Request
    <3>3. \A k \in DOMAIN atServer : atServer[k] \in Request
      BY <3>1
    <3> QED BY <3>2, <3>3
  <2>2. \A k \in DOMAIN atServer : 2 * atServer[k] <= TakenRequests'
    <3>1. \A k \in DOMAIN atServer : 2 * atServer[k] <= TakenRequests
      BY DEF Inv, RequestsInOrder
    <3> QED BY <1>6, <2>1, <3>1
  <2> QED BY <1>1, <2>2 DEF Inv, RequestsInOrder
<1>9. RequestsAccounted'
  <2>1. ASSUME NEW i \in 1 .. sent, 2 * (i - 1) < TakenRequests'
        PROVE  AtServer(i) \/ i \in pipelined
    <3>1. i \in Nat /\ 2 * (i - 1) \in Int
      BY RequestsSent DEF Inv
    <3>2. CASE 2 * (i - 1) < TakenRequests
      BY <1>1, <3>2 DEF Inv, RequestsAccounted, Over
    <3>3. CASE TakenRequests <= 2 * (i - 1)
      <4>1. 2 * (i - 1) < TakenRequests + Len(client_buffer_)
        BY <1>6, <2>1, <3>1
      <4> QED BY <3>3, <4>1 DEF Inv, RequestsAccounted
    <3> QED BY <1>6, <3>1, <3>2, <3>3
  <2>2. ASSUME NEW i \in 1 .. sent, TakenRequests' <= 2 * (i - 1),
               2 * (i - 1) < TakenRequests' + Len(client_buffer_')
        PROVE  i \in pipelined
    <3>1. i \in Nat /\ 2 * (i - 1) \in Int
      BY RequestsSent DEF Inv
    <3>2. Len(client_buffer_') \in Nat
      BY <1>5, <1>6
    <3>3. TakenRequests <= 2 * (i - 1) /\ 2 * (i - 1) < TakenRequests + Len(client_buffer_)
      BY <1>6, <2>2, <3>1, <3>2
    <3> QED BY <3>3 DEF Inv, RequestsAccounted
  <2>3. \A i \in 2 .. sent : i \in pipelined \/ Final(delivered', i - 1)
    BY <1>4 DEF Inv, RequestsAccounted, Final
  <2> QED BY <1>1, <2>1, <2>2, <2>3 DEF RequestsAccounted, AtServer
<1>10. ServerInOrder'
  BY <1>1 DEF Inv, ServerInOrder, AtServer, Excused
<1>11. ResponsesInOrder'
  <2>1. ASSUME NEW k \in DOMAIN delivered'
        PROVE  \E i \in DOMAIN made : delivered'[k] = made[i] /\ 2 * i <= TakenResponses'
    <3>1. CASE k \in 1 .. n
      <4>1. PICK i \in DOMAIN made : delivered[k] = made[i] /\ 2 * i <= TakenResponses
        BY <1>4, <3>1 DEF Inv, ResponsesInOrder
      <4>2. 2 * i <= TakenResponses'
        BY <1>3, <1>6, <4>1, SMTT(30)
      <4> QED BY <1>4, <3>1, <4>1, <4>2
    <3>2. CASE k = n + 1
      <4>1. 2 * j <= TakenResponses'
        BY <1>2, <1>3, <1>6, SMTT(30)
      <4> QED BY <1>2, <1>4, <3>2, <4>1
    <3> QED BY <1>4, <3>1, <3>2
  <2>2. ASSUME NEW k \in DOMAIN delivered', NEW l \in DOMAIN delivered', k < l,
               NEW h \in DOMAIN made, NEW i \in DOMAIN made,
               delivered'[k] = made[h], delivered'[l] = made[i]
        PROVE  h < i
    <3>1. CASE l \in 1 .. n
      BY <1>4, <2>2, <3>1 DEF Inv, ResponsesInOrder
    <3>2. CASE l = n + 1
      <4>1. k \in 1 .. n /\ made[i] = made[j]
        BY <1>2, <1>4, <2>2, <3>2
      <4>2. i = j
        BY <4>1 DEF Inv, ServerInOrder
      <4> QED BY <1>2, <1>4, <2>2, <4>1, <4>2
    <3> QED BY <1>4, <3>1, <3>2
  <2> QED BY <1>1, <2>1, <2>2 DEF ResponsesInOrder
<1>12. Exchanges'
  <2>1. Len(atServer) \in Nat
    BY DEF Inv, TypeOK
  <2>2. n = Len(atServer) - 1 /\ 2 * Len(atServer) <= TakenResponses
    BY <1>1 DEF Inv, Exchanges
  <2>3. Len(delivered') = Len(atServer') /\ 2 * Len(atServer') <= TakenResponses'
    BY <1>1, <1>4, <1>6, <2>1, <2>2
  <2> QED BY <1>1, <2>3 DEF Exchanges
<1>13. ResponsesAccounted'
  <2>1. ASSUME NEW i \in DOMAIN made, 2 * (i - 1) < TakenResponses'
        PROVE  Delivered(made[i])' \/ Excused(i)
    <3>1. i \in Nat /\ 2 * (i - 1) \in Int
      BY <1>3
    <3>2. CASE 2 * (i - 1) < TakenResponses
      <4>1. r = made[i] \/ Delivered(made[i]) \/ Excused(i)
        BY <1>1, <3>2 DEF Inv, ResponsesAccounted, Over
      <4>2. r = made[i] \/ Delivered(made[i]) => \E k \in DOMAIN delivered' : delivered'[k] = made[i]
        BY <1>4 DEF Delivered
      <4> QED BY <4>1, <4>2 DEF Delivered
    <3>3. CASE TakenResponses <= 2 * (i - 1)
      <4>1. 2 * (i - 1) < TakenResponses + Len(server_buffer_)
        BY <1>6, <2>1, <3>1
      <4> QED BY <3>3, <4>1 DEF Inv, ResponsesAccounted
    <3> QED BY <1>6, <3>1, <3>2, <3>3
  <2>2. ASSUME NEW i \in DOMAIN made, TakenResponses' <= 2 * (i - 1),
               2 * (i - 1) < TakenResponses' + Len(server_buffer_')
        PROVE  Excused(i)
    <3>1. i \in Nat /\ 2 * (i - 1) \in Int
      BY <1>3
    <3>2. Len(server_buffer_') \in Nat
      BY <1>5, <1>6
    <3>3. TakenResponses <= 2 * (i - 1) /\ 2 * (i - 1) < TakenResponses + Len(server_buffer_)
      BY <1>6, <2>2, <3>1, <3>2, SMTT(30)
    <3> QED BY <3>3 DEF Inv, ResponsesAccounted
  <2> QED BY <1>1, <2>1, <2>2 DEF ResponsesAccounted, Delivered, Excused
<1>14. BodiesAccounted'
  <2>1. \A b \in server_body_ : \E k \in DOMAIN delivered' : b \in ResponseBody(delivered'[k])
    BY <1>1, <1>4 DEF Inv, BodiesAccounted, Over
  <2>2. \A b \in client_body_ : \E k \in DOMAIN atServer : b \in RequestBody(atServer[k])
    BY <1>1 DEF Inv, BodiesAccounted, Over
  <2> QED BY <1>1, <2>1, <2>2 DEF BodiesAccounted
<1>15. SpoiledHasCause'
  <2>1. ASSUME NEW k \in 1 .. n
        PROVE  /\ ResponseBody(delivered'[k]) \subseteq responseBodies'[k]
               /\ responseBodies'[k] \subseteq UNION {ResponseBody(delivered'[h]) : h \in 1 .. k}
    <3>1. \A h \in 1 .. k : delivered'[h] = delivered[h]
      BY <1>4
    <3>2. /\ ResponseBody(delivered[k]) \subseteq responseBodies[k]
          /\ responseBodies[k] \subseteq UNION {ResponseBody(delivered[h]) : h \in 1 .. k}
      BY <1>4 DEF Inv, SpoiledHasCause, OthersBodies
    <3> QED BY <1>4, <1>17, <3>1, <3>2
  <2>2. ResponseBody(delivered'[n + 1]) \subseteq responseBodies'[n + 1]
    BY <1>1, <1>4, <1>17 DEF Inv, BodiesAccounted
  <2>3. ASSUME NEW b \in server_body_ PROVE \E h \in 1 .. n + 1 : b \in ResponseBody(delivered'[h])
    BY <1>1, <1>4 DEF Inv, BodiesAccounted, Over
  <2>4. responseBodies'[n + 1] \subseteq UNION {ResponseBody(delivered'[h]) : h \in 1 .. n + 1}
    BY <1>17, <2>3
  <2>5. \A k \in DOMAIN delivered' :
          /\ ResponseBody(delivered'[k]) \subseteq responseBodies'[k]
          /\ responseBodies'[k] \subseteq UNION {ResponseBody(delivered'[h]) : h \in 1 .. k}
    BY <1>4, <2>1, <2>2, <2>4
  <2>6. \A k \in DOMAIN atServer' :
          /\ RequestBody(atServer'[k]) \subseteq requestBodies'[k]
          /\ requestBodies'[k] \subseteq UNION {RequestBody(atServer'[h]) : h \in 1 .. k}
    BY <1>1 DEF Inv, SpoiledHasCause, OthersBodies
  <2> QED BY <2>5, <2>6 DEF SpoiledHasCause, OthersBodies
<1>16. AnswersInStep'
  <2>1. Len(atServer) = n + 1 /\ begun = atServer[n + 1]
    <3>1. n = Len(atServer) - 1 /\ begun = atServer[Len(atServer)]
      BY <1>1 DEF Inv, Exchanges
    <3>2. Len(atServer) \in Nat
      BY DEF Inv, TypeOK
    <3> QED BY <3>1, <3>2
  <2>2. ASSUME pipelined = {}, Len(client_buffer_) # 0 PROVE FALSE
    <3>1. TakenRequests = 2 * (n + 1)
      BY <1>1, <2>1, <2>2 DEF Inv, AnswersInStep
    <3>2. TakenRequests + Len(client_buffer_) <= 2 * sent /\ sent \in Nat
      <4>1. /\ TakenRequests + Len(client_buffer_) + Len(fromClient) = 2 * sent
            /\ Len(fromClient) \in Nat /\ sent \in Nat
        BY StreamTypes DEF Inv
      <4> QED BY <1>6, <4>1
    <3>3. n + 2 \in 1 .. sent
      BY <1>4, <1>6, <2>2, <3>1, <3>2, SMTT(30)
    <3>4. TakenRequests <= 2 * ((n + 2) - 1) /\ 2 * ((n + 2) - 1) < TakenRequests + Len(client_buffer_)
      BY <1>4, <1>6, <2>2, <3>1
    <3> QED BY <2>2, <3>3, <3>4 DEF Inv, RequestsAccounted
  <2>3. pipelined = {} => TakenRequests' = 2 * Len(atServer)
    <3>1. ASSUME pipelined = {} PROVE TakenRequests = 2 * Len(atServer) /\ Len(client_buffer_) = 0
      BY <1>1, <2>2, <3>1 DEF Inv, AnswersInStep
    <3> QED BY <1>5, <1>6, <3>1
  <2>4. ASSUME pipelined = {}, NoInterim, NEW k \in DOMAIN delivered' PROVE delivered'[k].to = k
    <3>1. CASE k \in 1 .. n
      BY <1>4, <2>4, <3>1 DEF Inv, AnswersInStep
    <3>2. CASE k = n + 1
      <4>1. r.to = begun
        BY <1>1, <2>4 DEF Inv, AnswersInStep
      <4>2. n + 1 \in DOMAIN atServer
        BY <1>4, <2>1 DEF Inv, TypeOK
      <4>3. atServer[n + 1] = n + 1
        BY <2>4, <4>2 DEF Inv, AnswersInStep
      <4> QED BY <1>4, <2>1, <3>2, <4>1, <4>3
    <3> QED BY <1>4, <3>1, <3>2
  <2> QED BY <1>1, <2>3, <2>4 DEF Inv, AnswersInStep, NoInterim
<1> QED BY <1>5, <1>7, <1>8, <1>9, <1>10, <1>11, <1>12, <1>13, <1>14, <1>15, <1>16 DEF Inv

\* The client sends one more request, pipelined unless the last was answered.
LEMMA ClientSendsKeeps == ASSUME Inv, ClientSends PROVE Inv'
<1>1. /\ sent' = sent + 1 /\ sent < MaxRequests
      /\ pipelined' = IF sent = 0 \/ Final(delivered, sent)
                      THEN pipelined ELSE pipelined \cup {sent + 1}
      /\ UNCHANGED <<stage, fromServer, client_buffer_, server_buffer_, messages>>
      /\ UNCHANGED <<made, atServer, delivered, requestBodies, responseBodies>>
  BY DEF ClientSends, arrivals
<1>2. StreamsOK' /\ TakenRequests' = TakenRequests /\ TakenResponses' = TakenResponses
  BY StreamsClientSends DEF Inv
<1>3. sent \in Nat /\ sent + 1 \in Request /\ sent + 1 \in 0 .. MaxRequests
  BY <1>1, RequestsSent, RequestsAssumption DEF Inv, Request
<1>4. TypeOK'
  BY <1>1, <1>3 DEF Inv, TypeOK, messages
<1>5. RequestsInOrder'
  BY <1>1, <1>2 DEF Inv, RequestsInOrder, messages
<1>6. RequestsAccounted'
  <2>1. /\ TakenRequests \in Nat /\ Len(client_buffer_) \in Nat
        /\ TakenRequests + Len(client_buffer_) <= 2 * sent
    <3>1. /\ TakenRequests \in Nat /\ Len(client_buffer_) \in Nat /\ Len(fromClient) \in Nat
          /\ TakenRequests + Len(client_buffer_) + Len(fromClient) = 2 * sent
      BY StreamTypes DEF Inv
    <3> QED BY <1>3, <3>1
  <2>2. \A i \in 1 .. sent' : i \in 1 .. sent \/ i = sent + 1
    BY <1>1, <1>3
  <2>3. ~(2 * ((sent + 1) - 1) < TakenRequests)
        /\ ~(2 * ((sent + 1) - 1) < TakenRequests + Len(client_buffer_))
    BY <1>3, <2>1
  <2>4. pipelined \subseteq pipelined'
    BY <1>1
  <2>5. ASSUME NEW i \in 2 .. sent' PROVE i \in pipelined' \/ Final(delivered, i - 1)
    <3>1. CASE i \in 2 .. sent
      BY <2>4, <3>1 DEF Inv, RequestsAccounted
    <3>2. CASE i = sent + 1
      <4>1. i - 1 = sent /\ sent # 0
        BY <1>1, <1>3, <3>2
      <4> QED BY <1>1, <3>2, <4>1
    <3> QED BY <1>1, <1>3, <3>1, <3>2
  <2>6. ASSUME ~Over, NEW i \in 1 .. sent', 2 * (i - 1) < TakenRequests
        PROVE  \/ stage = "SendToServer" /\ client_request_ = i
               \/ AtServer(i) \/ i \in pipelined
    BY <2>2, <2>3, <2>6 DEF Inv, RequestsAccounted
  <2>7. ASSUME NEW i \in 1 .. sent', TakenRequests <= 2 * (i - 1),
               2 * (i - 1) < TakenRequests + Len(client_buffer_)
        PROVE  i \in pipelined
    BY <2>2, <2>3, <2>7 DEF Inv, RequestsAccounted
  <2> QED BY <1>1, <1>2, <2>4, <2>5, <2>6, <2>7 DEF RequestsAccounted, AtServer, Over, messages
<1>7. ServerInOrder' /\ ResponsesInOrder'
  BY <1>1, <1>2 DEF Inv, ServerInOrder, ResponsesInOrder, AtServer, Excused, messages
<1>8. Exchanges'
  BY <1>1, <1>2 DEF Inv, Exchanges, messages
<1>9. ResponsesAccounted'
  BY <1>1, <1>2 DEF Inv, ResponsesAccounted, Delivered, Excused, Over, messages
<1>10. BodiesAccounted'
  BY <1>1 DEF Inv, BodiesAccounted, Over, messages
<1>11. SpoiledHasCause'
  BY <1>1 DEF Inv, SpoiledHasCause, OthersBodies
<1>12. AnswersInStep'
  <2>1. pipelined' = {} => pipelined = {}
    BY <1>1
  <2> QED BY <1>1, <1>2, <2>1 DEF Inv, AnswersInStep, NoInterim, messages
<1> QED BY <1>2, <1>4, <1>5, <1>6, <1>7, <1>8, <1>9, <1>10, <1>11, <1>12 DEF Inv

\* The server answers the request at place k: when it has sent no interim
\* response, there is one response for each request before it.
LEMMA AnsweredSoFar ==
  ASSUME Inv, NEW k \in DOMAIN atServer, ~Final(made, atServer[k]),
         \A h \in 1 .. k - 1 : Final(made, atServer[h]),
         \A i \in DOMAIN made : made[i].final
  PROVE  Len(made) = k - 1
<1>1. /\ atServer \in Seq(Request) /\ DOMAIN atServer = 1 .. Len(atServer) /\ Len(atServer) \in Nat
      /\ made \in Seq(Response) /\ DOMAIN made = 1 .. Len(made) /\ Len(made) \in Nat /\ k \in Nat
  BY DEF Inv, TypeOK
<1>2. /\ \A l \in DOMAIN atServer : atServer[l] \in Nat \ {0}
      /\ \A j \in DOMAIN made : made[j] \in Response /\ made[j].to \in Nat
  <2>1. Request \subseteq Nat \ {0}
    BY RequestsAssumption DEF Request
  <2>2. \A l \in DOMAIN atServer : atServer[l] \in Request
    BY <1>1
  <2>3. \A j \in DOMAIN made : made[j] \in Response
    BY <1>1
  <2> QED BY <2>1, <2>2, <2>3 DEF Response
<1>3. \A h, l \in DOMAIN atServer : (h < l => atServer[h] < atServer[l])
  BY DEF Inv, RequestsInOrder, Increasing
<1>4. ASSUME NEW j \in DOMAIN made PROVE j < k /\ made[j].to = atServer[j]
  <2>1. PICK l \in DOMAIN atServer : atServer[l] = made[j].to
    BY DEF Inv, ServerInOrder, AtServer
  <2>2. l # k
    <3> SUFFICES ASSUME made[j].to = atServer[k] PROVE FALSE
      BY <2>1
    <3> QED BY DEF Final
  <2>3. ~(l > k)
    <3> SUFFICES ASSUME l > k PROVE FALSE
      OBVIOUS
    <3>1. k \in 1 .. l - 1
      BY <1>1
    <3> QED BY <2>1, <3>1 DEF Inv, ServerInOrder
  <2>4. l < k
    BY <1>1, <2>2, <2>3
  <2>5. ~Excused(j)
    BY <1>1 DEF Excused
  <2>6. j \in DOMAIN atServer /\ made[j].to = atServer[j]
    BY <2>5 DEF Inv, ServerInOrder
  <2>7. j = l
    <3>1. ~(j < l) /\ ~(l < j)
      <4>1. atServer[j] = atServer[l] /\ atServer[l] \in Nat
        BY <1>2, <2>1, <2>6
      <4> QED BY <1>3, <2>6, <4>1
    <3> QED BY <1>1, <2>6, <3>1
  <2> QED BY <2>4, <2>6, <2>7
<1>5. Len(made) <= k - 1
  <2>1. CASE Len(made) = 0
    BY <1>1, <2>1
  <2>2. CASE Len(made) # 0
    <3>1. Len(made) \in DOMAIN made
      BY <1>1, <2>2
    <3>2. Len(made) < k
      BY <1>4, <3>1
    <3> QED BY <1>1, <3>2
  <2> QED BY <2>1, <2>2
<1>6. k - 1 <= Len(made)
  <2>1. CASE k = 1
    BY <1>1, <2>1
  <2>2. CASE k # 1
    <3>1. k - 1 \in 1 .. k - 1 /\ k - 1 \in DOMAIN atServer
      BY <1>1, <2>2
    <3>2. PICK j \in DOMAIN made : made[j].to = atServer[k - 1]
      BY <3>1 DEF Final
    <3>3. j < k /\ atServer[j] = atServer[k - 1] /\ j \in DOMAIN atServer
      BY <1>1, <1>4, <3>2
    <3>4. ~(j < k - 1)
      <4>1. atServer[k - 1] \in Nat
        BY <1>2, <3>1
      <4> QED BY <1>3, <3>1, <3>3, <4>1
    <3> QED BY <1>1, <3>3, <3>4
  <2> QED BY <2>1, <2>2
<1> QED BY <1>1, <1>5, <1>6

LEMMA ServerSendsKeeps == ASSUME Inv, NEW r \in Response, ServerSends(r) PROVE Inv'
<1> DEFINE n == Len(made)
<1>1. /\ IsNext(r.to) /\ (r.final \/ ~Interim(made, r.to))
      /\ made' = Append(made, r)
      /\ UNCHANGED <<stage, fromClient, client_buffer_, server_buffer_, messages>>
      /\ UNCHANGED <<sent, pipelined, atServer, delivered, requestBodies, responseBodies>>
  BY DEF ServerSends, arrivals
<1>2. StreamsOK' /\ TakenRequests' = TakenRequests /\ TakenResponses' = TakenResponses
  BY StreamsServerSends DEF Inv
<1>3. /\ made \in Seq(Response) /\ made' \in Seq(Response) /\ n \in Nat
      /\ DOMAIN made = 1 .. n /\ DOMAIN made' = 1 .. n + 1
      /\ (\A j \in 1 .. n : made'[j] = made[j]) /\ made'[n + 1] = r
  <2>1. made \in Seq(Response)
    BY DEF Inv, TypeOK
  <2> QED BY <1>1, <2>1, Appended
<1>4. PICK k \in DOMAIN atServer :
        /\ r.to = atServer[k] /\ ~Final(made, r.to)
        /\ \A h \in 1 .. k - 1 : Final(made, atServer[h])
  BY <1>1 DEF IsNext
<1>5. /\ \A i : Final(made, i) => Final(made', i)
      /\ \A i : Interim(made, i) => Interim(made', i)
  BY <1>3 DEF Final, Interim
<1>6. \A j \in DOMAIN made : made[j] # r
  BY <1>1, <1>4 DEF Final, Interim
<1>7. TypeOK'
  BY <1>1, <1>3 DEF Inv, TypeOK, messages
<1>8. RequestsInOrder' /\ RequestsAccounted'
  BY <1>1, <1>2 DEF Inv, RequestsInOrder, RequestsAccounted, AtServer, Over, messages
<1>9. ServerInOrder'
  <2>1. \A i, j \in DOMAIN made' : made'[i] = made'[j] => i = j
    BY <1>3, <1>6 DEF Inv, ServerInOrder
  <2>2. \A j \in DOMAIN made' : \E l \in DOMAIN atServer : atServer[l] = made'[j].to
    BY <1>3, <1>4 DEF Inv, ServerInOrder, AtServer
  <2>3. ASSUME NEW j \in DOMAIN made', NEW l \in DOMAIN atServer, made'[j].to = atServer[l],
               NEW h \in 1 .. l - 1
        PROVE  Final(made', atServer[h])
    <3>1. CASE j \in 1 .. n
      BY <1>3, <1>5, <2>3, <3>1 DEF Inv, ServerInOrder
    <3>2. CASE j = n + 1
      <4>1. atServer[l] = atServer[k]
        BY <1>3, <1>4, <2>3, <3>2
      <4>2. l = k
        <5>1. atServer \in Seq(Request)
          BY DEF Inv, TypeOK
        <5>2. atServer[k] \in Nat /\ l \in Nat /\ k \in Nat
          <6>1. atServer[k] \in Request /\ l \in Nat /\ k \in Nat
            BY <5>1
          <6> QED BY <6>1, RequestsAssumption DEF Request
        <5>3. ~(l < k) /\ ~(k < l)
          BY <4>1, <5>2 DEF Inv, RequestsInOrder, Increasing
        <5> QED BY <5>2, <5>3
      <4> QED BY <1>4, <1>5, <2>3, <4>2
    <3> QED BY <1>3, <3>1, <3>2
  <2>4. ASSUME NEW j \in DOMAIN made', \A i \in 1 .. j - 1 : made'[i].final
        PROVE  j \in DOMAIN atServer /\ made'[j].to = atServer[j]
    <3>1. CASE j \in 1 .. n
      <4>1. \A i \in 1 .. j - 1 : made[i].final
        BY <1>3, <2>4, <3>1
      <4> QED BY <1>3, <3>1, <4>1 DEF Inv, ServerInOrder, Excused
    <3>2. CASE j = n + 1
      <4>1. \A i \in DOMAIN made : made[i].final
        BY <1>3, <2>4, <3>2
      <4>2. n = k - 1
        BY <1>4, <4>1, AnsweredSoFar
      <4>3. k \in Nat
        BY DEF Inv, TypeOK
      <4>4. j = k
        BY <3>2, <4>2, <4>3
      <4> QED BY <1>3, <1>4, <3>2, <4>4
    <3> QED BY <1>3, <3>1, <3>2
  <2> QED BY <1>1, <2>1, <2>2, <2>3, <2>4 DEF ServerInOrder, AtServer, Excused
<1>10. \A i, j \in DOMAIN made' : made'[i] = made'[j] => i = j
  BY <1>9 DEF ServerInOrder
<1>11. ResponsesInOrder'
  <2>1. \A l \in DOMAIN delivered :
          \E j \in DOMAIN made' : delivered[l] = made'[j] /\ 2 * j <= TakenResponses
    BY <1>3 DEF Inv, ResponsesInOrder
  <2>2. ASSUME NEW l \in DOMAIN delivered, NEW j \in DOMAIN made', delivered[l] = made'[j]
        PROVE  j \in DOMAIN made /\ delivered[l] = made[j]
    <3>1. PICK i \in DOMAIN made : delivered[l] = made[i]
      BY DEF Inv, ResponsesInOrder
    <3>2. i \in DOMAIN made' /\ made'[i] = made'[j]
      BY <1>3, <2>2, <3>1
    <3> QED BY <1>10, <3>1, <3>2
  <2>3. stage = "SendToClient" =>
          \E j \in DOMAIN made' :
            /\ server_response_ = made'[j] /\ 2 * j <= TakenResponses
            /\ \A l \in DOMAIN delivered, i \in DOMAIN made' : delivered[l] = made'[i] => i < j
    BY <1>3, <2>2 DEF Inv, ResponsesInOrder
  <2>4. \A h, l \in DOMAIN delivered, i, j \in DOMAIN made' :
          h < l /\ delivered[h] = made'[i] /\ delivered[l] = made'[j] => i < j
    BY <2>2 DEF Inv, ResponsesInOrder
  <2> QED BY <1>1, <1>2, <2>1, <2>3, <2>4 DEF ResponsesInOrder, messages
<1>12. Exchanges'
  BY <1>1, <1>2 DEF Inv, Exchanges, messages
<1>13. ResponsesAccounted'
  <2>1. /\ TakenResponses \in Nat /\ Len(server_buffer_) \in Nat
        /\ TakenResponses + Len(server_buffer_) <= 2 * n
    <3>1. /\ TakenResponses \in Nat /\ Len(server_buffer_) \in Nat /\ Len(fromServer) \in Nat
          /\ TakenResponses + Len(server_buffer_) + Len(fromServer) = 2 * n
      BY StreamTypes DEF Inv
    <3> QED BY <1>3, <3>1
  <2>2. ~(2 * ((n + 1) - 1) < TakenResponses)
        /\ ~(2 * ((n + 1) - 1) < TakenResponses + Len(server_buffer_))
    BY <1>3, <2>1
  <2>3. \A j \in 1 .. n : Excused(j) => \E i \in 1 .. j - 1 : ~made'[i].final
    BY <1>3 DEF Excused
  <2>4. ASSUME ~Over, NEW j \in DOMAIN made', 2 * (j - 1) < TakenResponses
        PROVE  \/ stage = "SendToClient" /\ server_response_ = made'[j]
               \/ \E l \in DOMAIN delivered : delivered[l] = made'[j]
               \/ \E i \in 1 .. j - 1 : ~made'[i].final
    <3>1. j \in 1 .. n /\ made'[j] = made[j]
      BY <1>3, <2>2, <2>4
    <3> QED BY <1>3, <2>3, <2>4, <3>1 DEF Inv, ResponsesAccounted, Delivered
  <2>5. ASSUME NEW j \in DOMAIN made', TakenResponses <= 2 * (j - 1),
               2 * (j - 1) < TakenResponses + Len(server_buffer_)
        PROVE  \E i \in 1 .. j - 1 : ~made'[i].final
    <3>1. j \in 1 .. n
      BY <1>3, <2>2, <2>5
    <3> QED BY <1>3, <2>3, <2>5, <3>1 DEF Inv, ResponsesAccounted
  <2> QED BY <1>1, <1>2, <2>4, <2>5 DEF ResponsesAccounted, Delivered, Excused, Over, messages
<1>14. BodiesAccounted'
  BY <1>1 DEF Inv, BodiesAccounted, Over, messages
<1>15. SpoiledHasCause'
  BY <1>1 DEF Inv, SpoiledHasCause, OthersBodies
<1>16. AnswersInStep'
  <2>1. NoInterim' => NoInterim
    BY <1>5 DEF NoInterim
  <2> QED BY <1>1, <1>2, <2>1 DEF Inv, AnswersInStep, messages
<1> QED BY <1>2, <1>7, <1>8, <1>9, <1>11, <1>12, <1>13, <1>14, <1>15, <1>16 DEF Inv

\* Steps that read, write and send nothing.
LEMMA IdleKeeps ==
  ASSUME Inv, UNCHANGED <<streams, messages, peers>>, stage' \in {stage, "cancelled", "closed"}
  PROVE  Inv'
<1>1. /\ UNCHANGED <<fromClient, fromServer, client_buffer_, server_buffer_>>
      /\ UNCHANGED <<client_request_, server_response_, client_body_, server_body_, begun>>
      /\ UNCHANGED <<sent, made, pipelined, atServer, delivered, requestBodies, responseBodies>>
  BY DEF streams, messages, peers, arrivals
<1>2. stage' = stage \/ stage' \in {"cancelled", "closed"}
  OBVIOUS
<1>3. StreamsOK' /\ TakenRequests' = TakenRequests /\ TakenResponses' = TakenResponses
  BY <1>1, <1>2, SameStreams DEF Inv
<1>4. TypeOK'
  BY <1>1, <1>2 DEF Inv, TypeOK, Operations
<1>5. RequestsInOrder' /\ RequestsAccounted'
  BY <1>1, <1>2, <1>3 DEF Inv, RequestsInOrder, RequestsAccounted, AtServer, Over
<1>6. ServerInOrder' /\ ResponsesInOrder'
  BY <1>1, <1>2, <1>3 DEF Inv, ServerInOrder, ResponsesInOrder, AtServer, Excused
<1>7. Exchanges' /\ ResponsesAccounted'
  BY <1>1, <1>2, <1>3 DEF Inv, Exchanges, ResponsesAccounted, Delivered, Excused, Over
<1>8. BodiesAccounted' /\ SpoiledHasCause'
  BY <1>1, <1>2 DEF Inv, BodiesAccounted, SpoiledHasCause, OthersBodies, Over
<1>9. AnswersInStep'
  BY <1>1, <1>2, <1>3 DEF Inv, AnswersInStep, NoInterim
<1> QED BY <1>3, <1>4, <1>5, <1>6, <1>7, <1>8, <1>9 DEF Inv

LEMMA RunKeeps == ASSUME Inv, Run PROVE Inv'
<1>1. /\ stage = "new" /\ stage' = "ClientRead" /\ ClientRead
      /\ client_buffer_' = <<>> /\ server_buffer_' = <<>>
      /\ client_request_' = NoRequest /\ server_response_' = NoResponse
      /\ UNCHANGED <<fromClient, fromServer, client_body_, server_body_, begun>>
      /\ UNCHANGED <<sent, made, pipelined, atServer, delivered, requestBodies, responseBodies>>
  BY DEF Run, ClientRead, Clears, peers, arrivals
<1>2. client_buffer_ = <<>> /\ server_buffer_ = <<>>
  BY <1>1 DEF Inv, StreamsOK
<1>3. StreamsOK' /\ TakenRequests' = TakenRequests /\ TakenResponses' = TakenResponses
  <2>1. StreamsOK'
    BY <1>1, StreamsCleared DEF Inv
  <2> QED BY <1>1, <1>2, <2>1 DEF TakenRequests, TakenResponses
<1>4. TypeOK'
  BY <1>1 DEF Inv, TypeOK, Operations
<1>5. RequestsInOrder' /\ RequestsAccounted'
  BY <1>1, <1>2, <1>3 DEF Inv, RequestsInOrder, RequestsAccounted, AtServer, Over
<1>6. ServerInOrder' /\ ResponsesInOrder'
  BY <1>1, <1>3 DEF Inv, ServerInOrder, ResponsesInOrder, AtServer, Excused
<1>7. Exchanges' /\ ResponsesAccounted'
  BY <1>1, <1>2, <1>3 DEF Inv, Exchanges, ResponsesAccounted, Delivered, Excused, Over
<1>8. BodiesAccounted' /\ SpoiledHasCause'
  BY <1>1 DEF Inv, BodiesAccounted, SpoiledHasCause, OthersBodies, Over
<1>9. AnswersInStep'
  BY <1>1, <1>3 DEF Inv, AnswersInStep, NoInterim
<1> QED BY <1>3, <1>4, <1>5, <1>6, <1>7, <1>8, <1>9 DEF Inv

LEMMA InvNext == Inv /\ [Next]_vars => Inv'
<1> SUFFICES ASSUME Inv, [Next]_vars PROVE Inv'
  OBVIOUS
<1>1. CASE HandleSendToServer
  <2>1. /\ RequestArrives /\ begun' = client_request_ /\ stage' = "ServerRead"
        /\ UNCHANGED <<streams, sent, made, pipelined>>
        /\ UNCHANGED <<client_request_, server_response_, client_body_, server_body_>>
    BY <1>1 DEF HandleSendToServer
  <2> QED BY <2>1, RequestArrivesKeeps
<1>2. CASE HandleSendToClient
  <2>1. /\ ResponseArrives /\ ClientRead
        /\ UNCHANGED <<fromClient, fromServer, begun, sent, made, pipelined>>
    BY <1>2 DEF HandleSendToClient
  <2> QED BY <2>1, ResponseArrivesKeeps
<1>3. CASE Fail
  <2>1. /\ stage' = "cancelled" /\ PerhapsWritten
        /\ UNCHANGED <<streams, messages, sent, made, pipelined>>
    BY <1>3 DEF Fail
  <2>2. CASE RequestArrives
    BY <2>1, <2>2, RequestArrivesKeeps DEF messages
  <2>3. CASE ResponseArrives
    BY <2>1, <2>3, ResponseArrivesKeeps DEF messages, streams
  <2>4. CASE UNCHANGED arrivals
    BY <2>1, <2>4, IdleKeeps DEF peers
  <2> QED BY <2>1, <2>2, <2>3, <2>4 DEF PerhapsWritten
<1>4. CASE Destroy
  BY <1>4, IdleKeeps DEF Destroy
<1>5. CASE UNCHANGED vars
  BY <1>5, IdleKeeps DEF vars
<1>6. ASSUME NEW i \in Request, NEW final \in BOOLEAN, ServerSends([to |-> i, final |-> final])
      PROVE  Inv'
  <2>1. [to |-> i, final |-> final] \in Response
    BY DEF Response
  <2> QED BY <1>6, <2>1, ServerSendsKeeps
<1> QED BY <1>1, <1>2, <1>3, <1>4, <1>5, <1>6, RunKeeps, ClientReadKeeps, ServerReadKeeps,
           ClientSendsKeeps DEF Next, ServerAnswers, ServerSendsInterim

LEMMA Invariant == Spec => []Inv
BY InvInit, InvNext, PTL DEF Spec

-----------------------------------------------------------------------------
(* Theorems *)

\* The variables have their types, and no read of HttpSession starts on what an
\* earlier exchange left in a buffer.
THEOREM TypeCorrect == Spec => []TypeOK
<1>1. Inv => TypeOK
  BY DEF Inv
<1> QED BY Invariant, <1>1, PTL

\* HttpSession relays requests and responses in the order of the peers and each
\* at most once, whatever is read ahead and wherever it fails.
THEOREM RelaysInOrder == Spec => []RelayedInOrder
<1>1. ASSUME Inv, NEW r, NEW j \in DOMAIN made, made[j] = r PROVE Place(r) = j
  BY <1>1 DEF Inv, ServerInOrder, Place
<1>2. Inv => RelayedInOrder
  <2> SUFFICES ASSUME Inv PROVE RelayedInOrder
    OBVIOUS
  <2>1. \A k \in DOMAIN delivered : \E j \in DOMAIN made : made[j] = delivered[k]
    BY DEF Inv, ResponsesInOrder
  <2>2. ASSUME NEW k \in DOMAIN delivered, NEW l \in DOMAIN delivered, k < l
        PROVE  Place(delivered[k]) < Place(delivered[l])
    <3>1. PICK i \in DOMAIN made : made[i] = delivered[k]
      BY <2>1
    <3>2. PICK j \in DOMAIN made : made[j] = delivered[l]
      BY <2>1
    <3>3. Place(delivered[k]) = i /\ Place(delivered[l]) = j
      BY <1>1, <3>1, <3>2
    <3>4. i < j
      BY <2>2, <3>1, <3>2 DEF Inv, ResponsesInOrder
    <3> QED BY <3>3, <3>4
  <2>3. Increasing([k \in DOMAIN delivered |-> Place(delivered[k])])
    BY <2>2 DEF Increasing
  <2> QED BY <2>1, <2>3 DEF RelayedInOrder, Inv, RequestsInOrder
<1> QED BY Invariant, <1>2, PTL

\* A buffer that ClientRead clears holds a request only if it was pipelined, and
\* a response only if the server sent an interim one before it: no other is lost.
THEOREM LossHasACause == Spec => []LossHasCause
<1>1. ASSUME NEW M, NEW msgs \in Seq(M), NEW buffer \in Seq(Part(M)), NEW socket \in Seq(Part(M)),
             NEW o \in Nat, o + Len(buffer) + Len(socket) = 2 * Len(msgs),
             Segment(buffer, msgs, o), Segment(socket, msgs, o + Len(buffer)),
             NEW i \in DOMAIN msgs, o <= 2 * (i - 1)
      PROVE  Holds(buffer \o socket, msgs[i])
  <2> DEFINE s == buffer \o socket
             p == 2 * i - 1 - o
  <2>1. s \in Seq(Part(M)) /\ Len(s) = Len(buffer) + Len(socket)
    BY Concatenation, Zenon
  <2>2. Segment(s, msgs, o)
    BY <1>1, SegmentConcat
  <2> HIDE DEF s
  <2>3. Len(buffer) \in Nat /\ Len(socket) \in Nat /\ Len(msgs) \in Nat /\ i \in Nat /\ i <= Len(msgs)
    OBVIOUS
  <2>4. p \in 1 .. Len(s) - 1 /\ p \in DOMAIN s /\ 2 * i - o \in DOMAIN s /\ 2 * i - o = p + 1
        /\ Len(s) \in Nat /\ DOMAIN s = 1 .. Len(s)
    <3>1. Len(s) \in Nat /\ DOMAIN s = 1 .. Len(s)
      BY <2>1
    <3>2. p \in Int /\ 1 <= p /\ 2 * i - o = p + 1
      BY <1>1, <2>3
    <3>3. p + 1 <= Len(s)
      <4>1. o + Len(s) = 2 * Len(msgs)
        BY <1>1, <2>1, <2>3
      <4> QED BY <2>3, <3>1, <4>1
    <3> HIDE DEF p
    <3> QED BY <3>1, <3>2, <3>3
  <2>5. s[p] = Head1(msgs[i]) /\ s[p + 1] = Body(msgs[i])
    BY <2>2, <2>4 DEF Segment
  <2> HIDE DEF p
  <2>6. SubSeq(s, p, p + 1) = Parts(msgs[i])
    <3>1. SubSeq(s, p, p + 1) = <<s[p], s[p + 1]>>
      <4> DEFINE t == SubSeq(s, p, p + 1)
      <4>1. p \in Int /\ 1 <= p /\ p + 1 <= Len(s) /\ Len(s) \in Nat
        BY <2>4
      <4>2. t \in Seq(Part(M)) /\ Len(t) = 2
        BY <2>1, <4>1
      <4>3. t[1] = s[p] /\ t[2] = s[p + 1]
        BY <2>1, <4>1
      <4> HIDE DEF t
      <4>4. t = <<t[1], t[2]>>
        BY <4>2
      <4> QED BY <4>3, <4>4 DEF t
    <3> QED BY <2>5, <3>1 DEF Parts
  <2> QED BY <2>4, <2>6 DEF Holds, s
<1>2. Inv => LossHasCause
  <2> SUFFICES ASSUME Inv, ~Over PROVE LossHasCause
    BY DEF LossHasCause
  <2>1. ASSUME NEW i \in 1 .. sent
        PROVE  \/ Holds(client_buffer_ \o fromClient, i)
               \/ stage = "SendToServer" /\ client_request_ = i
               \/ AtServer(i) \/ i \in pipelined
    <3>1. CASE 2 * (i - 1) < TakenRequests
      BY <3>1 DEF Inv, RequestsAccounted
    <3>2. CASE TakenRequests <= 2 * (i - 1)
      <4>1. /\ Requests \in Seq(Request) /\ i \in DOMAIN Requests /\ Requests[i] = i
            /\ TakenRequests \in Nat
            /\ TakenRequests + Len(client_buffer_) + Len(fromClient) = 2 * Len(Requests)
        BY RequestsSent, StreamTypes DEF Inv
      <4>2. /\ client_buffer_ \in Seq(Part(Request)) /\ fromClient \in Seq(Part(Request))
            /\ Segment(client_buffer_, Requests, TakenRequests)
            /\ Segment(fromClient, Requests, TakenRequests + Len(client_buffer_))
        BY DEF Inv, StreamsOK
      <4>3. Holds(client_buffer_ \o fromClient, Requests[i])
        BY <1>1, <3>2, <4>1, <4>2
      <4> QED BY <4>1, <4>3
    <3>3. i \in Nat /\ TakenRequests \in Nat
      BY RequestsSent, StreamTypes DEF Inv
    <3> QED BY <3>1, <3>2, <3>3
  <2>2. ASSUME NEW j \in DOMAIN made
        PROVE  \/ Holds(server_buffer_ \o fromServer, made[j])
               \/ stage = "SendToClient" /\ server_response_ = made[j]
               \/ Delivered(made[j]) \/ Excused(j)
    <3>1. CASE 2 * (j - 1) < TakenResponses
      BY <3>1 DEF Inv, ResponsesAccounted
    <3>2. CASE TakenResponses <= 2 * (j - 1)
      <4>1. /\ made \in Seq(Response) /\ TakenResponses \in Nat
            /\ TakenResponses + Len(server_buffer_) + Len(fromServer) = 2 * Len(made)
        BY StreamTypes DEF Inv
      <4>2. /\ server_buffer_ \in Seq(Part(Response)) /\ fromServer \in Seq(Part(Response))
            /\ Segment(server_buffer_, made, TakenResponses)
            /\ Segment(fromServer, made, TakenResponses + Len(server_buffer_))
        BY DEF Inv, StreamsOK
      <4> QED BY <1>1, <3>2, <4>1, <4>2
    <3>3. j \in Nat /\ TakenResponses \in Nat
      BY StreamTypes DEF Inv
    <3> QED BY <3>1, <3>2, <3>3
  <2> QED BY <2>1, <2>2 DEF LossHasCause, AtServer, Delivered, Excused
<1> QED BY Invariant, <1>2, PTL

\* The string of a message, which fields.clear() leaves alone, brings each message
\* its own body, and no other than those of messages that arrived before it in the
\* same direction.
THEOREM SpoiledHasACause == Spec => []SpoiledHasCause
<1>1. Inv => SpoiledHasCause
  BY DEF Inv
<1> QED BY Invariant, <1>1, PTL

\* With an orderly client and server, HttpSession gives each request its own
\* answer, and reports the time of the request it answers.
THEOREM AnswersMatchRequests == Spec => []AnswersMatch
<1>1. Inv => AnswersMatch
  <2> SUFFICES ASSUME Inv, Orderly PROVE AnswersMatch
    BY DEF AnswersMatch
  <2>1. pipelined = {} /\ NoInterim
    BY DEF Orderly, NoInterim
  <2> QED BY <2>1 DEF Inv, AnswersInStep, AnswersMatch
<1> QED BY Invariant, <1>1, PTL
=============================================================================
