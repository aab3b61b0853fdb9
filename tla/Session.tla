------------------------------- MODULE Session -------------------------------
(***************************************************************************)
(* HttpSession (src/lb/tcp/session.cpp): one client and one server, and a  *)
(* loop of four asynchronous operations, each started by the handler of    *)
(* the one before: read a request, send it, read a response, send it.      *)
(*                                                                         *)
(* A message travels as two parts, so that a read may end in the middle of *)
(* the next one.  A read takes what the socket holds, consumes one message *)
(* and leaves the rest in the buffer; ClientRead clears the buffers.  Of   *)
(* the messages it clears the fields only: clear() is that of the fields,  *)
(* and a read appends to the string that holds the body.                   *)
(***************************************************************************)
EXTENDS Naturals, Sequences, FiniteSets

CONSTANTS MaxRequests,   \* requests a client sends on one connection, at most
          Uploads,       \* requests that have a body
          Downloads      \* requests whose final response has a body

\* Requests are numbered in the order the client sends them.
Request == 1 .. MaxRequests

ASSUME RequestsAssumption ==
  /\ MaxRequests \in Nat \ {0}
  /\ Uploads \subseteq Request /\ Downloads \subseteq Request

VARIABLES
  stage,             \* the operation outstanding, or how far the session has ended
  fromClient,        \* parts in the client's socket that have not been read
  fromServer,        \* parts in the server's socket that have not been read
  client_buffer_, server_buffer_,
  client_request_, server_response_,
  client_body_, server_body_,   \* whose bodies those two hold
  begun,             \* request at whose sending the notifier read its clock
  sent,              \* number of requests the client has sent
  atServer,          \* requests the server has received, in order
  made,              \* responses the server has sent, in order
  delivered,         \* responses the client has received, in order
  requestBodies, responseBodies,   \* whose bodies each of those arrived with
  pipelined          \* history: requests sent before the one before was answered

streams == <<fromClient, fromServer, client_buffer_, server_buffer_>>
messages == <<client_request_, server_response_, client_body_, server_body_, begun>>
arrivals == <<atServer, delivered, requestBodies, responseBodies>>
peers == <<sent, made, arrivals, pipelined>>
vars == <<stage, streams, messages, peers>>

\* A response is final or interim (a 1xx status); the reader takes either for a
\* response.
Response == [to : Request, final : BOOLEAN]
NoRequest == 0
NoResponse == [to |-> NoRequest, final |-> TRUE]

RequestBody(i)  == {i} \cap Uploads
ResponseBody(r) == IF r.final THEN {r.to} \cap Downloads ELSE {}

Head1(m) == [part |-> "head", of |-> m]
Body(m)  == [part |-> "body", of |-> m]
Parts(m) == <<Head1(m), Body(m)>>

Operations == {"ClientRead", "SendToServer", "ServerRead", "SendToClient"}

-----------------------------------------------------------------------------
Take(s, k) == SubSeq(s, 1, k)
Drop(s, k) == SubSeq(s, k + 1, Len(s))

\* The parser finds a whole message, or finds none can start here.
StartsWithMessage(bytes) == Len(bytes) >= 2 /\ bytes[1].part = "head"
Malformed(bytes) == bytes # <<>> /\ bytes[1].part = "body"

\* Fault: server_buffer_ is forgotten.
ClearsClientOnly ==
  /\ client_buffer_' = <<>>
  /\ client_request_' = NoRequest /\ server_response_' = NoResponse
  /\ UNCHANGED <<server_buffer_, client_body_, server_body_>>

\* What ClientRead clears, whatever the buffers hold, and what it does not.
Clears ==
  /\ client_buffer_' = <<>> /\ server_buffer_' = <<>>
  /\ client_request_' = NoRequest /\ server_response_' = NoResponse
  /\ UNCHANGED <<client_body_, server_body_>>

ClientRead == stage' = "ClientRead" /\ Clears

Init ==
  /\ stage = "new"
  /\ fromClient = <<>> /\ fromServer = <<>>
  /\ client_buffer_ = <<>> /\ server_buffer_ = <<>>
  /\ client_request_ = NoRequest /\ server_response_ = NoResponse /\ begun = NoRequest
  /\ client_body_ = {} /\ server_body_ = {}
  /\ sent = 0 /\ pipelined = {}
  /\ atServer = <<>> /\ made = <<>> /\ delivered = <<>>
  /\ requestBodies = <<>> /\ responseBodies = <<>>

\* OnConnect and the first read; the client may have sent requests before.
Run ==
  /\ stage = "new"
  /\ ClientRead
  /\ UNCHANGED <<fromClient, fromServer, begun, peers>>

HandleClientRead ==
  /\ stage = "ClientRead"
  /\ \E k \in 0 .. Len(fromClient) :
       LET bytes == client_buffer_ \o Take(fromClient, k) IN
       /\ StartsWithMessage(bytes)
       /\ client_request_' = bytes[1].of
       /\ client_body_' = client_body_ \cup RequestBody(bytes[1].of)
       /\ client_buffer_' = Drop(bytes, 2)
       /\ fromClient' = Drop(fromClient, k)
  /\ stage' = "SendToServer"
  /\ UNCHANGED <<fromServer, server_buffer_, server_response_, server_body_, begun, peers>>

\* A message arrives with all that the string of its body holds.
RequestArrives ==
  /\ stage = "SendToServer"
  /\ atServer' = Append(atServer, client_request_)
  /\ requestBodies' = Append(requestBodies, client_body_)
  /\ UNCHANGED <<delivered, responseBodies>>

ResponseArrives ==
  /\ stage = "SendToClient"
  /\ delivered' = Append(delivered, server_response_)
  /\ responseBodies' = Append(responseBodies, server_body_)
  /\ UNCHANGED <<atServer, requestBodies>>

\* OnRequestSent, and the read of the response.
HandleSendToServer ==
  /\ RequestArrives
  /\ begun' = client_request_
  /\ stage' = "ServerRead"
  /\ UNCHANGED <<streams, client_request_, server_response_, client_body_, server_body_,
                 sent, made, pipelined>>

\* OnResponseReceive, which reports the time since begun, and the write.
HandleServerRead ==
  /\ stage = "ServerRead"
  /\ \E k \in 0 .. Len(fromServer) :
       LET bytes == server_buffer_ \o Take(fromServer, k) IN
       /\ StartsWithMessage(bytes)
       /\ server_response_' = bytes[1].of
       /\ server_body_' = server_body_ \cup ResponseBody(bytes[1].of)
       /\ server_buffer_' = Drop(bytes, 2)
       /\ fromServer' = Drop(fromServer, k)
  /\ stage' = "SendToClient"
  /\ UNCHANGED <<fromClient, client_buffer_, client_request_, client_body_, begun, peers>>

\* Fault: the next response is read in place of the next request.
ReadsServerAgain ==
  /\ ResponseArrives
  /\ stage' = "ServerRead"
  /\ UNCHANGED <<streams, messages, sent, made, pipelined>>

HandleSendToClient ==
  /\ ResponseArrives
  /\ ClientRead
  /\ UNCHANGED <<fromClient, fromServer, begun, sent, made, pipelined>>

-----------------------------------------------------------------------------
\* A write that fails may have reached the peer.
PerhapsWritten ==
  RequestArrives \/ ResponseArrives \/ UNCHANGED arrivals

\* Faults: a failed write is tried again; a failed write is given up and the
\* next request read; a failed read is taken for a response (no return).
RetriesWrite ==
  /\ stage \in Operations
  /\ PerhapsWritten
  /\ stage' = IF stage = "SendToServer" THEN stage ELSE "cancelled"
  /\ UNCHANGED <<streams, messages, sent, made, pipelined>>

SkipsRequest ==
  /\ stage \in Operations
  /\ PerhapsWritten
  /\ IF stage = "SendToServer" THEN ClientRead
     ELSE stage' = "cancelled"
          /\ UNCHANGED <<client_buffer_, server_buffer_, client_request_, server_response_,
                         client_body_, server_body_>>
  /\ UNCHANGED <<fromClient, fromServer, begun, sent, made, pipelined>>

GoesOnAfterError ==
  /\ stage \in Operations
  /\ PerhapsWritten
  /\ stage' = IF stage = "ServerRead" THEN "SendToClient" ELSE "cancelled"
  /\ UNCHANGED <<streams, messages, sent, made, pipelined>>

\* The operation fails: the handler calls Cancel, which closes both sockets
\* and calls OnDisconnect, and starts nothing more.
Fail ==
  /\ stage \in Operations
  /\ PerhapsWritten
  /\ stage' = "cancelled"
  /\ UNCHANGED <<streams, messages, sent, made, pipelined>>

\* With the handler goes the last reference; the destructor cancels again.
Destroy ==
  /\ stage = "cancelled"
  /\ stage' = "closed"
  /\ UNCHANGED <<streams, messages, peers>>

-----------------------------------------------------------------------------
(* The peers *)

Final(responses, i) == \E k \in DOMAIN responses :
                         responses[k].to = i /\ responses[k].final
Interim(responses, i) == \E k \in DOMAIN responses :
                           responses[k].to = i /\ ~responses[k].final

\* The client sends its next request, answered the one before or not.
ClientSends ==
  /\ sent < MaxRequests
  /\ sent' = sent + 1
  /\ fromClient' = fromClient \o Parts(sent')
  /\ pipelined' = IF sent = 0 \/ Final(delivered, sent)
                  THEN pipelined ELSE pipelined \cup {sent'}
  /\ UNCHANGED <<stage, fromServer, client_buffer_, server_buffer_, messages,
                 made, arrivals>>

\* The request the server is to answer next: it answers in order.
IsNext(i) ==
  \E k \in DOMAIN atServer :
    /\ i = atServer[k] /\ ~Final(made, i)
    /\ \A j \in 1 .. k - 1 : Final(made, atServer[j])

ServerSends(r) ==
  /\ IsNext(r.to) /\ (r.final \/ ~Interim(made, r.to))
  /\ made' = Append(made, r)
  /\ fromServer' = fromServer \o Parts(r)
  /\ UNCHANGED <<stage, fromClient, client_buffer_, server_buffer_, messages,
                 sent, arrivals, pipelined>>

ServerAnswers == \E i \in Request : ServerSends([to |-> i, final |-> TRUE])
ServerSendsInterim == \E i \in Request : ServerSends([to |-> i, final |-> FALSE])

Next ==
  \/ Run
  \/ HandleClientRead \/ HandleSendToServer \/ HandleServerRead \/ HandleSendToClient
  \/ Fail \/ Destroy
  \/ ClientSends \/ ServerAnswers \/ ServerSendsInterim

Spec == Init /\ [][Next]_vars

\* A read of a stream that no message can start at ends in an error.
ReadFails ==
  /\ \/ stage = "ClientRead" /\ Malformed(client_buffer_ \o fromClient)
     \/ stage = "ServerRead" /\ Malformed(server_buffer_ \o fromServer)
  /\ Fail

SessionStep ==
  \/ Run
  \/ HandleClientRead \/ HandleSendToServer \/ HandleServerRead \/ HandleSendToClient
  \/ ReadFails \/ Destroy

\* Threads are scheduled, sockets make progress, and the server answers.  Nothing
\* obliges the client to send, and nothing else an operation to fail.
FairSpec == Spec /\ WF_vars(SessionStep) /\ WF_vars(ServerAnswers)

-----------------------------------------------------------------------------
(* Properties *)

Over == stage \in {"cancelled", "closed"}

\* Types; and what is left in a buffer never outlives the exchange it was read
\* in: no read of a request or of a response starts on the remains of another.
TypeOK ==
  /\ stage \in Operations \cup {"new", "cancelled", "closed"}
  /\ client_request_ \in Request \cup {NoRequest} /\ begun \in Request \cup {NoRequest}
  /\ server_response_ \in Response \cup {NoResponse}
  /\ client_body_ \subseteq Uploads /\ server_body_ \subseteq Downloads
  /\ sent \in 0 .. MaxRequests /\ pipelined \subseteq Request
  /\ atServer \in Seq(Request)
  /\ made \in Seq(Response) /\ delivered \in Seq(Response \cup {NoResponse})
  /\ requestBodies \in Seq(SUBSET Uploads) /\ Len(requestBodies) = Len(atServer)
  /\ responseBodies \in Seq(SUBSET Downloads) /\ Len(responseBodies) = Len(delivered)
  /\ stage = "ClientRead" => client_buffer_ = <<>>
  /\ stage \in {"ClientRead", "SendToServer", "ServerRead"} => server_buffer_ = <<>>

Increasing(s) == \A i, j \in DOMAIN s : i < j => s[i] < s[j]
Place(r) == CHOOSE k \in DOMAIN made : made[k] = r

\* Requests reach the server in the order the client sent them, each at most
\* once, and responses the client likewise, whatever is read ahead or fails.
RelayedInOrder ==
  /\ Increasing(atServer)
  /\ \A r \in {delivered[k] : k \in DOMAIN delivered} : \E k \in DOMAIN made : made[k] = r
  /\ Increasing([k \in DOMAIN delivered |-> Place(delivered[k])])

Holds(bytes, m) ==
  \E k \in 1 .. Len(bytes) - 1 : SubSeq(bytes, k, k + 1) = Parts(m)

\* While the session lives a request of the client is lost only if it was sent
\* before the one before it was answered, and a response of the server only if
\* the server sent an interim response before it, to the same request or to an
\* earlier one: from then on the session is a response behind.  ClientRead clears
\* what the last reads took in addition.
LossHasCause ==
  ~Over =>
    /\ \A i \in 1 .. sent :
         \/ Holds(client_buffer_ \o fromClient, i)
         \/ stage = "SendToServer" /\ client_request_ = i
         \/ \E k \in DOMAIN atServer : atServer[k] = i
         \/ i \in pipelined
    /\ \A j \in DOMAIN made :
         \/ Holds(server_buffer_ \o fromServer, made[j])
         \/ stage = "SendToClient" /\ server_response_ = made[j]
         \/ \E k \in DOMAIN delivered : delivered[k] = made[j]
         \/ \E i \in 1 .. j - 1 : ~made[i].final

\* Every message that arrives brings its own body, and whatever else it brings
\* is the body of a message that arrived before it in the same direction.
OthersBodies(bodies, msgs, BodyOf(_)) ==
  \A k \in DOMAIN msgs :
    /\ BodyOf(msgs[k]) \subseteq bodies[k]
    /\ bodies[k] \subseteq UNION {BodyOf(msgs[j]) : j \in 1 .. k}

SpoiledHasCause ==
  /\ OthersBodies(requestBodies, atServer, RequestBody)
  /\ OthersBodies(responseBodies, delivered, ResponseBody)

\* Some message has arrived with a body that is not its own.
Spoiled ==
  \/ \E k \in DOMAIN atServer : requestBodies[k] # RequestBody(atServer[k])
  \/ \E k \in DOMAIN delivered : responseBodies[k] # ResponseBody(delivered[k])

Orderly == pipelined = {} /\ ~Spoiled /\ \A i \in Request : ~Interim(made, i)

\* With a client that awaits each answer, a server that gives one to each request
\* and no message spoiled, the responses the client gets answer its requests one
\* by one, and the time reported of each is that of the request it answers.
AnswersMatch ==
  Orderly =>
    /\ \A k \in DOMAIN delivered : delivered[k].to = k
    /\ stage = "SendToClient" => server_response_.to = begun

\* On such a session every request is answered, unless the session closes.
RequestsSettle ==
  \A i \in Request : sent >= i ~> Final(delivered, i) \/ stage = "closed" \/ ~Orderly
=============================================================================
