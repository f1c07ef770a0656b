------------------------------- MODULE Phttpget -------------------------------
(***************************************************************************)
(* scripts/portsnap/phttpget/phttpget.c: main, the pipelining HTTP client  *)
(* that portsnap fetches its files with, talking to one server.            *)
(*                                                                         *)
(* A connection is two streams: requests the server has not read and       *)
(* replies the client has not read (resbuf and the kernel's buffers        *)
(* together), each with room for Room messages.  The server reads a        *)
(* request only when it has room for the reply.  It may close the          *)
(* connection once it has answered something on it, and what the client    *)
(* has not read is then lost if the server had not read everything either  *)
(* (a TCP reset).  On a failing network a connection can also be refused,  *)
(* break at any moment or time out.                                        *)
(*                                                                         *)
(* A body has a length (Content-Length, or one chunk), ends with the       *)
(* connection, or comes in several chunks, which main does not read right. *)
(*                                                                         *)
(* Requests are numbered from 0, as nreq and nres count them.              *)
(***************************************************************************)
EXTENDS Integers, Sequences

CONSTANTS
    argc,       \* the number of files asked for
    Room,       \* how many messages one direction of a connection holds
    Kind,       \* the kinds of replies the server sends
    Network     \* the networks to look at: "polite", "chunking", "failing"

ASSUME SizeAssumption == argc \in Nat \ {0} /\ Room \in Nat \ {0}
ASSUME NetworkAssumption == Network \subseteq {"polite", "chunking", "failing"}
ASSUME KindAssumption ==
    Kind \subseteq [minor : {0, 1}, conn : {"none", "close", "keep-alive"},
                    status : {200, 204, 404}, frame : {"length", "eof", "chunks"}]

Request == 0..(argc - 1)
Reply == [to : Request, kind : Kind, cut : BOOLEAN]
NoReply == <<>>

VARIABLES
    network,    \* what kind of network this is; never changes
    pc,         \* where main is
    nreq,       \* number of next request to send
    nres,       \* number of next reply to receive
    firstreq,   \* number of the first request of this connection
    pipelined,  \* connection in pipelined mode
    reqbuf,     \* is there a request made and not sent to its end?
    reply,      \* the reply whose headers have been read
    file,       \* file[r]: the download of request r
    sent,       \* requests on the way to the server
    replies,    \* replies on the way to the client
    garbage,    \* is the rest of a body in front of them?
    closed,     \* has the server closed the connection?
    answered    \* has it answered anything on it?

conn == <<sent, replies, garbage, closed, answered>>
vars == <<network, pc, nreq, nres, firstreq, pipelined, reqbuf, reply, file,
          sent, replies, garbage, closed, answered>>

TypeOK ==
    /\ network \in Network
    /\ pc \in {"connect", "fill", "send", "header", "body", "done", "failed"}
    /\ nreq \in 0..argc
    /\ nres \in 0..argc
    /\ firstreq \in 0..argc
    /\ pipelined \in BOOLEAN
    /\ reqbuf \in BOOLEAN
    /\ reply \in Reply \cup {NoReply}
    /\ file \in [Request -> {"none", "part", "first", "short", "torn", "whole",
                            "ignored", "wrong"}]
    /\ sent \in Seq(Request)
    /\ replies \in Seq(Reply)
    /\ garbage \in BOOLEAN
    /\ closed \in BOOLEAN
    /\ answered \in BOOLEAN

Init ==
    /\ network \in Network
    /\ pc = "connect"
    /\ nreq = 0
    /\ nres = 0
    /\ firstreq = 0
    /\ pipelined = FALSE
    /\ reqbuf = FALSE
    /\ reply = NoReply
    /\ file = [r \in Request |-> "none"]
    /\ sent = <<>>
    /\ replies = <<>>
    /\ garbage = FALSE
    /\ closed = FALSE
    /\ answered = FALSE

Connected == pc \in {"fill", "send", "header", "body"}

-----------------------------------------------------------------------------
(* The client. *)

\* The head of the loop, with n replies received.
Top(n, connected) ==
    IF n = argc THEN "done" ELSE IF connected THEN "fill" ELSE "connect"

Connect ==
    /\ pc = "connect"
    /\ pc' = "fill"
    /\ firstreq' = nres
    /\ closed' = FALSE
    /\ answered' = FALSE
    /\ UNCHANGED <<network, nreq, nres, pipelined, reqbuf, reply, file, sent, replies,
                   garbage>>

ConnectFails ==
    /\ pc = "connect"
    /\ network = "failing"
    /\ pc' = "failed"
    /\ UNCHANGED <<network, nreq, nres, firstreq, pipelined, reqbuf, reply, file, conn>>

\* Mutant: resbuf is not emptied.
Disconnect_KeepsReplies ==
    /\ sent' = <<>>
    /\ reply' = NoReply
    /\ reqbuf' = FALSE
    /\ UNCHANGED <<replies, garbage>>

Disconnect ==
    /\ sent' = <<>>
    /\ replies' = <<>>
    /\ garbage' = FALSE
    /\ reply' = NoReply
    /\ reqbuf' = FALSE

\* Mutant: nreq = nres is left out.
Cleanup_KeepsNreq(n) ==
    /\ Disconnect
    /\ pipelined' = FALSE
    /\ pc' = Top(n, FALSE)
    /\ UNCHANGED nreq

\* Mutant: pipelined = 0 is left out.
Cleanup_KeepsPipelined(n) ==
    /\ Disconnect
    /\ nreq' = n
    /\ pc' = Top(n, FALSE)
    /\ UNCHANGED pipelined

\* cleanupconn, with n replies received.
Cleanup(n) ==
    /\ Disconnect
    /\ nreq' = n
    /\ pipelined' = FALSE
    /\ pc' = Top(n, FALSE)

\* Mutant: every failure is tried again.
ConnDied_Always ==
    /\ Cleanup(nres)
    /\ UNCHANGED <<network, nres, firstreq, file, closed, answered>>

\* conndied: give up if this was the first request of the connection.
ConnDied ==
    /\ IF nres = firstreq
         THEN Disconnect /\ pc' = "failed" /\ UNCHANGED <<nreq, pipelined>>
         ELSE Cleanup(nres)
    /\ UNCHANGED <<network, nres, firstreq, file, closed, answered>>

Send ==
    /\ nreq' = nreq + 1
    /\ reqbuf' = FALSE
    /\ sent' = Append(sent, nreq)
    /\ closed \/ Len(sent) < Room

\* A non-blocking send takes all of the request ...
PipelineSend ==
    /\ pc = "fill"
    /\ pipelined
    /\ nreq < argc
    /\ Send
    /\ UNCHANGED <<network, pc, nres, firstreq, pipelined, reply, file, replies,
                   garbage, closed, answered>>

\* Mutant: EAGAIN is tried again at once.
MakeRequest_Spins ==
    /\ pc = "fill"
    /\ nreq < argc
    /\ pipelined => Len(sent) = Room
    /\ reqbuf' = TRUE
    /\ pc' = IF pipelined THEN "fill" ELSE "send"
    /\ UNCHANGED <<network, nreq, nres, firstreq, pipelined, reply, file, conn>>

\* ... or not: EAGAIN.  Without pipelining a request is only made ready.
MakeRequest ==
    /\ pc = "fill"
    /\ nreq < argc
    /\ pipelined => Len(sent) = Room
    /\ reqbuf' = TRUE
    /\ pc' = "send"
    /\ UNCHANGED <<network, nreq, nres, firstreq, pipelined, reply, file, conn>>

AllSent ==
    /\ pc = "fill"
    /\ nreq = argc
    /\ pc' = "send"
    /\ UNCHANGED <<network, nreq, nres, firstreq, pipelined, reqbuf, reply, file, conn>>

BlockingSend ==
    /\ pc = "send"
    /\ nres = nreq
    /\ Send
    /\ pc' = "header"
    /\ UNCHANGED <<network, nres, firstreq, pipelined, reply, file, replies, garbage,
                   closed, answered>>

NoSend ==
    /\ pc = "send"
    /\ nres # nreq
    /\ pc' = "header"
    /\ UNCHANGED <<network, nreq, nres, firstreq, pipelined, reqbuf, reply, file, conn>>

SendFails ==
    /\ \/ pc = "fill" /\ pipelined /\ nreq < argc
       \/ pc = "send" /\ nres = nreq
    /\ closed
    /\ ConnDied

ReadHeader ==
    /\ pc = "header"
    /\ ~garbage
    /\ replies # <<>>
    /\ replies' = Tail(replies)
    /\ LET kind == Head(replies).kind IN
         /\ pipelined' = (kind.conn # "close" /\ (kind.minor = 1 \/ pipelined))
         /\ IF kind.status = 204
              THEN /\ nres' = nres + 1
                   /\ pc' = Top(nres + 1, TRUE)
                   /\ file' = [file EXCEPT ![nres] = "ignored"]
                   /\ UNCHANGED reply
              ELSE /\ reply' = Head(replies)
                   /\ pc' = "body"
                   /\ file' = [file EXCEPT ![nres] =
                                 IF kind.status = 200 THEN "part" ELSE @]
                   /\ UNCHANGED nres
    /\ UNCHANGED <<network, nreq, firstreq, reqbuf, sent, garbage, closed, answered>>

\* The connection is over, or its next line is none of a reply's.
HeaderDies ==
    /\ pc = "header"
    /\ garbage \/ (replies = <<>> /\ closed)
    /\ ConnDied

\* What the file of the reply in hand is when its body has been copied: of several
\* chunks the first alone, of a stream that broke off a part.
Saved ==
    IF reply.kind.status # 200 THEN "ignored"
    ELSE IF reply.to # nres THEN "wrong"
    ELSE IF reply.kind.frame = "chunks" THEN "first"
    ELSE IF ~reply.cut THEN "whole"
    ELSE IF reply.kind.frame = "eof" THEN "short"
    ELSE "torn"

\* What can be left unread of a body that main is through with, if it gets through
\* (copybytes, readln).  One that ends with the connection may end early unnoticed.
\* After a chunk main takes the empty line that ends it for the size of the last
\* chunk, and what follows for the trailer: that goes to the end of the body, or to
\* an empty line in it.
Left ==
    IF reply.kind.frame = "chunks" THEN IF reply.cut THEN {TRUE} ELSE BOOLEAN
    ELSE IF reply.cut /\ reply.kind.frame = "length" THEN {}
    ELSE {FALSE}

ReadBody ==
    /\ pc = "body"
    /\ file' = [file EXCEPT ![nres] = Saved]
    /\ nres' = nres + 1
    /\ \E rest \in Left :
         LET stays == reply.kind.frame # "eof" /\ pipelined
         IN IF stays \/ reply.kind.conn = "keep-alive"
              THEN /\ pipelined' = stays
                   /\ pc' = Top(nres + 1, TRUE)
                   /\ reply' = NoReply
                   /\ garbage' = rest
                   /\ UNCHANGED <<nreq, reqbuf, sent, replies>>
              ELSE Cleanup(nres + 1)
    /\ UNCHANGED <<network, firstreq, closed, answered>>

\* The stream breaks off, or a supposed line of the trailer does not fit resbuf or
\* holds a NUL.
BodyDies ==
    /\ pc = "body"
    /\ reply.cut \/ reply.kind.frame = "chunks"
    /\ ConnDied

\* Nothing has come, or gone, for 15 seconds; or what has come is not HTTP.
Timeout ==
    /\ network = "failing"
    /\ pc \in {"header", "body"} \/ (pc = "send" /\ nres = nreq)
    /\ ConnDied

Client ==
    \/ Connect \/ ConnectFails
    \/ PipelineSend \/ MakeRequest \/ AllSent \/ BlockingSend \/ NoSend \/ SendFails
    \/ ReadHeader \/ HeaderDies \/ ReadBody \/ BodyDies

-----------------------------------------------------------------------------
(* The server and the network. *)

\* The server closes the connection after this reply.  The client asks for that
\* with its last request.
Last(r, kind) ==
    \/ r = argc - 1
    \/ kind.frame = "eof"
    \/ kind.conn = "close"
    \/ kind.minor = 0 /\ kind.conn # "keep-alive"

Answer(kind) ==
    /\ Connected
    /\ ~closed
    /\ sent # <<>>
    /\ Len(replies) < Room
    /\ kind.frame = "chunks" => network # "polite"
    /\ replies' = Append(replies, [to |-> Head(sent), kind |-> kind, cut |-> FALSE])
    /\ sent' = Tail(sent)
    /\ closed' = Last(Head(sent), kind)
    /\ answered' = TRUE
    /\ UNCHANGED <<network, pc, nreq, nres, firstreq, pipelined, reqbuf, reply, file,
                   garbage>>

\* What is left of a stream of replies that breaks off.
Beginnings(q) ==
    {SubSeq(q, 1, n) : n \in 0..Len(q)}
      \cup {[SubSeq(q, 1, n) EXCEPT ![n].cut = TRUE] : n \in 1..Len(q)}

Break ==
    /\ IF reply = NoReply
         THEN replies' \in Beginnings(replies) /\ UNCHANGED reply
         ELSE \/ replies' \in Beginnings(replies) /\ UNCHANGED reply
              \/ replies' = <<>> /\ reply' = [reply EXCEPT !.cut = TRUE]
    /\ sent' = <<>>
    /\ closed' = TRUE
    /\ UNCHANGED <<network, pc, nreq, nres, firstreq, pipelined, reqbuf, file, garbage,
                   answered>>

\* A server that has answered something may close: at its limit of requests, or
\* because it takes the connection for idle while requests are on the way.
HangUp ==
    /\ Connected
    /\ ~closed
    /\ answered
    /\ closed' = TRUE
    /\ UNCHANGED <<network, pc, nreq, nres, firstreq, pipelined, reqbuf, reply, file,
                   sent, replies, garbage, answered>>

\* Requests that reach a closed connection, or wait on it unread, reset it.
Reset ==
    /\ Connected
    /\ closed
    /\ sent # <<>>
    /\ Break

Breakdown ==
    /\ network = "failing"
    /\ Connected
    /\ Break

Server == (\E kind \in Kind : Answer(kind)) \/ HangUp \/ Reset \/ Breakdown

-----------------------------------------------------------------------------
Exited == pc \in {"done", "failed"} /\ UNCHANGED vars

Next == Client \/ Timeout \/ Server \/ Exited

Spec == Init /\ [][Next]_vars

\* The program runs on; a server that is asked, and has room, answers; no recv
\* waits for ever.
Fairness ==
    /\ WF_vars(Client)
    /\ WF_vars(\E kind \in Kind : Answer(kind))
    /\ WF_vars(Timeout)

FairSpec == Spec /\ Fairness

-----------------------------------------------------------------------------
(* Properties. *)

\* A file holds the reply to its own request, never to another one (replies are
\* told apart by their order only).  One whose body broke off is counted only when
\* the body ends with the connection, and one of several chunks never holds more
\* than the first (ChunksAreRead).
RightFiles ==
    \A r \in Request :
      /\ file[r] \notin {"wrong", "torn"}
      /\ r < nres => file[r] \in {"whole", "first", "short", "ignored"}
      /\ r = nres => file[r] \in {"none", "part"}
      /\ r > nres => file[r] = "none"

\* The requests without a complete answer are on the connection, in order and
\* once each: the one whose body is being read, the replies, and the requests
\* the server has still to read.  A connection that is down holds none.
Outstanding ==
    LET InHand == IF reply = NoReply THEN <<>> ELSE <<reply.to>>
        Unread == InHand \o [k \in 1..Len(replies) |-> replies[k].to]
        All == Unread \o sent
    IN /\ TypeOK
       /\ \A k \in 1..Len(Unread) : Unread[k] = nres + k - 1
       /\ Len(Unread) <= nreq - nres
       /\ Connected /\ ~closed =>
            /\ Len(All) = nreq - nres
            /\ \A k \in 1..Len(All) : All[k] = nres + k - 1
       /\ ~Connected => All = <<>>

\* A server that answers at least one request of every connection, and sends no
\* body in several chunks, is never given up on ("If this happened on the first
\* request we sent over this connection, give up.  Otherwise, close this connection,
\* open a new one, and reissue the request"), not even when its closing takes unread
\* replies along.
NeverGivesUp == network = "polite" => pc # "failed"

\* ... and every file asked for is fetched from it: client and server never
\* wait for each other with full buffers.
Finishes == (network = "polite") ~> (pc = "done")

\* On any network the program ends: every connection but the last one brings at
\* least one reply.
Terminates == <>(pc \in {"done", "failed"})

\* What the comment at the head of a reply says: "we can assume that pipelining our
\* requests is OK -- as long as we [...] either have a Content-Length or
\* Transfer-Encoding: chunked header to tell us the length".  A body that comes in
\* chunks is read to its end.  Violated, so in no .cfg: see README.
ChunksAreRead == ~garbage /\ \A r \in Request : file[r] # "first"
=============================================================================
