---------------------------- MODULE PhttpgetProofs ----------------------------
(* Proofs about Phttpget for any number of files, any buffers and any replies. *)
EXTENDS Phttpget, SequenceTheorems, TLAPS

FileState == {"none", "part", "first", "short", "torn", "whole", "ignored", "wrong"}
USE DEF FileState

\* One while the headers of a reply have been read and its body has not.
Hand == IF pc = "body" THEN 1 ELSE 0

\* Where main is, and what its counters say there.
LoopInv ==
    /\ pc = "body" <=> reply # NoReply
    /\ Connected => nres < argc
    /\ firstreq <= nres /\ nres <= nreq
    /\ pc \in {"header", "body"} => nres < nreq
    /\ pc = "connect" => nreq = nres /\ nres < argc /\ ~pipelined

\* Requests and replies are on the connection in order; while it is open, all
\* of them, and afterwards a beginning of the replies.
StreamInv ==
    /\ pc = "body" => reply.to = nres
    /\ \A k \in 1..Len(replies) : replies[k].to = nres + Hand + k - 1
    /\ Hand + Len(replies) + Len(sent) <= nreq - nres
    /\ Connected /\ ~closed =>
         /\ Hand + Len(replies) + Len(sent) = nreq - nres
         /\ \A k \in 1..Len(sent) : sent[k] = nres + Hand + Len(replies) + k - 1
    /\ ~Connected => sent = <<>> /\ replies = <<>>

ClientInv == TypeOK /\ LoopInv /\ StreamInv

-----------------------------------------------------------------------------
(* Streams. *)

LEMMA ReplyFacts ==
    ASSUME NEW r \in Reply
    PROVE  /\ r # NoReply
           /\ r.to \in Request /\ r.cut \in BOOLEAN
           /\ [r EXCEPT !.cut = TRUE] \in Reply
           /\ [r EXCEPT !.cut = TRUE].to = r.to
           /\ [r EXCEPT !.cut = TRUE].kind = r.kind
           /\ [r EXCEPT !.cut = TRUE].cut = TRUE
<1>1. r.to \in Request /\ r.cut \in BOOLEAN /\ r.kind \in Kind
  BY DEF Reply
<1>2. [r EXCEPT !.cut = TRUE] \in Reply
  BY DEF Reply
<1>3. /\ [r EXCEPT !.cut = TRUE].to = r.to /\ [r EXCEPT !.cut = TRUE].cut = TRUE
      /\ [r EXCEPT !.cut = TRUE].kind = r.kind
  BY DEF Reply
<1>4. r # NoReply
  <2>1. "to" \in DOMAIN r
    BY DEF Reply
  <2>2. DOMAIN NoReply = {}
    BY DEF NoReply
  <2> QED
    BY <2>1, <2>2
<1> QED
  BY <1>1, <1>2, <1>3, <1>4

LEMMA PrefixFacts ==
    ASSUME NEW q \in Seq(Reply), NEW n \in 0..Len(q)
    PROVE  /\ SubSeq(q, 1, n) \in Seq(Reply)
           /\ Len(SubSeq(q, 1, n)) = n
           /\ \A k \in 1..n : SubSeq(q, 1, n)[k] = q[k]
<1>1. n \in Int /\ \A i \in 1..n : q[i] \in Reply
  OBVIOUS
<1>2. /\ SubSeq(q, 1, n) \in Seq(Reply)
      /\ Len(SubSeq(q, 1, n)) = IF 1 <= n THEN n - 1 + 1 ELSE 0
      /\ \A i \in 1..(n - 1 + 1) : SubSeq(q, 1, n)[i] = q[1 + i - 1]
  BY <1>1, SubSeqProperties
<1> QED
  BY <1>2

LEMMA BeginningFacts ==
    ASSUME NEW q \in Seq(Reply), NEW b \in Beginnings(q)
    PROVE  /\ b \in Seq(Reply)
           /\ Len(b) <= Len(q)
           /\ \A k \in 1..Len(b) : b[k].to = q[k].to /\ b[k].kind = q[k].kind
<1>1. CASE \E n \in 0..Len(q) : b = SubSeq(q, 1, n)
  BY <1>1, PrefixFacts
<1>2. ASSUME NEW n \in 1..Len(q), b = [SubSeq(q, 1, n) EXCEPT ![n].cut = TRUE]
      PROVE  /\ b \in Seq(Reply) /\ Len(b) <= Len(q)
             /\ \A k \in 1..Len(b) : b[k].to = q[k].to /\ b[k].kind = q[k].kind
  <2> DEFINE s == SubSeq(q, 1, n)
  <2>1. s \in Seq(Reply) /\ Len(s) = n /\ \A k \in 1..n : s[k] = q[k]
    BY PrefixFacts
  <2> HIDE DEF s
  <2>2. b = [s EXCEPT ![n] = [s[n] EXCEPT !.cut = TRUE]]
    BY <1>2 DEF s
  <2>3. s[n] \in Reply
    BY <2>1
  <2>4. /\ [s[n] EXCEPT !.cut = TRUE] \in Reply
        /\ [s[n] EXCEPT !.cut = TRUE].to = s[n].to
        /\ [s[n] EXCEPT !.cut = TRUE].kind = s[n].kind
    BY <2>3, ReplyFacts
  <2>5. b \in Seq(Reply) /\ Len(b) = n
    BY <2>1, <2>2, <2>4
  <2>6. \A k \in 1..n : b[k].to = s[k].to /\ b[k].kind = s[k].kind
    BY <2>1, <2>2, <2>4
  <2> QED
    BY <2>1, <2>5, <2>6
<1> QED
  BY <1>1, <1>2 DEF Beginnings

-----------------------------------------------------------------------------
(* Counters and streams. *)

LEMMA ClientInit == Init => ClientInv
<1> SUFFICES ASSUME Init PROVE ClientInv
  OBVIOUS
<1>1. TypeOK
  BY SizeAssumption DEF Init, TypeOK, Request
<1>2. LoopInv /\ StreamInv
  BY SizeAssumption DEF Init, LoopInv, StreamInv, Connected, Hand, Request
<1> QED
  BY <1>1, <1>2 DEF ClientInv

LEMMA IntFacts ==
    ASSUME TypeOK
    PROVE  /\ argc \in Nat /\ nreq \in Nat /\ nres \in Nat /\ firstreq \in Nat
           /\ argc > 0 /\ nreq <= argc /\ nres <= argc /\ firstreq <= argc
           /\ replies \in Seq(Reply) /\ sent \in Seq(Request)
           /\ Len(replies) \in Nat /\ Len(sent) \in Nat
           /\ Hand \in {0, 1}
  BY SizeAssumption DEF TypeOK, Hand

\* A connection that is given up, with n replies received.
LEMMA ClientCleanup ==
    ASSUME ClientInv, NEW n \in {nres, nres + 1}, n <= argc, Cleanup(n), nres' = n,
           firstreq' = firstreq, network' = network, closed' = closed, answered' = answered,
           file' \in [Request -> FileState]
    PROVE  ClientInv'
<1>1. TypeOK /\ LoopInv
  BY DEF ClientInv
<1>2. /\ sent' = <<>> /\ replies' = <<>> /\ reply' = NoReply
      /\ nreq' = n /\ ~pipelined' /\ pc' = (IF n = argc THEN "done" ELSE "connect")
  BY DEF Cleanup, Disconnect, Top
<1>a. reqbuf' \in BOOLEAN /\ pipelined' \in BOOLEAN /\ garbage' \in BOOLEAN
  BY Zenon DEF Cleanup, Disconnect
<1>3. n \in Int /\ 0 <= n /\ firstreq <= n
  BY <1>1, IntFacts DEF LoopInv
<1>4. pc' \in {"done", "connect"} /\ (pc' = "connect" => n < argc)
  BY <1>1, <1>2, <1>3, IntFacts
<1>5. TypeOK'
  BY <1>a, <1>1, <1>2, <1>3, <1>4, IntFacts DEF TypeOK
<1>6. LoopInv' /\ StreamInv'
  BY <1>1, <1>2, <1>3, <1>4, IntFacts DEF LoopInv, StreamInv, Connected, Hand
<1> QED
  BY <1>5, <1>6 DEF ClientInv

LEMMA ClientConnDied ==
    ASSUME ClientInv, Connected, ConnDied
    PROVE  ClientInv'
<1>1. TypeOK /\ LoopInv
  BY DEF ClientInv
<1>2. CASE nres = firstreq
  <2>a. reqbuf' \in BOOLEAN /\ garbage' \in BOOLEAN
    BY <1>2, Zenon DEF ConnDied, Disconnect
  <2>1. /\ sent' = <<>> /\ replies' = <<>> /\ reply' = NoReply /\ pc' = "failed"
        /\ UNCHANGED <<nreq, pipelined, network, nres, firstreq, file, closed, answered>>
    BY <1>2 DEF ConnDied, Disconnect
  <2>2. TypeOK'
    BY <1>1, <2>a, <2>1 DEF TypeOK
  <2>3. LoopInv' /\ StreamInv'
    BY <1>1, <2>1, IntFacts DEF LoopInv, StreamInv, Connected, Hand
  <2> QED
    BY <2>2, <2>3 DEF ClientInv
<1>3. CASE nres # firstreq
  <2>1. Cleanup(nres) /\ UNCHANGED <<network, nres, firstreq, file, closed, answered>>
    BY <1>3 DEF ConnDied
  <2>2. nres <= argc /\ file' \in [Request -> FileState]
    BY <1>1, <2>1, IntFacts DEF TypeOK
  <2> QED
    BY <2>1, <2>2, ClientCleanup
<1> QED
  BY <1>2, <1>3

\* Steps that move main and leave the connection.
LEMMA ClientMoves ==
    ASSUME ClientInv, pc \in {"fill", "send"}, pc' \in {"fill", "send", "header"},
           UNCHANGED <<network, nreq, nres, firstreq, pipelined, reply, file, conn>>,
           reqbuf' \in BOOLEAN, pc' = "header" => nres # nreq
    PROVE  ClientInv'
<1>1. /\ TypeOK /\ LoopInv /\ StreamInv
      /\ UNCHANGED <<network, nreq, nres, firstreq, pipelined, reply, file, sent, replies,
                     garbage, closed, answered>>
  BY DEF ClientInv, conn
<1>2. TypeOK'
  BY <1>1 DEF TypeOK
<1>3. LoopInv'
  BY <1>1, IntFacts DEF LoopInv, Connected
<1>4. StreamInv'
  BY <1>1 DEF StreamInv, Connected, Hand
<1> QED
  BY <1>2, <1>3, <1>4 DEF ClientInv

LEMMA ClientSend ==
    ASSUME ClientInv, Send, pc \in {"fill", "send"}, pc' \in {pc, "header"}, nreq < argc,
           UNCHANGED <<network, nres, firstreq, pipelined, reply, file, replies, garbage,
                       closed, answered>>
    PROVE  ClientInv'
<1>0. nreq \in Nat /\ nres \in Nat /\ argc \in Nat /\ Len(replies) \in Nat /\ Len(sent) \in Nat
  BY IntFacts DEF ClientInv
<1>1. /\ TypeOK /\ LoopInv /\ StreamInv
      /\ nreq' = nreq + 1
  BY DEF ClientInv, Send
<1>b. sent' = Append(sent, nreq)
  BY DEF Send
<1>a. reqbuf' \in BOOLEAN
  BY Zenon DEF Send
<1>2. nreq \in Request /\ nreq + 1 \in 0..argc
  BY <1>1, IntFacts DEF Request
<1>3. /\ sent' \in Seq(Request) /\ Len(sent') = Len(sent) + 1
      /\ \A k \in 1..Len(sent) : sent'[k] = sent[k]
      /\ sent'[Len(sent) + 1] = nreq
  BY <1>1, <1>b, <1>2, IntFacts, AppendProperties
<1>4. TypeOK'
  BY <1>a, <1>1, <1>2, <1>3 DEF TypeOK
<1>5. LoopInv'
  BY <1>1, <1>2, IntFacts DEF LoopInv, Connected
<1>6. StreamInv'
  <2>1. Hand = 0 /\ Hand' = 0
    BY DEF Hand
  <2>2. Len(replies) + Len(sent') <= nreq' - nres'
    BY <1>1, <1>3, <2>1, IntFacts DEF StreamInv
  <2>3. ASSUME ~closed
        PROVE  /\ Len(replies) + Len(sent') = nreq' - nres'
               /\ \A k \in 1..Len(sent') : sent'[k] = nres + Len(replies) + k - 1
    <3>1. /\ Len(replies) + Len(sent) = nreq - nres
          /\ \A k \in 1..Len(sent) : sent[k] = nres + Len(replies) + k - 1
      BY <1>1, <2>1, <2>3, IntFacts DEF StreamInv, Connected
    <3>2. nreq = nres + Len(replies) + (Len(sent) + 1) - 1
      BY <1>0, <3>1
    <3>3. Len(replies) + Len(sent') = nreq' - nres'
      BY <1>0, <1>1, <1>3, <3>1
    <3>4. ASSUME NEW k \in 1..Len(sent') PROVE sent'[k] = nres + Len(replies) + k - 1
      <4>1. CASE k = Len(sent) + 1
        BY <1>3, <3>2, <4>1
      <4>2. CASE k # Len(sent) + 1
        <5>1. k \in 1..Len(sent)
          BY <1>1, <1>3, <4>2, IntFacts
        <5> QED
          BY <1>3, <3>1, <5>1
      <4> QED
        BY <4>1, <4>2
    <3> QED
      BY <3>3, <3>4
  <2>4. \A k \in 1..Len(replies') : replies'[k].to = nres' + Hand' + k - 1
    BY <1>1, <2>1 DEF StreamInv
  <2>5. Hand' + Len(replies') + Len(sent') <= nreq' - nres'
    BY <1>0, <1>3, <2>1, <2>2
  <2>6. ASSUME ~closed
        PROVE  /\ Hand' + Len(replies') + Len(sent') = nreq' - nres'
               /\ \A k \in 1..Len(sent') :
                    sent'[k] = nres' + Hand' + Len(replies') + k - 1
    BY <1>0, <1>3, <2>1, <2>3, <2>6
  <2>7. Connected' /\ pc' # "body"
    BY DEF Connected
  <2> QED
    BY <2>4, <2>5, <2>6, <2>7 DEF StreamInv
<1> QED
  BY <1>4, <1>5, <1>6 DEF ClientInv

LEMMA ClientConnect == ASSUME ClientInv, Connect \/ ConnectFails PROVE ClientInv'
<1>0. /\ nreq \in Nat /\ nres \in Nat /\ argc \in Nat
      /\ Len(replies) \in Nat /\ Len(sent) \in Nat
  BY IntFacts DEF ClientInv
<1>1. /\ TypeOK /\ LoopInv /\ StreamInv /\ pc = "connect"
      /\ pc' \in {"fill", "failed"} /\ firstreq' \in {firstreq, nres}
      /\ UNCHANGED <<network, nreq, nres, pipelined, reqbuf, reply, file, sent, replies,
                     garbage>>
  BY DEF ClientInv, Connect, ConnectFails, conn
<1>2. closed' \in BOOLEAN /\ answered' \in BOOLEAN
  BY <1>1, Zenon DEF Connect, ConnectFails, conn, TypeOK
<1>3. sent = <<>> /\ replies = <<>> /\ nreq = nres /\ nres < argc
  BY <1>1 DEF LoopInv, StreamInv, Connected
<1>4. TypeOK'
  BY <1>1, <1>2 DEF TypeOK
<1>5. LoopInv'
  BY <1>0, <1>1, <1>3 DEF LoopInv, Connected
<1>6. StreamInv'
  BY <1>0, <1>1, <1>3 DEF StreamInv, Hand
<1> QED
  BY <1>4, <1>5, <1>6 DEF ClientInv

\* The headers of the next reply are those of the next request.
LEMMA ClientReadHeader == ASSUME ClientInv, ReadHeader PROVE ClientInv'
<1>0. /\ nreq \in Nat /\ nres \in Nat /\ argc \in Nat
      /\ Len(replies) \in Nat /\ Len(sent) \in Nat
  BY IntFacts DEF ClientInv
<1>1. /\ TypeOK /\ LoopInv /\ StreamInv /\ pc = "header" /\ replies # <<>>
      /\ replies' = Tail(replies)
      /\ UNCHANGED <<network, nreq, firstreq, reqbuf, sent, garbage, closed, answered>>
      /\ pipelined' \in BOOLEAN
  BY DEF ClientInv, ReadHeader
<1>2. replies \in Seq(Reply) /\ nres < argc /\ nres < nreq /\ nreq <= argc /\ firstreq <= nres
  BY <1>1 DEF TypeOK, LoopInv, Connected
<1>3. /\ replies' \in Seq(Reply) /\ Len(replies') = Len(replies) - 1 /\ Len(replies) >= 1
      /\ \A k \in 1..Len(replies') : replies'[k] = replies[k + 1]
      /\ Head(replies) = replies[1] /\ Head(replies) \in Reply
  BY <1>1, <1>2, HeadTailProperties
<1>4. nres \in Request
  BY <1>0, <1>2 DEF Request
<1>5. \/ /\ nres' = nres + 1 /\ pc' = (IF nres + 1 = argc THEN "done" ELSE "fill")
         /\ reply' = reply
         /\ file' = [file EXCEPT ![nres] = "ignored"]
      \/ /\ nres' = nres /\ pc' = "body" /\ reply' = Head(replies)
         /\ \/ file' = [file EXCEPT ![nres] = "part"]
            \/ file' = [file EXCEPT ![nres] = file[nres]]
  BY DEF ReadHeader, Top
<1>6. /\ file' \in [Request -> FileState]
      /\ reply' \in Reply \cup {NoReply}
  BY <1>1, <1>3, <1>4, <1>5 DEF TypeOK
<1>7. Head(replies) # NoReply /\ Head(replies).to = nres
  <2>1. Head(replies).to = nres + Hand + 1 - 1 /\ Hand = 0
    BY <1>0, <1>1, <1>3 DEF StreamInv, Hand
  <2>2. Head(replies).to = nres
    BY <1>0, <2>1
  <2>3. Head(replies) # NoReply
    BY <1>3, ReplyFacts
  <2> QED
    BY <2>2, <2>3
<1>8. Hand = 0 /\ reply = NoReply
  BY <1>1 DEF Hand, LoopInv
<1>9. \A k \in 1..Len(replies') : replies'[k].to = nres + k
  <2>1. \A k \in 1..Len(replies) : replies[k].to = nres + k - 1
    BY <1>0, <1>1, <1>8 DEF StreamInv
  <2> QED
    BY <1>0, <1>3, <2>1
<1>10. /\ Len(replies') + Len(sent') + 1 <= nreq - nres
       /\ ~closed => /\ Len(replies') + Len(sent') + 1 = nreq - nres
                     /\ \A k \in 1..Len(sent') : sent'[k] = nres + Len(replies') + k
  <2>1. Len(replies) + Len(sent) <= nreq - nres
    BY <1>0, <1>1, <1>8 DEF StreamInv
  <2>2. ~closed => /\ Len(replies) + Len(sent) = nreq - nres
                   /\ \A k \in 1..Len(sent) : sent[k] = nres + Len(replies) + k - 1
    BY <1>0, <1>1, <1>8 DEF StreamInv, Connected
  <2> QED
    BY <1>0, <1>1, <1>3, <2>1, <2>2
<1>11. CASE nres' = nres
  <2>1. pc' = "body" /\ reply' = Head(replies) /\ Hand' = 1
    BY <1>0, <1>5, <1>11 DEF Hand
  <2>2. TypeOK'
    BY <1>0, <1>1, <1>3, <1>6, <1>11, <2>1 DEF TypeOK
  <2>3. LoopInv'
    BY <1>0, <1>1, <1>2, <1>7, <1>11, <2>1 DEF LoopInv, Connected
  <2>4. StreamInv'
    <3>1. \A k \in 1..Len(replies') : replies'[k].to = nres' + Hand' + k - 1
      BY <1>0, <1>3, <1>9, <1>11, <2>1
    <3>2. Hand' + Len(replies') + Len(sent') <= nreq' - nres'
      BY <1>0, <1>1, <1>3, <1>10, <1>11, <2>1
    <3>3. ~closed' => /\ Hand' + Len(replies') + Len(sent') = nreq' - nres'
                      /\ \A k \in 1..Len(sent') :
                           sent'[k] = nres' + Hand' + Len(replies') + k - 1
      BY <1>0, <1>1, <1>3, <1>10, <1>11, <2>1
    <3> QED
      BY <1>7, <1>11, <2>1, <3>1, <3>2, <3>3 DEF StreamInv, Connected
  <2> QED
    BY <2>2, <2>3, <2>4 DEF ClientInv
<1>12. CASE nres' = nres + 1
  <2>1. /\ reply' = NoReply /\ Hand' = 0
        /\ pc' = (IF nres + 1 = argc THEN "done" ELSE "fill")
    BY <1>0, <1>5, <1>8, <1>12 DEF Hand
  <2>2. TypeOK'
    BY <1>0, <1>1, <1>2, <1>3, <1>6, <1>12, <2>1 DEF TypeOK
  <2>3. LoopInv'
    BY <1>0, <1>1, <1>2, <1>12, <2>1, IntFacts DEF LoopInv, Connected
  <2>4. pc' = "done" => Len(replies') = 0 /\ Len(sent') = 0
    BY <1>0, <1>1, <1>2, <1>3, <1>10, <2>1
  <2>5. pc' = "done" => replies' = <<>> /\ sent' = <<>>
    BY <1>1, <1>3, <2>4 DEF TypeOK
  <2>6. StreamInv'
    <3>1. \A k \in 1..Len(replies') : replies'[k].to = nres' + Hand' + k - 1
      BY <1>0, <1>3, <1>9, <1>12, <2>1
    <3>2. Hand' + Len(replies') + Len(sent') <= nreq' - nres'
      BY <1>0, <1>1, <1>3, <1>10, <1>12, <2>1
    <3>3. ~closed' => /\ Hand' + Len(replies') + Len(sent') = nreq' - nres'
                      /\ \A k \in 1..Len(sent') :
                           sent'[k] = nres' + Hand' + Len(replies') + k - 1
      BY <1>0, <1>1, <1>3, <1>10, <1>12, <2>1
    <3> QED
      BY <2>1, <2>5, <3>1, <3>2, <3>3 DEF StreamInv, Connected
  <2> QED
    BY <2>2, <2>3, <2>6 DEF ClientInv
<1> QED
  BY <1>5, <1>11, <1>12

LEMMA ClientReadBody == ASSUME ClientInv, ReadBody PROVE ClientInv'
<1>0. /\ nreq \in Nat /\ nres \in Nat /\ argc \in Nat
      /\ Len(replies) \in Nat /\ Len(sent) \in Nat
  BY IntFacts DEF ClientInv
<1>1. /\ TypeOK /\ LoopInv /\ StreamInv /\ pc = "body" /\ nres' = nres + 1
      /\ file' = [file EXCEPT ![nres] = Saved]
      /\ UNCHANGED <<network, firstreq, closed, answered>>
  BY DEF ClientInv, ReadBody
<1>2. nres < argc /\ nres < nreq /\ nreq <= argc /\ firstreq <= nres /\ nres \in Request
  BY <1>0, <1>1 DEF TypeOK, LoopInv, Connected, Request
<1>3. file' \in [Request -> FileState]
  BY <1>1, <1>2 DEF TypeOK, Saved
<1>4. CASE Cleanup(nres + 1)
  <2>1. nres + 1 <= argc
    BY <1>0, <1>2
  <2> QED
    BY <1>1, <1>3, <1>4, <2>1, ClientCleanup
<1>5. CASE /\ pc' = (IF nres + 1 = argc THEN "done" ELSE "fill") /\ reply' = NoReply
           /\ pipelined' = (reply.kind.frame # "eof" /\ pipelined)
           /\ garbage' \in BOOLEAN
           /\ UNCHANGED <<nreq, reqbuf, sent, replies>>
  <2>1. Hand = 1 /\ Hand' = 0 /\ pc' = (IF nres + 1 = argc THEN "done" ELSE "fill")
    BY <1>1, <1>5 DEF Hand
  <2>2. /\ Len(replies) + Len(sent) <= nreq - nres - 1
        /\ \A k \in 1..Len(replies) : replies[k].to = nres + 1 + k - 1
        /\ ~closed => /\ Len(replies) + Len(sent) = nreq - nres - 1
                      /\ \A k \in 1..Len(sent) : sent[k] = nres + 1 + Len(replies) + k - 1
    BY <1>0, <1>1, <2>1 DEF StreamInv, Connected
  <2>3. pipelined' \in BOOLEAN
    BY <1>5
  <2>4. TypeOK'
    BY <1>0, <1>1, <1>2, <1>3, <1>5, <2>1, <2>3 DEF TypeOK
  <2>5. LoopInv'
    BY <1>0, <1>1, <1>2, <1>5, <2>1, IntFacts DEF LoopInv, Connected
  <2>6. pc' = "done" => Len(replies) = 0 /\ Len(sent) = 0
    BY <1>0, <1>2, <2>1, <2>2
  <2>7. pc' = "done" => replies' = <<>> /\ sent' = <<>>
    BY <1>1, <1>5, <2>6 DEF TypeOK
  <2>8. StreamInv'
    <3>1. Hand' + Len(replies') + Len(sent') <= nreq' - nres'
      BY <1>0, <1>1, <1>5, <2>1, <2>2
    <3>2. \A k \in 1..Len(replies') : replies'[k].to = nres' + Hand' + k - 1
      BY <1>0, <1>1, <1>5, <2>1, <2>2
    <3>3. ~closed' =>
            /\ Hand' + Len(replies') + Len(sent') = nreq' - nres'
            /\ \A k \in 1..Len(sent') : sent'[k] = nres' + Hand' + Len(replies') + k - 1
      BY <1>0, <1>1, <1>5, <2>1, <2>2
    <3>4. pc' # "body"
      BY <2>1
    <3> QED
      BY <2>1, <2>7, <3>1, <3>2, <3>3, <3>4 DEF StreamInv, Connected
  <2> QED
    BY <2>4, <2>5, <2>8 DEF ClientInv
<1>6. Left \subseteq BOOLEAN
  BY DEF Left
<1> QED
  BY <1>4, <1>5, <1>6 DEF ReadBody, Top

LEMMA ClientAnswer == ASSUME ClientInv, NEW kind \in Kind, Answer(kind) PROVE ClientInv'
<1>0. /\ nreq \in Nat /\ nres \in Nat /\ argc \in Nat /\ Hand \in Nat
      /\ Len(replies) \in Nat /\ Len(sent) \in Nat
  BY IntFacts DEF ClientInv
<1>1. /\ TypeOK /\ LoopInv /\ StreamInv /\ Connected /\ ~closed /\ sent # <<>>
      /\ UNCHANGED <<network, pc, nreq, nres, firstreq, pipelined, reqbuf, reply, file,
                     garbage>>
  BY DEF ClientInv, Answer
<1> DEFINE r == [to |-> Head(sent), kind |-> kind, cut |-> FALSE]
<1>2. replies' = Append(replies, r) /\ sent' = Tail(sent)
  BY DEF Answer
<1>3. sent \in Seq(Request) /\ replies \in Seq(Reply)
  BY <1>1 DEF TypeOK
<1>4. /\ sent' \in Seq(Request) /\ Len(sent') = Len(sent) - 1
      /\ \A k \in 1..Len(sent') : sent'[k] = sent[k + 1]
      /\ Head(sent) \in Request /\ Head(sent) = sent[1] /\ Len(sent) >= 1
  BY <1>1, <1>2, <1>3, HeadTailProperties
<1>5. r \in Reply /\ r.to = sent[1]
  BY <1>4 DEF Reply
<1> HIDE DEF r
<1>6. /\ replies' \in Seq(Reply) /\ Len(replies') = Len(replies) + 1
      /\ \A k \in 1..Len(replies) : replies'[k] = replies[k]
      /\ replies'[Len(replies) + 1] = r
  BY <1>2, <1>3, <1>5, AppendProperties
<1>7. closed' \in BOOLEAN /\ answered' \in BOOLEAN
  BY Zenon DEF Answer, Last
<1>8. TypeOK'
  BY <1>1, <1>4, <1>6, <1>7 DEF TypeOK
<1>9. LoopInv'
  BY <1>1 DEF LoopInv, Connected
<1>10. /\ Hand + Len(replies) + Len(sent) = nreq - nres
       /\ \A k \in 1..Len(replies) : replies[k].to = nres + Hand + k - 1
       /\ \A k \in 1..Len(sent) : sent[k] = nres + Hand + Len(replies) + k - 1
  BY <1>1 DEF StreamInv
<1>11. Hand' = Hand
  BY <1>1 DEF Hand
<1>12. ASSUME NEW k \in 1..Len(replies') PROVE replies'[k].to = nres' + Hand' + k - 1
  <2>1. CASE k = Len(replies) + 1
    <3>1. sent[1] = nres + Hand + Len(replies) + 1 - 1
      BY <1>0, <1>4, <1>10
    <3>2. nres + Hand + Len(replies) + 1 - 1 = nres + Hand + k - 1
      BY <1>0, <2>1
    <3> QED
      BY <1>1, <1>5, <1>6, <1>11, <2>1, <3>1, <3>2
  <2>2. CASE k # Len(replies) + 1
    <3>1. k \in 1..Len(replies)
      BY <1>0, <1>6, <2>2
    <3> QED
      BY <1>1, <1>6, <1>10, <1>11, <3>1
  <2> QED
    BY <2>1, <2>2
<1>13. /\ Hand' + Len(replies') + Len(sent') = nreq' - nres'
       /\ \A k \in 1..Len(sent') : sent'[k] = nres' + Hand' + Len(replies') + k - 1
  <2>1. nreq' = nreq /\ nres' = nres
    BY <1>1
  <2>2. Hand' + Len(replies') + Len(sent') = nreq' - nres'
    <3>1. Len(sent') = Len(sent) - 1 /\ Len(replies') = Len(replies) + 1
      BY <1>4, <1>6
    <3>2. Hand + Len(replies) + Len(sent) = nreq - nres
      BY <1>10
    <3> QED
      BY <1>0, <1>11, <2>1, <3>1, <3>2
  <2>3. ASSUME NEW k \in 1..Len(sent')
        PROVE  sent'[k] = nres' + Hand' + Len(replies') + k - 1
    <3>1. k + 1 \in 1..Len(sent) /\ sent'[k] = sent[k + 1]
      BY <1>0, <1>4
    <3>2. sent[k + 1] = nres + Hand + Len(replies) + (k + 1) - 1
      BY <1>10, <3>1
    <3> QED
      BY <1>0, <1>6, <1>11, <2>1, <3>1, <3>2
  <2> QED
    BY <2>2, <2>3
<1>14. Hand' + Len(replies') + Len(sent') <= nreq' - nres'
  BY <1>0, <1>1, <1>13
<1>15. StreamInv'
  BY <1>1, <1>12, <1>13, <1>14 DEF StreamInv, Connected
<1> QED
  BY <1>8, <1>9, <1>15 DEF ClientInv

LEMMA ClientBreak == ASSUME ClientInv, Connected, Break PROVE ClientInv'
<1>0. /\ nreq \in Nat /\ nres \in Nat /\ argc \in Nat /\ Hand \in Nat
      /\ Len(replies) \in Nat /\ Len(sent) \in Nat
  BY IntFacts DEF ClientInv
<1>1. /\ TypeOK /\ LoopInv /\ StreamInv /\ sent' = <<>>
      /\ UNCHANGED <<network, pc, nreq, nres, firstreq, pipelined, reqbuf, file, garbage,
                     answered>>
      /\ replies \in Seq(Reply)
  BY DEF ClientInv, Break, TypeOK
<1>2. closed' \in BOOLEAN /\ closed'
  BY DEF Break
<1>3. /\ replies' \in Seq(Reply) /\ Len(replies') \in Nat /\ Len(replies') <= Len(replies)
      /\ \A k \in 1..Len(replies') : replies'[k].to = replies[k].to
  <2>1. CASE replies' \in Beginnings(replies)
    BY <1>1, <2>1, BeginningFacts
  <2>2. CASE replies' = <<>>
    BY <1>0, <2>2
  <2> QED
    BY <2>1, <2>2 DEF Break
<1>4. /\ reply' \in Reply \cup {NoReply}
      /\ reply' # NoReply <=> reply # NoReply
      /\ reply # NoReply => reply'.to = reply.to
  <2>1. CASE reply' = reply
    BY <1>1, <2>1 DEF TypeOK
  <2>2. CASE reply # NoReply /\ reply' = [reply EXCEPT !.cut = TRUE]
    BY <1>1, <2>2, ReplyFacts DEF TypeOK
  <2> QED
    BY <2>1, <2>2 DEF Break
<1>5. TypeOK'
  BY <1>1, <1>2, <1>3, <1>4 DEF TypeOK
<1>6. LoopInv'
  BY <1>1, <1>4 DEF LoopInv, Connected
<1>7. StreamInv'
  <2>1. Hand' = Hand /\ Len(sent') = 0
    BY <1>1 DEF Hand
  <2>2. \A k \in 1..Len(replies') : replies'[k].to = nres' + Hand' + k - 1
    <3>1. \A k \in 1..Len(replies) : replies[k].to = nres + Hand + k - 1
      BY <1>1 DEF StreamInv
    <3>2. \A k \in 1..Len(replies') : k \in 1..Len(replies)
      BY <1>0, <1>3
    <3> QED
      BY <1>1, <1>3, <2>1, <3>1, <3>2
  <2>3. Hand' + Len(replies') + Len(sent') <= nreq' - nres'
    <3>1. Hand + Len(replies) + Len(sent) <= nreq - nres
      BY <1>1 DEF StreamInv
    <3> QED
      BY <1>0, <1>1, <1>3, <2>1, <3>1
  <2>4. pc' = "body" => reply'.to = nres'
    BY <1>1, <1>4 DEF StreamInv, LoopInv
  <2> QED
    BY <1>1, <1>2, <2>2, <2>3, <2>4 DEF StreamInv, Connected
<1> QED
  BY <1>5, <1>6, <1>7 DEF ClientInv

LEMMA ClientHangUp == ASSUME ClientInv, HangUp PROVE ClientInv'
<1>1. /\ TypeOK /\ LoopInv /\ StreamInv /\ Connected /\ closed'
      /\ UNCHANGED <<network, pc, nreq, nres, firstreq, pipelined, reqbuf, reply, file,
                     sent, replies, garbage, answered>>
  BY DEF ClientInv, HangUp
<1>2. closed' \in BOOLEAN
  BY DEF HangUp
<1>3. TypeOK'
  BY <1>1, <1>2 DEF TypeOK
<1>4. LoopInv' /\ StreamInv'
  BY <1>1 DEF LoopInv, StreamInv, Connected, Hand
<1> QED
  BY <1>3, <1>4 DEF ClientInv

LEMMA ClientStep == ClientInv /\ [Next]_vars => ClientInv'
<1> SUFFICES ASSUME ClientInv, [Next]_vars PROVE ClientInv'
  OBVIOUS
<1>1. CASE PipelineSend
  BY <1>1, ClientSend DEF PipelineSend
<1>2. CASE MakeRequest
  <2>1. reqbuf' \in BOOLEAN
    BY <1>2, Zenon DEF MakeRequest
  <2> QED
    BY <1>2, <2>1, ClientMoves DEF MakeRequest
<1>3. CASE AllSent
  <2>1. reqbuf' \in BOOLEAN
    BY <1>3, Zenon DEF AllSent, ClientInv, TypeOK
  <2> QED
    BY <1>3, <2>1, ClientMoves DEF AllSent
<1>4. CASE BlockingSend
  <2>1. nreq < argc
    BY <1>4 DEF BlockingSend, ClientInv, LoopInv, Connected
  <2> QED
    BY <1>4, <2>1, ClientSend DEF BlockingSend
<1>5. CASE NoSend
  <2>1. reqbuf' \in BOOLEAN
    BY <1>5, Zenon DEF NoSend, ClientInv, TypeOK
  <2> QED
    BY <1>5, <2>1, ClientMoves DEF NoSend
<1>6. CASE SendFails \/ HeaderDies \/ BodyDies \/ Timeout
  BY <1>6, ClientConnDied DEF SendFails, HeaderDies, BodyDies, Timeout, Connected
<1>7. CASE Server
  BY <1>7, ClientAnswer, ClientBreak, ClientHangUp DEF Server, Reset, Breakdown
<1>8. CASE Exited \/ UNCHANGED vars
  <2>1. /\ UNCHANGED <<network, pc, nreq, nres, firstreq, pipelined, reqbuf, reply, file,
                       sent, replies, garbage, closed, answered>>
        /\ TypeOK /\ LoopInv /\ StreamInv
    BY <1>8 DEF Exited, vars, ClientInv
  <2>2. TypeOK'
    BY <2>1 DEF TypeOK
  <2>3. LoopInv'
    BY <2>1 DEF LoopInv, Connected
  <2>4. StreamInv'
    BY <2>1 DEF StreamInv, Connected, Hand
  <2> QED
    BY <2>2, <2>3, <2>4 DEF ClientInv
<1> QED
  BY <1>1, <1>2, <1>3, <1>4, <1>5, <1>6, <1>7, <1>8, ClientConnect, ClientReadHeader,
     ClientReadBody DEF Next, Client

LEMMA Streaming == Spec => []ClientInv
  BY ClientInit, ClientStep, PTL DEF Spec

-----------------------------------------------------------------------------
(* Outstanding, from positions to concatenations. *)

\* The replies that the client has not read to their end.
InHand == IF reply = NoReply THEN <<>> ELSE <<reply.to>>
Names == [k \in 1..Len(replies) |-> replies[k].to]

LEMMA NamesFacts ==
    ASSUME ClientInv
    PROVE  /\ InHand \in Seq(Request) /\ Len(InHand) = Hand
           /\ Names \in Seq(Request) /\ Len(Names) = Len(replies)
           /\ sent \in Seq(Request)
           /\ \A k \in 1..Hand : InHand[k] = nres
<1>0. nres \in Nat /\ Len(replies) \in Nat
  BY IntFacts DEF ClientInv
<1>1. TypeOK /\ LoopInv /\ StreamInv
  BY DEF ClientInv
<1>2. \A k \in 1..Len(replies) : replies[k].to \in Request
  <2> SUFFICES ASSUME NEW k \in 1..Len(replies) PROVE replies[k].to \in Request
    OBVIOUS
  <2>1. replies \in Seq(Reply)
    BY <1>1 DEF TypeOK
  <2>2. replies[k] \in Reply
    BY <2>1
  <2> QED
    BY <2>2, ReplyFacts
<1>3. Names \in Seq(Request) /\ Len(Names) = Len(replies)
  BY <1>0, <1>2 DEF Names
<1>4. CASE reply = NoReply
  BY <1>1, <1>3, <1>4 DEF InHand, Hand, LoopInv, TypeOK
<1>5. CASE reply # NoReply
  <2>1. reply.to \in Request /\ reply.to = nres /\ Hand = 1
    BY <1>1, <1>5, ReplyFacts DEF TypeOK, StreamInv, LoopInv, Hand
  <2>2. InHand = <<nres>>
    BY <1>5, <2>1 DEF InHand
  <2> QED
    BY <1>1, <1>3, <2>1, <2>2 DEF TypeOK
<1> QED
  BY <1>4, <1>5

LEMMA UnreadFacts ==
    ASSUME ClientInv
    PROVE  /\ Len(InHand \o Names) = Hand + Len(replies)
           /\ \A k \in 1..Len(InHand \o Names) : (InHand \o Names)[k] = nres + k - 1
           /\ InHand \o Names \in Seq(Request)
<1>0. /\ nreq \in Nat /\ nres \in Nat /\ Hand \in Nat
      /\ Len(replies) \in Nat /\ Len(sent) \in Nat
  BY IntFacts DEF ClientInv
<1>1. /\ InHand \o Names \in Seq(Request)
      /\ Len(InHand \o Names) = Hand + Len(replies)
      /\ \A k \in 1..(Hand + Len(replies)) :
            (InHand \o Names)[k] = IF k <= Hand THEN InHand[k] ELSE Names[k - Hand]
  <2>1. /\ InHand \in Seq(Request) /\ Names \in Seq(Request)
        /\ Len(InHand) = Hand /\ Len(Names) = Len(replies)
    BY NamesFacts
  <2>2. /\ InHand \o Names \in Seq(Request)
        /\ Len(InHand \o Names) = Len(InHand) + Len(Names)
        /\ \A k \in 1..(Len(InHand) + Len(Names)) :
              (InHand \o Names)[k] =
                 IF k <= Len(InHand) THEN InHand[k] ELSE Names[k - Len(InHand)]
    BY <2>1, ConcatProperties
  <2> QED
    BY <2>1, <2>2, Zenon
<1>2. \A k \in 1..Len(replies) : replies[k].to = nres + Hand + k - 1
  BY DEF ClientInv, StreamInv
<1>3. ASSUME NEW k \in 1..(Hand + Len(replies)) PROVE (InHand \o Names)[k] = nres + k - 1
  <2>0. k \in Nat /\ 1 <= k /\ k <= Hand + Len(replies)
    BY <1>0
  <2>1. CASE k <= Hand
    <3>1. InHand[k] = nres
      BY <1>0, <2>1, NamesFacts
    <3>2. k = 1
      BY <1>0, <2>1, IntFacts DEF ClientInv
    <3>3. (InHand \o Names)[k] = InHand[k]
      BY <1>1, <2>1
    <3> QED
      BY <1>0, <3>1, <3>2, <3>3
  <2>2. CASE k > Hand
    <3>1. k - Hand \in 1..Len(replies)
      BY <1>0, <2>2
    <3>2. Names[k - Hand] = nres + Hand + (k - Hand) - 1
      BY <1>2, <3>1 DEF Names
    <3>3. nres + Hand + (k - Hand) - 1 = nres + k - 1
      BY <1>0
    <3>4. (InHand \o Names)[k] = Names[k - Hand]
      BY <1>0, <1>1, <2>2
    <3> QED
      BY <3>2, <3>3, <3>4
  <2>3. k <= Hand \/ k > Hand
    BY <1>0, <2>0
  <2> QED
    BY <2>1, <2>2, <2>3
<1> QED
  BY <1>1, <1>3

\* On any network and with any replies, the requests without a complete answer
\* are on the connection, in order and once each.
THEOREM OrderKept == Spec => []Outstanding
<1>1. ASSUME ClientInv PROVE Outstanding
  <2> DEFINE U == InHand \o Names
             A == U \o sent
  <2>0. /\ nreq \in Nat /\ nres \in Nat /\ Hand \in Nat
        /\ Len(replies) \in Nat /\ Len(sent) \in Nat
    BY <1>1, IntFacts DEF ClientInv
  <2>1. TypeOK /\ LoopInv /\ StreamInv
    BY <1>1 DEF ClientInv
  <2>2. /\ U \in Seq(Request) /\ Len(U) = Hand + Len(replies)
        /\ \A k \in 1..Len(U) : U[k] = nres + k - 1
    BY <1>1, UnreadFacts
  <2>3. sent \in Seq(Request)
    BY <2>1 DEF TypeOK
  <2> HIDE DEF U
  <2>4. /\ A \in Seq(Request) /\ Len(A) = Len(U) + Len(sent)
        /\ \A k \in 1..(Len(U) + Len(sent)) :
              A[k] = IF k <= Len(U) THEN U[k] ELSE sent[k - Len(U)]
    BY <2>2, <2>3, ConcatProperties
  <2>5. Len(U) <= nreq - nres
    <3>1. Hand + Len(replies) + Len(sent) <= nreq - nres
      BY <2>1 DEF StreamInv
    <3> QED
      BY <2>0, <2>2, <3>1
  <2>6. ASSUME Connected, ~closed
        PROVE  /\ Len(A) = nreq - nres
               /\ \A k \in 1..Len(A) : A[k] = nres + k - 1
    <3>1. /\ Hand + Len(replies) + Len(sent) = nreq - nres
          /\ \A k \in 1..Len(sent) : sent[k] = nres + Hand + Len(replies) + k - 1
      BY <2>1, <2>6 DEF StreamInv
    <3>2. Len(A) = nreq - nres
      BY <2>0, <2>2, <2>4, <3>1
    <3>3. ASSUME NEW k \in 1..Len(A) PROVE A[k] = nres + k - 1
      <4>1. CASE k <= Len(U)
        BY <2>0, <2>2, <2>4, <4>1
      <4>2. CASE k > Len(U)
        <5>1. k - Len(U) \in 1..Len(sent)
          BY <2>0, <2>2, <2>4, <4>2
        <5>2. sent[k - Len(U)] = nres + Hand + Len(replies) + (k - Len(U)) - 1
          BY <3>1, <5>1
        <5>3. nres + Hand + Len(replies) + (k - Len(U)) - 1 = nres + k - 1
          BY <2>0, <2>2
        <5>4. A[k] = sent[k - Len(U)]
          BY <2>0, <2>2, <2>4, <4>2
        <5> QED
          BY <5>2, <5>3, <5>4
      <4> QED
        BY <2>0, <2>2, <4>1, <4>2
    <3> QED
      BY <3>2, <3>3
  <2>7. ~Connected => A = <<>>
    <3> SUFFICES ASSUME ~Connected PROVE A = <<>>
      OBVIOUS
    <3>1. sent = <<>> /\ replies = <<>> /\ Hand = 0
      BY <2>1 DEF StreamInv, Connected, Hand
    <3>2. Len(A) = 0
      BY <2>0, <2>2, <2>4, <3>1
    <3> QED
      BY <2>4, <3>2
  <2> HIDE DEF A
  <2>8. /\ \A k \in 1..Len(U) : U[k] = nres + k - 1
        /\ Len(U) <= nreq - nres
        /\ Connected /\ ~closed => /\ Len(A) = nreq - nres
                                   /\ \A k \in 1..Len(A) : A[k] = nres + k - 1
        /\ ~Connected => A = <<>>
    BY <2>2, <2>5, <2>6, <2>7
  <2> QED
    BY <2>1, <2>8 DEF Outstanding, A, U, InHand, Names
<1> QED
  BY <1>1, Streaming, PTL
-----------------------------------------------------------------------------
(* RightFiles. *)

LEMMA FileWritten ==
    ASSUME RightFiles, NEW v, nres \in Nat,
           file \in [Request -> FileState],
           file' = [file EXCEPT ![nres] = v],
           \/ nres' = nres /\ v \in {"none", "part"}
           \/ nres' = nres + 1 /\ v \in {"whole", "first", "short", "ignored"}
    PROVE  RightFiles'
<1> SUFFICES ASSUME NEW r \in Request
             PROVE  /\ file'[r] \notin {"wrong", "torn"}
                    /\ r < nres' => file'[r] \in {"whole", "first", "short", "ignored"}
                    /\ r = nres' => file'[r] \in {"none", "part"}
                    /\ r > nres' => file'[r] = "none"
  BY DEF RightFiles
<1>0. r \in Int
  BY SizeAssumption DEF Request
<1>1. /\ file[r] \notin {"wrong", "torn"}
      /\ r < nres => file[r] \in {"whole", "first", "short", "ignored"}
      /\ r = nres => file[r] \in {"none", "part"}
      /\ r > nres => file[r] = "none"
  BY DEF RightFiles
<1>2. file'[r] = IF r = nres THEN v ELSE file[r]
  OBVIOUS
<1> QED
  BY <1>0, <1>1, <1>2

LEMMA FilesStep == ASSUME ClientInv, RightFiles, [Next]_vars PROVE RightFiles'
<1>0. nres \in Nat
  BY IntFacts DEF ClientInv
<1>1. /\ TypeOK /\ LoopInv /\ StreamInv
      /\ file \in [Request -> FileState]
  BY DEF ClientInv, TypeOK
<1>2. Connected => nres \in Request
  BY <1>0, <1>1, IntFacts DEF LoopInv, Request
<1>3. CASE UNCHANGED <<file, nres>>
  BY <1>3 DEF RightFiles
<1>4. CASE ReadHeader
  <2>1. Connected
    BY <1>4 DEF ReadHeader, Connected
  <2>2. file[nres] \in {"none", "part"}
    BY <1>2, <2>1 DEF RightFiles
  <2> DEFINE status == Head(replies).kind.status
  <2>3. CASE status = 204
    BY <1>0, <1>1, <1>4, <2>3, FileWritten DEF ReadHeader
  <2>4. CASE status # 204
    BY <1>0, <1>1, <1>4, <2>2, <2>4, FileWritten DEF ReadHeader
  <2> QED
    BY <2>3, <2>4
<1>5. CASE ReadBody
  <2>1. reply.to = nres
    BY <1>1, <1>5 DEF ReadBody, StreamInv
  <2>2. Saved \in {"whole", "first", "short", "ignored"}
    <3>1. Left # {}
      BY <1>5 DEF ReadBody
    <3>2. reply \in Reply
      BY <1>1, <1>5 DEF ReadBody, LoopInv, TypeOK
    <3>3. reply.kind.frame \in {"length", "eof", "chunks"}
      BY <3>2, KindAssumption DEF Reply
    <3> QED
      BY <2>1, <3>1, <3>3 DEF Left, Saved
  <2>3. file' = [file EXCEPT ![nres] = Saved] /\ nres' = nres + 1
    BY <1>5 DEF ReadBody
  <2> QED
    BY <1>0, <1>1, <2>2, <2>3, FileWritten
<1>6. ConnDied => UNCHANGED <<file, nres>>
  BY DEF ConnDied
<1>7. SendFails \/ HeaderDies \/ BodyDies \/ Timeout => UNCHANGED <<file, nres>>
  BY <1>6 DEF SendFails, HeaderDies, BodyDies, Timeout
<1>8. /\ Connect \/ ConnectFails => UNCHANGED <<file, nres>>
      /\ PipelineSend \/ BlockingSend => UNCHANGED <<file, nres>>
      /\ MakeRequest \/ AllSent \/ NoSend => UNCHANGED <<file, nres>>
  BY DEF Connect, ConnectFails, PipelineSend, BlockingSend, MakeRequest, AllSent, NoSend
<1>9. Server => UNCHANGED <<file, nres>>
  BY DEF Server, Answer, HangUp, Reset, Breakdown, Break
<1>10. Exited \/ UNCHANGED vars => UNCHANGED <<file, nres>>
  BY DEF Exited, vars
<1> QED
  BY <1>3, <1>4, <1>5, <1>7, <1>8, <1>9, <1>10 DEF Next, Client

\* On any network and with any replies, a file never holds the reply to another
\* request.
THEOREM NeverMixedUp == Spec => []RightFiles
<1>1. Init => RightFiles
  BY SizeAssumption DEF Init, RightFiles, Request
<1> QED
  BY <1>1, FilesStep, Streaming, PTL DEF Spec

-----------------------------------------------------------------------------
(* NeverGivesUp. *)

\* On a polite network main gets to the end of every body.
Readable(r) == r.kind.frame # "chunks"

PoliteInv ==
    network = "polite" =>
      /\ ~garbage
      /\ reply # NoReply => Readable(reply)
      /\ \A k \in 1..Len(replies) : Readable(replies[k])

\* On a polite network the first request of a connection goes out alone on an
\* open connection, and its reply comes whole before the server closes.
FirstInv ==
    network = "polite" =>
      /\ pc # "failed"
      /\ nres = firstreq /\ pc \in {"fill", "send"} =>
           ~pipelined /\ nreq = nres /\ sent = <<>> /\ ~closed /\ ~answered
      /\ nres = firstreq /\ pc = "header" =>
           /\ nreq = nres + 1
           /\ \/ ~answered /\ ~closed /\ replies = <<>>
              \/ Len(replies) = 1 /\ ~replies[1].cut /\ sent = <<>>
      /\ nres = firstreq /\ pc = "body" => nreq = nres + 1 /\ ~reply.cut /\ sent = <<>>

LEMMA FirstLater ==
    ASSUME nres' # firstreq', pc' # "failed"
    PROVE  FirstInv'
  BY DEF FirstInv

\* A connection that has brought a reply is opened anew.
LEMMA FirstConnDied ==
    ASSUME ConnDied, nres # firstreq
    PROVE  FirstInv'
<1>1. UNCHANGED <<nres, firstreq>> /\ Cleanup(nres)
  BY DEF ConnDied
<1>2. pc' = IF nres = argc THEN "done" ELSE "connect"
  BY <1>1 DEF Cleanup, Top
<1> QED
  BY <1>1, <1>2, FirstLater

LEMMA FirstSend ==
    ASSUME ClientInv, FirstInv, network = "polite",
           Connect \/ PipelineSend \/ MakeRequest \/ AllSent \/ BlockingSend \/ NoSend \/ SendFails
    PROVE  FirstInv'
<1>0. /\ nreq \in Nat /\ nres \in Nat /\ Len(replies) \in Nat /\ Len(sent) \in Nat
      /\ replies \in Seq(Reply)
  BY IntFacts DEF ClientInv
<1>1. TypeOK /\ LoopInv /\ StreamInv
  BY DEF ClientInv
<1>2. nres = firstreq /\ pc \in {"fill", "send"} =>
         ~pipelined /\ nreq = nres /\ sent = <<>> /\ ~closed /\ ~answered
  BY DEF FirstInv
<1>3. CASE Connect
  <2>1. nreq = nres /\ ~pipelined /\ sent = <<>>
    BY <1>1, <1>3 DEF Connect, LoopInv, StreamInv, Connected
  <2> QED
    BY <1>3, <2>1 DEF Connect, FirstInv
<1>4. CASE PipelineSend
  BY <1>2, <1>4, FirstLater DEF PipelineSend
<1>5. CASE MakeRequest \/ AllSent
  <2>1. /\ pc = "fill" /\ pc' = "send"
        /\ UNCHANGED <<network, nreq, nres, firstreq, pipelined, reply, sent, replies,
                       closed, answered>>
    BY <1>5 DEF MakeRequest, AllSent, conn
  <2> QED
    BY <1>2, <2>1 DEF FirstInv
<1>6. CASE NoSend
  <2>1. nres # nreq /\ pc = "send" /\ pc' = "header" /\ UNCHANGED <<nres, firstreq>>
    BY <1>6 DEF NoSend
  <2> QED
    BY <1>2, <2>1, FirstLater
<1>7. CASE BlockingSend
  <2>1. /\ pc = "send" /\ pc' = "header" /\ nreq' = nreq + 1
        /\ UNCHANGED <<network, nres, firstreq, replies, closed, answered>>
    BY <1>7 DEF BlockingSend, Send
  <2>2. CASE nres # firstreq
    BY <2>1, <2>2, FirstLater
  <2>3. CASE nres = firstreq
    <3>1. nreq = nres /\ ~closed /\ ~answered
      BY <1>2, <2>1, <2>3
    <3>2. Hand = 0 /\ Hand + Len(replies) + Len(sent) <= nreq - nres
      BY <1>1, <2>1 DEF StreamInv, Hand
    <3>3. Len(replies) = 0
      BY <1>0, <3>1, <3>2
    <3>4. replies = <<>>
      BY <1>0, <3>3
    <3>5. nreq' = nres' + 1 /\ ~closed' /\ ~answered' /\ replies' = <<>> /\ pc' = "header"
      BY <2>1, <3>1, <3>4
    <3> QED
      BY <3>5 DEF FirstInv
  <2> QED
    BY <2>2, <2>3
<1>8. CASE SendFails
  <2>1. closed /\ pc \in {"fill", "send"} /\ ConnDied
    BY <1>8 DEF SendFails
  <2> QED
    BY <1>2, <2>1, FirstConnDied
<1> QED
  BY <1>3, <1>4, <1>5, <1>6, <1>7, <1>8

LEMMA FirstReceive ==
    ASSUME ClientInv, FirstInv, PoliteInv, network = "polite",
           ReadHeader \/ HeaderDies \/ ReadBody \/ BodyDies
    PROVE  FirstInv'
<1>0. /\ nres \in Nat /\ firstreq \in Nat /\ Len(replies) \in Nat
      /\ replies \in Seq(Reply)
  BY IntFacts DEF ClientInv
<1>1. firstreq <= nres
  BY DEF ClientInv, LoopInv
<1>2. nres + 1 # firstreq
  BY <1>0, <1>1
<1>3. nres = firstreq /\ pc = "header" =>
         /\ nreq = nres + 1
         /\ \/ ~answered /\ ~closed /\ replies = <<>>
            \/ Len(replies) = 1 /\ ~replies[1].cut /\ sent = <<>>
  BY DEF FirstInv
<1>4. nres = firstreq /\ pc = "body" => nreq = nres + 1 /\ ~reply.cut /\ sent = <<>>
  BY DEF FirstInv
<1>5. CASE ReadHeader
  <2> DEFINE status == Head(replies).kind.status
  <2>1. pc = "header" /\ replies # <<>> /\ UNCHANGED <<network, nreq, firstreq, sent>>
    BY <1>5 DEF ReadHeader
  <2>2. CASE status = 204
    <3>1. nres' = nres + 1 /\ pc' = IF nres + 1 = argc THEN "done" ELSE "fill"
      BY <1>5, <2>2 DEF ReadHeader, Top
    <3> QED
      BY <1>2, <2>1, <3>1, FirstLater
  <2>3. CASE status # 204
    <3>1. nres' = nres /\ pc' = "body" /\ reply' = Head(replies)
      BY <1>5, <2>3 DEF ReadHeader
    <3>2. CASE nres # firstreq
      BY <2>1, <3>1, <3>2, FirstLater
    <3>3. CASE nres = firstreq
      <4>1. nreq = nres + 1 /\ Len(replies) = 1 /\ ~replies[1].cut /\ sent = <<>>
        BY <1>3, <2>1, <3>3
      <4>2. Head(replies) = replies[1]
        BY <1>0, <2>1
      <4> QED
        BY <2>1, <3>1, <4>1, <4>2 DEF FirstInv
    <3> QED
      BY <3>2, <3>3
  <2> QED
    BY <2>2, <2>3
<1>6. CASE HeaderDies
  <2>1. pc = "header" /\ replies = <<>> /\ closed /\ ConnDied
    BY <1>6 DEF HeaderDies, PoliteInv
  <2>2. Len(replies) = 0
    BY <2>1
  <2> QED
    BY <1>3, <2>1, <2>2, FirstConnDied
<1>7. CASE ReadBody
  <2>1. nres' = nres + 1 /\ firstreq' = firstreq
    BY <1>7 DEF ReadBody
  <2>2. pc' = Top(nres + 1, TRUE) \/ Cleanup(nres + 1)
    BY <1>7 DEF ReadBody
  <2>3. pc' # "failed"
    BY <2>2 DEF Cleanup, Top
  <2> QED
    BY <1>2, <2>1, <2>3, FirstLater
<1>8. CASE BodyDies
  <2>1. pc = "body" /\ reply.cut /\ ConnDied
    BY <1>8 DEF BodyDies, PoliteInv, Readable, ClientInv, LoopInv
  <2> QED
    BY <1>4, <2>1, FirstConnDied
<1> QED
  BY <1>5, <1>6, <1>7, <1>8

LEMMA FirstServer ==
    ASSUME ClientInv, FirstInv, network = "polite", Server
    PROVE  FirstInv'
<1>0. /\ nreq \in Nat /\ nres \in Nat /\ Len(replies) \in Nat /\ Len(sent) \in Nat
      /\ replies \in Seq(Reply) /\ sent \in Seq(Request)
  BY IntFacts DEF ClientInv
<1>1. TypeOK /\ LoopInv /\ StreamInv
  BY DEF ClientInv
<1>2. /\ pc # "failed" /\ Connected
      /\ UNCHANGED <<network, pc, nreq, nres, firstreq, pipelined>>
  BY DEF Server, Answer, HangUp, Reset, Breakdown, Break, Connected
<1>3. CASE nres # firstreq
  BY <1>2, <1>3, FirstLater
<1>4. CASE nres = firstreq /\ pc \in {"fill", "send", "body"}
  <2>1. sent = <<>> /\ (pc # "body" => ~pipelined /\ nreq = nres /\ ~closed /\ ~answered)
    BY <1>4 DEF FirstInv
  <2>2. HangUp
    BY <2>1 DEF Server, Answer, Reset, Breakdown
  <2>3. pc = "body" /\ nreq = nres + 1 /\ ~reply.cut /\ UNCHANGED <<reply, sent>>
    BY <1>4, <2>1, <2>2 DEF HangUp, FirstInv
  <2> QED
    BY <1>2, <2>1, <2>3 DEF FirstInv
<1>5. CASE nres = firstreq /\ pc = "header"
  <2>1. /\ nreq = nres + 1
        /\ \/ ~answered /\ ~closed /\ replies = <<>>
           \/ Len(replies) = 1 /\ ~replies[1].cut /\ sent = <<>>
    BY <1>5 DEF FirstInv
  <2>2. CASE \E kind \in Kind : Answer(kind)
    <3>1. PICK kind \in Kind : Answer(kind)
      BY <2>2
    <3> DEFINE r == [to |-> Head(sent), kind |-> kind, cut |-> FALSE]
    <3>2. sent # <<>> /\ ~closed /\ replies' = Append(replies, r) /\ sent' = Tail(sent)
      BY <3>1 DEF Answer
    <3>3. replies = <<>>
      BY <2>1, <3>2
    <3>4. Hand = 0 /\ Hand + Len(replies) + Len(sent) <= nreq - nres
      BY <1>1, <1>5 DEF StreamInv, Hand
    <3>5. Len(replies) = 0
      BY <3>3
    <3>6. Len(sent) <= 1
      BY <1>0, <2>1, <3>4, <3>5
    <3>7. sent' = <<>>
      BY <1>0, <3>2, <3>6
    <3>8. replies' = <<r>>
      BY <3>2, <3>3
    <3>9. Len(replies') = 1 /\ replies'[1] = r /\ ~r.cut
      BY <3>8
    <3> QED
      BY <1>2, <1>5, <2>1, <3>7, <3>9 DEF FirstInv
  <2>3. CASE HangUp
    <3>1. answered /\ UNCHANGED <<sent, replies>>
      BY <2>3 DEF HangUp
    <3> QED
      BY <1>2, <1>5, <2>1, <3>1 DEF FirstInv
  <2>4. ~Reset /\ ~Breakdown
    BY <2>1 DEF Reset, Breakdown
  <2> QED
    BY <2>2, <2>3, <2>4 DEF Server
<1> QED
  BY <1>2, <1>3, <1>4, <1>5 DEF Connected

LEMMA NetworkStays == [Next]_vars => network' = network
<1>1. ConnDied \/ Break => network' = network
  BY DEF ConnDied, Break
<1>2. Client => network' = network
  BY <1>1 DEF Client, Connect, ConnectFails, PipelineSend, MakeRequest, AllSent,
     BlockingSend, NoSend, SendFails, ReadHeader, HeaderDies, ReadBody, BodyDies
<1>3. Server => network' = network
  BY <1>1 DEF Server, Answer, HangUp, Reset, Breakdown
<1> QED
  BY <1>1, <1>2, <1>3 DEF Next, Timeout, Exited, vars

LEMMA PoliteStep == ASSUME ClientInv, PoliteInv, [Next]_vars PROVE PoliteInv'
<1> SUFFICES ASSUME network = "polite"
             PROVE  /\ ~garbage'
                    /\ reply' # NoReply => Readable(reply')
                    /\ \A k \in 1..Len(replies') : Readable(replies'[k])
  BY NetworkStays DEF PoliteInv
<1>1. /\ ~garbage
      /\ reply # NoReply => Readable(reply)
      /\ \A k \in 1..Len(replies) : Readable(replies[k])
      /\ replies \in Seq(Reply) /\ Len(replies) \in Nat
      /\ pc = "body" => reply # NoReply
      /\ reply \in Reply \cup {NoReply}
  BY IntFacts DEF PoliteInv, ClientInv, TypeOK, LoopInv
<1>2. CASE UNCHANGED <<garbage, reply, replies>>
  BY <1>1, <1>2
<1>3. Disconnect => ~garbage' /\ reply' = NoReply /\ replies' = <<>>
  BY DEF Disconnect
<1>4. CASE Disconnect
  BY <1>3, <1>4
<1>5. /\ ConnDied => Disconnect
      /\ \A n : Cleanup(n) => Disconnect
  BY DEF ConnDied, Cleanup
<1>6. CASE ReadHeader
  <2>1. /\ replies # <<>> /\ replies' = Tail(replies) /\ garbage' = garbage
        /\ reply' \in {reply, Head(replies)}
    BY <1>6 DEF ReadHeader
  <2>2. /\ Head(replies) = replies[1] /\ 1 \in 1..Len(replies)
        /\ Len(replies') = Len(replies) - 1
        /\ \A k \in 1..Len(replies') : replies'[k] = replies[k + 1]
    BY <1>1, <2>1, HeadTailProperties
  <2> QED
    BY <1>1, <2>1, <2>2
<1>7. CASE ReadBody
  <2>1. pc = "body"
    BY <1>7 DEF ReadBody
  <2>2. Left \subseteq {FALSE}
    BY <1>1, <2>1 DEF Left, Readable
  <2>3. Disconnect \/ (reply' = NoReply /\ ~garbage' /\ replies' = replies)
    BY <1>5, <1>7, <2>2 DEF ReadBody
  <2> QED
    BY <1>1, <1>4, <2>3
<1>8. ASSUME NEW kind \in Kind, Answer(kind)
      PROVE  /\ ~garbage'
             /\ reply' # NoReply => Readable(reply')
             /\ \A k \in 1..Len(replies') : Readable(replies'[k])
  <2> DEFINE r == [to |-> Head(sent), kind |-> kind, cut |-> FALSE]
  <2>1. /\ kind.frame # "chunks" /\ UNCHANGED <<reply, garbage>>
        /\ replies' = Append(replies, r) /\ sent # <<>>
    BY <1>8 DEF Answer
  <2>2. r \in Reply
    <3>1. sent \in Seq(Request)
      BY DEF ClientInv, TypeOK
    <3>2. Head(sent) \in Request
      BY <2>1, <3>1
    <3> QED
      BY <3>2 DEF Reply
  <2>3. Readable(r)
    BY <2>1 DEF Readable
  <2> HIDE DEF r
  <2>4. /\ Len(replies') = Len(replies) + 1
        /\ \A k \in 1..Len(replies) : replies'[k] = replies[k]
        /\ replies'[Len(replies) + 1] = r
    BY <1>1, <2>1, <2>2, AppendProperties
  <2> QED
    BY <1>1, <2>1, <2>3, <2>4
<1>9. CASE Break
  <2>1. garbage' = garbage
    BY <1>9 DEF Break
  <2>2. reply' # NoReply => Readable(reply')
    <3>1. \/ reply' = reply
          \/ reply # NoReply /\ reply' = [reply EXCEPT !.cut = TRUE]
      BY <1>9 DEF Break
    <3>2. CASE reply' = reply
      BY <1>1, <3>2
    <3>3. CASE reply # NoReply /\ reply' = [reply EXCEPT !.cut = TRUE]
      <4>1. reply \in Reply /\ Readable(reply)
        BY <1>1, <3>3
      <4>2. reply'.kind = reply.kind
        BY <3>3, <4>1, ReplyFacts
      <4> QED
        BY <4>1, <4>2 DEF Readable
    <3> QED
      BY <3>1, <3>2, <3>3
  <2>3. \A k \in 1..Len(replies') : Readable(replies'[k])
    <3>1. CASE replies' \in Beginnings(replies)
      <4>1. /\ replies' \in Seq(Reply) /\ Len(replies') <= Len(replies)
            /\ \A k \in 1..Len(replies') : replies'[k].kind = replies[k].kind
        BY <1>1, <3>1, BeginningFacts
      <4>2. \A k \in 1..Len(replies') : k \in 1..Len(replies)
        BY <1>1, <4>1
      <4> QED
        BY <1>1, <4>1, <4>2 DEF Readable
    <3>2. CASE replies' = <<>>
      BY <3>2
    <3> QED
      BY <1>9, <3>1, <3>2 DEF Break
  <2> QED
    BY <1>1, <2>1, <2>2, <2>3
<1>10. CASE SendFails \/ HeaderDies \/ BodyDies \/ Timeout
  BY <1>4, <1>5, <1>10 DEF SendFails, HeaderDies, BodyDies, Timeout
<1>11. CASE \/ Connect \/ ConnectFails \/ PipelineSend \/ MakeRequest \/ AllSent
            \/ BlockingSend \/ NoSend \/ HangUp \/ Exited \/ UNCHANGED vars
  BY <1>2, <1>11 DEF Connect, ConnectFails, PipelineSend, MakeRequest, AllSent,
     BlockingSend, NoSend, HangUp, Exited, conn, vars
<1> QED
  BY <1>6, <1>7, <1>8, <1>9, <1>10, <1>11 DEF Next, Client, Server, Reset, Breakdown

LEMMA FirstStep ==
    ASSUME ClientInv, FirstInv, PoliteInv, [Next]_vars
    PROVE  FirstInv'
<1>1. network' = network
  BY NetworkStays
<1>2. CASE network # "polite"
  BY <1>1, <1>2 DEF FirstInv
<1>3. CASE network = "polite"
  <2>1. ~Timeout /\ ~ConnectFails
    BY <1>3 DEF Timeout, ConnectFails
  <2>2. CASE Exited \/ UNCHANGED vars
    BY <2>2 DEF Exited, vars, FirstInv
  <2> QED
    BY <1>3, <2>1, <2>2, FirstSend, FirstReceive, FirstServer DEF Next, Client
<1> QED
  BY <1>2, <1>3

\* A server that answers at least one request of every connection, and sends no
\* body in several chunks, is never given up on, whatever it closes and resets in
\* between.
THEOREM PolitelyServed == Spec => []NeverGivesUp
<1>1. Init => FirstInv /\ PoliteInv
  BY DEF Init, FirstInv, PoliteInv
<1>2. FirstInv => NeverGivesUp
  BY DEF FirstInv, NeverGivesUp
<1> QED
  BY <1>1, <1>2, FirstStep, PoliteStep, Streaming, PTL DEF Spec
=============================================================================
