------------------------------- MODULE TcpStream -------------------------------
(***************************************************************************)
(* Operating Systems/Project6-Networking: tcp_send copies a file line by   *)
(* line into a connection, tcp_recv copies the connection into a file.     *)
(* Bytes are positions in the file; their kind matters to fgets and        *)
(* strlen.  TCP and the socket calls are as the programs use them: the     *)
(* stream is reliable and in order until it is reset, send may take a part *)
(* of its buffer and recv may give a part of what has arrived.             *)
(***************************************************************************)
EXTENDS Integers, Sequences

CONSTANTS Streams,   \* the contents of source: sequences of kinds of bytes
          MAXBUFLEN,
          Window     \* what the connection holds of sent and not received bytes

ASSUME StreamAssumption == /\ Streams \subseteq Seq({"char", "newline", "nul"})
                           /\ MAXBUFLEN \in Nat \ {0, 1} /\ Window \in Nat \ {0}

VARIABLES source,      \* what fp of tcp_send reads
          fpos,        \* how much of it has been read
          sender,      \* the statement of tcp_send
          tobe,        \* buf[0..len-1]: what send still has to take
          drift,       \* buf - b of tcp_send
          receiver,    \* the statement of tcp_recv
          wire,        \* sent and not received
          link,        \* "none", "open", "finished" by tcp_send, or "reset"
          rbuf,        \* b of tcp_recv up to the first place that is 0
          outfile,     \* what fp of tcp_recv has got
          total_trans, \* of tcp_recv
          putFailed    \* history: fputs has returned EOF

sendVars == <<source, fpos, sender, tobe, drift>>
recvVars == <<receiver, rbuf, outfile, total_trans, putFailed>>
tcpVars  == <<sendVars, recvVars, wire, link>>

TcpRest == /\ fpos = 0 /\ tobe = <<>> /\ drift = 0
           /\ wire = <<>> /\ link = "none"
           /\ rbuf = <<>> /\ outfile = <<>> /\ total_trans = 0 /\ putFailed = FALSE

TcpIdle == source = <<>> /\ sender = "ended" /\ receiver = "ended" /\ TcpRest
TcpInit == source \in Streams /\ sender = "setup" /\ receiver = "setup" /\ TcpRest

------------------------------------------------------------------------------
\* tcp_send

\* getaddrinfo, socket, setsockopt, or connect because nobody listens: exit(1)
SendFails == /\ sender = "setup"
             /\ sender' = "failed"
             /\ UNCHANGED <<source, fpos, tobe, drift, recvVars, wire, link>>

Connect == /\ sender = "setup" /\ receiver = "accept" /\ link = "none"
           /\ sender' = "fgets" /\ link' = "open"
           /\ UNCHANGED <<source, fpos, tobe, drift, recvVars, wire>>

\* fgets(buf,MAXBUFLEN,fp): up to a newline or MAXBUFLEN-1 bytes.
LineEnd == CHOOSE e \in fpos..Len(source) :
              /\ \A k \in (fpos + 1)..(e - 1) : source[k] # "newline"
              /\ e - fpos < MAXBUFLEN
              /\ \/ e \in {Len(source), fpos + MAXBUFLEN - 1}
                 \/ e > fpos /\ source[e] = "newline"

\* strlen(str): the bytes before the first that is 0.
Stringed(from, to) ==
    LET len == CHOOSE n \in 0..(to - from) :
                  /\ \A q \in (from + 1)..(from + n) : source[q] # "nul"
                  /\ n = to - from \/ source[from + n + 1] = "nul"
    IN  [k \in 1..len |-> from + k]

\* buf is only ever moved forward: at its end fgets writes past b, and what
\* happens then is undefined.
FgetsSend == /\ sender = "fgets" /\ fpos < Len(source)
             /\ IF drift + LineEnd - fpos > MAXBUFLEN
                THEN sender' = "overrun" /\ UNCHANGED <<fpos, tobe>>
                ELSE /\ tobe' = Stringed(fpos, LineEnd)
                     /\ fpos' = LineEnd
                     /\ sender' = IF tobe' = <<>> THEN "fgets" ELSE "send"
             /\ UNCHANGED <<source, drift, recvVars, wire, link>>

\* send, and the loop that sends the rest
SendSome == /\ sender = "send" /\ link = "open"
            /\ \E sent \in 1..Len(tobe) :
                  /\ Len(wire) + sent <= Window
                  /\ wire' = wire \o SubSeq(tobe, 1, sent)
                  /\ tobe' = SubSeq(tobe, sent + 1, Len(tobe))
                  /\ drift' = IF sent < Len(tobe) THEN drift + sent ELSE drift
                  /\ sender' = IF sent < Len(tobe) THEN "send" ELSE "fgets"
            /\ UNCHANGED <<source, fpos, recvVars, link>>

\* send returns -1 and tcp_send exits, or it dies of SIGPIPE.
SendReset == /\ sender = "send" /\ link = "reset"
             /\ sender' = "failed"
             /\ UNCHANGED <<source, fpos, tobe, drift, recvVars, wire, link>>

\* The end of the file; exit closes the socket.
SendEnds == /\ sender = "fgets" /\ fpos = Len(source)
            /\ sender' = "ended"
            /\ link' = IF link = "open" THEN "finished" ELSE link
            /\ UNCHANGED <<source, fpos, tobe, drift, recvVars, wire>>

SendNext == SendFails \/ Connect \/ FgetsSend \/ SendSome \/ SendReset \/ SendEnds

------------------------------------------------------------------------------
\* tcp_recv

\* getaddrinfo, socket, listen
RecvFails == /\ receiver = "setup"
             /\ receiver' = "ended"
             /\ UNCHANGED <<sendVars, rbuf, outfile, total_trans, putFailed, wire, link>>

\* A failing bind is only reported; then nobody can find the socket.
Listen == /\ receiver = "setup"
          /\ receiver' \in {"accept", "accept unbound"}
          /\ UNCHANGED <<sendVars, rbuf, outfile, total_trans, putFailed, wire, link>>

Accept == /\ receiver = "accept" /\ link # "none"
          /\ receiver' = "recv"
          /\ UNCHANGED <<sendVars, rbuf, outfile, total_trans, putFailed, wire, link>>

\* accept fails, and so does the recv from no connection.
AcceptFails == /\ receiver \in {"accept", "accept unbound"}
               /\ receiver' = "ended"
               /\ link' = IF link = "none" THEN "none" ELSE "reset"
               /\ wire' = <<>>
               /\ UNCHANGED <<sendVars, rbuf, outfile, total_trans, putFailed>>

\* recv(new_fd,buf,MAXBUFLEN,0): the bytes go to the beginning of b, over
\* whatever is there.
Received(rec) == SubSeq(wire, 1, rec) \o SubSeq(rbuf, rec + 1, Len(rbuf))

\* Fault: no memset.
RecvSomeStale == /\ receiver = "recv" /\ link # "reset"
                 /\ \E rec \in 1..Len(wire) :
                       /\ rec <= MAXBUFLEN
                       /\ wire' = SubSeq(wire, rec + 1, Len(wire))
                       /\ outfile' = outfile \o Received(rec)
                       /\ rbuf' = Received(rec)
                       /\ total_trans' = total_trans + rec
                 /\ UNCHANGED <<sendVars, receiver, putFailed, link>>

\* recv, fputs and memset; only this process sees b and outfile.
RecvSome == /\ receiver = "recv" /\ link # "reset"
            /\ \E rec \in 1..Len(wire) :
                  /\ rec <= MAXBUFLEN
                  /\ wire' = SubSeq(wire, rec + 1, Len(wire))
                  /\ outfile' = outfile \o Received(rec)
                  /\ total_trans' = total_trans + rec
            /\ rbuf' = <<>>
            /\ UNCHANGED <<sendVars, receiver, putFailed, link>>

\* fputs returns EOF: b keeps what it has.  (Of what fputs may have written
\* all the same nothing is said.)
PutFails == /\ receiver = "recv" /\ link # "reset"
            /\ \E rec \in 1..Len(wire) :
                  /\ rec <= MAXBUFLEN
                  /\ wire' = SubSeq(wire, rec + 1, Len(wire))
                  /\ rbuf' = Received(rec)
            /\ putFailed' = TRUE
            /\ UNCHANGED <<sendVars, receiver, outfile, total_trans, link>>

\* Fault: the loop goes on when recv returns 0.
RecvGoesOn == /\ receiver = "recv"
              /\ link = "reset"
              /\ receiver' = "ended"
              /\ UNCHANGED <<sendVars, rbuf, outfile, total_trans, putFailed, wire, link>>

\* recv returns 0 at the end of the stream, -1 after a reset.
RecvEnds == /\ receiver = "recv"
            /\ \/ link = "reset"
               \/ link = "finished" /\ wire = <<>>
            /\ receiver' = "ended"
            /\ UNCHANGED <<sendVars, rbuf, outfile, total_trans, putFailed, wire, link>>

RecvNext == \/ RecvFails \/ Listen \/ Accept \/ AcceptFails
            \/ RecvSome \/ PutFails \/ RecvEnds

------------------------------------------------------------------------------
\* The connection breaks; what is on the way is lost.
Reset == /\ link \in {"open", "finished"}
         /\ link' = "reset" /\ wire' = <<>>
         /\ UNCHANGED <<sendVars, recvVars>>

TcpNext == SendNext \/ RecvNext \/ Reset

\* Both processes are scheduled.
TcpFair == WF_tcpVars(SendNext) /\ WF_tcpVars(RecvNext)
TcpSpec == TcpInit /\ [][TcpNext]_tcpVars /\ TcpFair

------------------------------------------------------------------------------
\* The bytes before the first 0 of the input, which strlen would stop at.
Clean == {p \in 1..Len(source) : \A q \in 1..p : source[q] # "nul"}

\* As long as fputs works, tcp_recv has written bytes of the file in their
\* order, each once, all those before the first 0 first, and counted them; when
\* it has seen the end of a stream that was not reset none of those is missing,
\* however send, recv and fgets cut the stream up (tcp_send.c:80-97,
\* tcp_recv.c:83-90).
StreamExact ==
    ~putFailed =>
        /\ \A i, k \in DOMAIN outfile : i < k => outfile[i] < outfile[k]
        /\ \A i \in DOMAIN outfile : i \in Clean => outfile[i] = i
        /\ total_trans = Len(outfile)
        /\ (receiver = "ended" /\ link = "finished") => Clean \subseteq DOMAIN outfile

\* Once they are connected both processes end, unless tcp_send writes past its
\* buffer: neither waits for the other for ever.
TcpEnds == link # "none" ~> \/ sender \in {"ended", "failed"} /\ receiver = "ended"
                            \/ sender = "overrun"
==============================================================================
