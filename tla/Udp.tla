---------------------------------- MODULE Udp ----------------------------------
(***************************************************************************)
(* Operating Systems/Project6-Networking: udp_server answers DATE and      *)
(* UPTIME; udp_client asks once, takes the first datagram that comes back  *)
(* and waits for it without a timeout.  Datagrams may be lost, duplicated, *)
(* overtaken and late.  A client's port is chosen by the kernel and can be *)
(* that of a client that is gone.                                          *)
(***************************************************************************)
EXTENDS Integers, FiniteSets

CONSTANTS Clients,
          Question,    \* per client: argv[3]
          Ports,       \* what the kernel chooses from
          Elsewhere,   \* the port of another program
          OtherData    \* what that may send to the server: "word", "empty", "DATE", ...

ASSUME UdpAssumption == Elsewhere \notin Ports

VARIABLES client,      \* per client: "setup", "waiting", "answered", "gone"
          port,        \* per client
          answerOf,    \* per client: what it printed
          server,      \* "recvfrom", "deaf" after a failed bind, or "ended"
          sbuf,           \* b of the server up to the first 0
          requests,    \* on the way to the server: from, data
          replies,     \* on the way back: to, data
          dropped,     \* history: a datagram was lost or arrived at a closed port
          second       \* history: the clients whose port an earlier one had

netVars == <<requests, replies, dropped>>
udpVars == <<client, port, answerOf, server, sbuf, netVars, second>>

UdpRest == /\ port = [c \in Clients |-> Elsewhere]
           /\ answerOf = [c \in Clients |-> ""]
           /\ sbuf = "" /\ requests = {} /\ replies = {} /\ dropped = FALSE /\ second = {}

UdpIdle == client = [c \in Clients |-> "gone"] /\ server = "ended" /\ UdpRest
UdpInit == client = [c \in Clients |-> "setup"] /\ server \in {"recvfrom", "deaf", "ended"} /\ UdpRest

------------------------------------------------------------------------------
\* udp_client

\* Another argument than DATE or UPTIME, getaddrinfo, socket or sendto: exit(1)
AskFails(c) == /\ client[c] = "setup"
               /\ client' = [client EXCEPT ![c] = "gone"]
               /\ UNCHANGED <<port, answerOf, server, sbuf, netVars, second>>

\* sendto also binds the socket to a port nobody has.
Ask(c) == /\ client[c] = "setup" /\ Question[c] \in {"DATE", "UPTIME"}
          /\ \E p \in Ports :
                /\ \A d \in Clients : client[d] = "waiting" => port[d] # p
                /\ port' = [port EXCEPT ![c] = p]
                /\ second' = second \cup {x \in {c} : \E d \in Clients : port[d] = p}
                /\ requests' = requests \cup {[from |-> p, data |-> Question[c]]}
          /\ client' = [client EXCEPT ![c] = "waiting"]
          /\ UNCHANGED <<answerOf, server, sbuf, replies, dropped>>

\* recvfrom takes what comes first, and the program ends.  The network may
\* deliver the datagram again.
Hear(c) == /\ client[c] = "waiting"
           /\ \E r \in replies : /\ r.to = port[c]
                                 /\ answerOf' = [answerOf EXCEPT ![c] = r.data]
                                 /\ replies' \in {replies, replies \ {r}}
           /\ client' = [client EXCEPT ![c] = "answered"]
           /\ UNCHANGED <<port, server, sbuf, requests, dropped, second>>

\* The user interrupts a client that waits.
GiveUp(c) == /\ client[c] = "waiting"
             /\ client' = [client EXCEPT ![c] = "gone"]
             /\ UNCHANGED <<port, answerOf, server, sbuf, netVars, second>>

------------------------------------------------------------------------------
\* udp_server

DataSize(data) == CASE data = "UPTIME" -> 6 [] data \in {"DATE", "word"} -> 4 [] OTHER -> 0

\* A datagram is written over what sbuf holds, and sbuf is compared as a string.
Overlay(data) == IF DataSize(data) >= DataSize(sbuf) THEN data ELSE "mixture"

\* strcmp and the two answers; to anything else the server sends what malloc
\* gave it.
ReplyTo(request) == CASE request = "UPTIME" -> "uptime"
                      [] request = "DATE" -> "date"
                      [] OTHER -> "garbage"

\* What goes to another program is not followed.
Reply(m) == {[to |-> p, data |-> ReplyTo(Overlay(m.data))] : p \in Ports \cap {m.from}}

\* Fault: no memset.
ServeStale(m) == /\ server = "recvfrom" /\ m \in requests /\ m.data # "empty"
                 /\ replies' = replies \cup Reply(m)
                 /\ requests' \in {requests, requests \ {m}}
                 /\ sbuf' = Overlay(m.data)
                 /\ UNCHANGED <<client, port, answerOf, server, dropped, second>>

\* Fault: only DATE is answered.
ServeDate(m) == /\ server = "recvfrom" /\ m \in requests /\ m.data # "empty"
                /\ replies' = replies \cup (IF m.data = "DATE" THEN Reply(m) ELSE {})
                /\ requests' \in {requests, requests \ {m}}
                /\ sbuf' = ""
                /\ UNCHANGED <<client, port, answerOf, server, dropped, second>>

\* One turn of the loop; sbuf is cleared at its end.
Serve(m) == /\ server = "recvfrom" /\ m \in requests /\ m.data # "empty"
            /\ replies' = replies \cup Reply(m)
            /\ requests' \in {requests, requests \ {m}}
            /\ sbuf' = ""
            /\ UNCHANGED <<client, port, answerOf, server, dropped, second>>

\* The loop ends when recvfrom returns 0, for a datagram without data.
ServerTakesEmpty == /\ server = "recvfrom" /\ \E m \in requests : m.data = "empty"
                    /\ server' = "ended"
                    /\ UNCHANGED <<client, port, answerOf, sbuf, netVars, second>>

\* recvfrom, sysinfo or sendto fails.
ServerFails == /\ server # "ended"
               /\ server' = "ended"
               /\ UNCHANGED <<client, port, answerOf, sbuf, netVars, second>>

------------------------------------------------------------------------------
\* The network, and what others send to the server.

Lose == /\ \/ \E m \in requests : requests' = requests \ {m} /\ UNCHANGED replies
           \/ \E r \in replies : replies' = replies \ {r} /\ UNCHANGED requests
        /\ dropped' = TRUE
        /\ UNCHANGED <<client, port, answerOf, server, sbuf, second>>

Disturb == /\ \E d \in OtherData : requests' = requests \cup {[from |-> Elsewhere, data |-> d]}
           /\ UNCHANGED <<client, port, answerOf, server, sbuf, replies, dropped, second>>

UdpNext == \/ \E c \in Clients : AskFails(c) \/ Ask(c) \/ Hear(c) \/ GiveUp(c)
           \/ \E m \in requests : Serve(m)
           \/ ServerTakesEmpty \/ ServerFails \/ Lose \/ Disturb

\* The kernel keeps datagrams in the order in which they arrive, so none waits
\* for ever in the queue of a process that goes on receiving.
UdpFair == /\ \A p \in Ports, q \in {"DATE", "UPTIME"} :
                 WF_udpVars(Serve([from |-> p, data |-> q]))
           /\ \A c \in Clients : WF_udpVars(Hear(c))

UdpSpec == UdpInit /\ [][UdpNext]_udpVars /\ UdpFair

------------------------------------------------------------------------------
\* A client prints the answer to its own question, whatever was lost,
\* duplicated, overtaken or sent by others, unless its port belonged to a
\* client before it; and what the server sends by mistake it never prints
\* (udp_server.c:60-83, udp_client.c:58-68).
AnswerFits ==
    \A c \in Clients : client[c] = "answered" =>
        /\ answerOf[c] # "garbage"
        /\ c \notin second => answerOf[c] = ReplyTo(Question[c])

\* A client waits for ever only if a datagram is lost or the server has ended
\* or never got its port.
Answered == \A c \in Clients :
    client[c] = "waiting" ~> client[c] # "waiting" \/ dropped \/ server # "recvfrom"
==============================================================================
