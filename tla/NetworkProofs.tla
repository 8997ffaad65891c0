----------------------------- MODULE NetworkProofs -----------------------------
(***************************************************************************)
(* What TcpStream.tla and Udp.tla promise: the first part for all files,   *)
(* buffers and windows, the second for all clients, ports and senders.     *)
(***************************************************************************)
EXTENDS TcpStream, Udp, SequenceTheorems, WellFoundedInduction, TLAPS

(***************************************************************************)
(* TcpStream.  TcpInv is the inductive invariant: what is in the file, on  *)
(* the wire and in the buffer of tcp_send makes one sequence of bytes in   *)
(* their order, which lacks nothing before the first 0, and the statements *)
(* of the programs tell which of the three may be left.                    *)
(***************************************************************************)
Bytes == Nat \ {0}

\* s is a part of the first top bytes of the file in their order, and the byte
\* at a place before the first 0 is the one of the file.
InOrder(s, top) ==
    /\ s \in Seq(Bytes)
    /\ \A i, k \in 1..Len(s) : i < k => s[i] < s[k]
    /\ \A i \in 1..Len(s) : i <= s[i] /\ s[i] <= top
    /\ \A i \in 1..Len(s) : i \in Clean => s[i] = i

\* Nothing before the first 0 is missing.
Full(s, top) == \A i \in Clean : i <= top => i <= Len(s)

\* What has left the file, at the end of its way first.
Sent == (outfile \o wire) \o tobe

TcpTypes == /\ source \in Seq({"char", "newline", "nul"}) /\ fpos \in 0..Len(source)
            /\ tobe \in Seq(Bytes) /\ wire \in Seq(Bytes) /\ outfile \in Seq(Bytes)
            /\ link \in {"none", "open", "finished", "reset"}

Bytewise == /\ rbuf = <<>> /\ total_trans = Len(outfile)
            /\ InOrder(outfile, fpos)
            /\ link # "reset" => InOrder(Sent, fpos) /\ Full(Sent, fpos)

\* What the programs are at tells what is on its way.
Stages == /\ sender = "setup" => link = "none"
          /\ link = "none" => sender \in {"setup", "failed"}
          /\ link = "none" => fpos = 0 /\ tobe = <<>> /\ wire = <<>> /\ outfile = <<>>
          /\ sender = "fgets" => tobe = <<>>
          /\ sender = "ended" => fpos = Len(source) /\ tobe = <<>>
          /\ link = "finished" => sender = "ended"
          /\ receiver \in {"setup", "accept unbound"} => link = "none"
          /\ receiver = "ended" => \/ link \in {"none", "reset"}
                                   \/ link = "finished" /\ wire = <<>>

TcpInv == ~putFailed => TcpTypes /\ Bytewise /\ Stages

\* A set of numbers has a least one.
LEMMA LeastOf ==
  ASSUME NEW T \in SUBSET Nat, T # {}
  PROVE  \E n \in T : \A m \in T : n <= m
<1> DEFINE R == OpToRel(<, Nat)
<1>1. IsWellFoundedOn(R, Nat)
  BY NatLessThanWellFounded
<1>2. \A m, n \in Nat : m < n => <<m, n>> \in R
  BY DEF OpToRel
<1> HIDE DEF R
<1>3. PICK n \in T : \A m \in T : ~(<<m, n>> \in R)
  BY <1>1, WFMin
<1>4. n \in Nat /\ \A m \in T : m \in Nat /\ ~(m < n)
  BY <1>2, <1>3
<1> QED BY <1>4

\* fgets stops at a place of the file.
LEMMA LineEnds ==
  ASSUME TcpTypes, fpos < Len(source)
  PROVE  LineEnd \in fpos..Len(source)
<1> DEFINE Stop(e) == \/ e \in {Len(source), fpos + MAXBUFLEN - 1}
                      \/ e > fpos /\ source[e] = "newline"
           T == {e \in fpos..Len(source) : Stop(e)}
           Good(e) == /\ \A k \in (fpos + 1)..(e - 1) : source[k] # "newline"
                      /\ e - fpos < MAXBUFLEN
                      /\ Stop(e)
<1>1. Len(source) \in Nat /\ fpos \in Nat /\ MAXBUFLEN \in Nat /\ MAXBUFLEN >= 2
  BY StreamAssumption, LenProperties DEF TcpTypes
<1>2. T \in SUBSET Nat /\ Len(source) \in T
  BY <1>1
<1>3. PICK e \in T : \A m \in T : e <= m
  <2> HIDE DEF T
  <2> QED BY <1>2, LeastOf
<1>4. e \in fpos..Len(source) /\ Stop(e)
  OBVIOUS
<1>5. \A k \in (fpos + 1)..(e - 1) : source[k] # "newline"
  <2> SUFFICES ASSUME NEW k \in (fpos + 1)..(e - 1), source[k] = "newline" PROVE FALSE
    OBVIOUS
  <2>1. k \in T
    BY <1>1, <1>4
  <2> QED BY <1>1, <1>3, <1>4, <2>1
<1>6. e - fpos < MAXBUFLEN
  <2> SUFFICES ASSUME ~(e - fpos < MAXBUFLEN) PROVE FALSE
    OBVIOUS
  <2>1. fpos + MAXBUFLEN - 1 \in T
    BY <1>1, <1>4
  <2> HIDE DEF T
  <2>2. e <= fpos + MAXBUFLEN - 1
    BY <1>3, <2>1
  <2> QED BY <1>1, <1>4, <2>2
<1>7. \E x \in fpos..Len(source) : Good(x)
  BY <1>4, <1>5, <1>6
<1>8. LineEnd = CHOOSE x \in fpos..Len(source) : Good(x)
  BY DEF LineEnd
<1> HIDE DEF Good
<1> QED BY <1>7, <1>8

\* strlen stops at the first 0 or at the end of the line.
LEMMA StringedIs ==
  ASSUME TcpTypes, NEW to \in fpos..Len(source)
  PROVE  \E n \in 0..(to - fpos) :
            /\ Stringed(fpos, to) = [k \in 1..n |-> fpos + k]
            /\ \A q \in (fpos + 1)..(fpos + n) : source[q] # "nul"
            /\ n = to - fpos \/ source[fpos + n + 1] = "nul"
<1> DEFINE Stop(n) == n = to - fpos \/ source[fpos + n + 1] = "nul"
           T == {n \in 0..(to - fpos) : Stop(n)}
           Good(n) == (\A q \in (fpos + 1)..(fpos + n) : source[q] # "nul") /\ Stop(n)
           len == CHOOSE n \in 0..(to - fpos) : Good(n)
<1>1. Len(source) \in Nat /\ fpos \in Nat /\ to \in Nat /\ fpos <= to
  BY LenProperties DEF TcpTypes
<1>2. T \in SUBSET Nat /\ to - fpos \in T
  BY <1>1
<1>3. PICK n \in T : \A m \in T : n <= m
  <2> HIDE DEF T
  <2> QED BY <1>2, LeastOf
<1>4. n \in 0..(to - fpos) /\ Stop(n)
  OBVIOUS
<1>5. \A q \in (fpos + 1)..(fpos + n) : source[q] # "nul"
  <2> SUFFICES ASSUME NEW q \in (fpos + 1)..(fpos + n), source[q] = "nul" PROVE FALSE
    OBVIOUS
  <2>1. q - fpos - 1 \in 0..(to - fpos) /\ fpos + (q - fpos - 1) + 1 = q
    BY <1>1, <1>4
  <2>2. q - fpos - 1 \in T
    BY <2>1
  <2> HIDE DEF T
  <2>3. n <= q - fpos - 1
    BY <1>3, <2>2
  <2> QED BY <1>1, <1>4, <2>3
<1>6. len \in 0..(to - fpos) /\ Good(len)
  <2>1. \E m \in 0..(to - fpos) : Good(m)
    BY <1>4, <1>5
  <2> HIDE DEF Good
  <2> QED BY <2>1
<1>7. Stringed(fpos, to) = [k \in 1..len |-> fpos + k]
  BY DEF Stringed
<1> HIDE DEF len
<1> QED BY <1>6, <1>7

\* A line more: at its end the sequence grows by what strlen counted.
LEMMA LineAdded ==
  ASSUME TcpTypes, NEW s, InOrder(s, fpos), Full(s, fpos), NEW to \in fpos..Len(source)
  PROVE  /\ InOrder(s \o Stringed(fpos, to), to) /\ Full(s \o Stringed(fpos, to), to)
         /\ Stringed(fpos, to) \in Seq(Bytes)
<1>1. PICK n \in 0..(to - fpos) :
         /\ Stringed(fpos, to) = [k \in 1..n |-> fpos + k]
         /\ \A q \in (fpos + 1)..(fpos + n) : source[q] # "nul"
         /\ n = to - fpos \/ source[fpos + n + 1] = "nul"
  BY StringedIs
<1> DEFINE t == Stringed(fpos, to)
<1>2. Len(source) \in Nat /\ fpos \in Nat /\ to \in Nat /\ fpos <= to /\ n \in Nat /\ fpos + n <= to
  BY LenProperties DEF TcpTypes
<1>3. t = [k \in 1..n |-> fpos + k] /\ \A k \in 1..n : fpos + k \in Bytes
  BY <1>1, <1>2 DEF Bytes
<1>4. t \in Seq(Bytes) /\ Len(t) = n /\ \A k \in 1..n : t[k] = fpos + k
  <2>1. t \in [1..n -> Bytes]
    BY <1>3
  <2>2. t \in Seq(Bytes)
    BY <1>2, <2>1, IsASeq
  <2>3. Len(t) = n
    BY <1>2, <2>1, <2>2, LenProperties
  <2> QED BY <1>3, <2>2, <2>3
<1> HIDE DEF t
<1>5. s \in Seq(Bytes) /\ Len(s) \in Nat
  BY LenProperties DEF InOrder
<1>6. /\ s \o t \in Seq(Bytes) /\ Len(s \o t) = Len(s) + n
      /\ \A i \in 1..Len(s) : (s \o t)[i] = s[i]
      /\ \A k \in 1..n : (s \o t)[Len(s) + k] = fpos + k
  <2>1. /\ s \o t \in Seq(Bytes) /\ Len(s \o t) = Len(s) + Len(t)
        /\ \A i \in 1 .. Len(s) + Len(t) : (s \o t)[i] = IF i <= Len(s) THEN s[i] ELSE t[i - Len(s)]
    BY <1>4, <1>5, ConcatProperties
  <2>2. \A k \in 1..n : Len(s) + k \in 1 .. Len(s) + Len(t) /\ ~(Len(s) + k <= Len(s)) /\ Len(s) + k - Len(s) = k
    BY <1>2, <1>4, <1>5
  <2> QED BY <1>2, <1>4, <1>5, <2>1, <2>2
<1>7. Len(s) <= fpos
  <2>1. Len(s) # 0 => Len(s) <= s[Len(s)] /\ s[Len(s)] <= fpos /\ s[Len(s)] \in Nat
    BY <1>5 DEF InOrder, Bytes
  <2> QED BY <1>2, <1>5, <2>1
<1>8. \A i \in 1..Len(s) + n : i <= Len(s) \/ \E k \in 1..n : i = Len(s) + k
  <2> SUFFICES ASSUME NEW i \in 1..Len(s) + n, ~(i <= Len(s)) PROVE \E k \in 1..n : i = Len(s) + k
    OBVIOUS
  <2>1. i - Len(s) \in 1..n /\ i = Len(s) + (i - Len(s))
    BY <1>2, <1>5
  <2> QED BY <2>1
\* Before the first 0, nothing was left out.
<1>9. ASSUME NEW i \in Clean, fpos < i, i <= to PROVE Len(s) = fpos /\ i - fpos \in 1..n
  <2>1. i \in 1..Len(source) /\ \A q \in 1..i : source[q] # "nul"
    BY DEF Clean
  <2>2. fpos # 0 => fpos \in Clean
    BY <1>2, <1>9, <2>1 DEF Clean
  <2>3. fpos <= Len(s)
    BY <1>2, <1>5, <2>2 DEF Full
  <2>4. ASSUME ~(i - fpos <= n) PROVE FALSE
    <3>1. n # to - fpos /\ fpos + n + 1 \in 1..i
      BY <1>2, <1>9, <2>1, <2>4
    <3> QED BY <1>1, <2>1, <3>1
  <2> QED BY <1>2, <1>5, <1>7, <1>9, <2>1, <2>3, <2>4
<1>10. \A i, k \in 1..Len(s) + n : i < k => (s \o t)[i] < (s \o t)[k]
  <2> SUFFICES ASSUME NEW i \in 1..Len(s) + n, NEW k \in 1..Len(s) + n, i < k
               PROVE  (s \o t)[i] < (s \o t)[k]
    OBVIOUS
  <2>1. \A m \in 1..Len(s) : s[m] \in Nat /\ s[m] <= fpos
    BY <1>5 DEF InOrder, Bytes
  <2>2. CASE k <= Len(s)
    BY <1>2, <1>5, <1>6, <2>2 DEF InOrder
  <2>3. CASE i <= Len(s) /\ ~(k <= Len(s))
    <3>1. PICK c \in 1..n : k = Len(s) + c
      BY <1>8, <2>3
    <3>2. (s \o t)[i] = s[i] /\ (s \o t)[k] = fpos + c /\ s[i] \in Nat /\ s[i] <= fpos
      BY <1>2, <1>5, <1>6, <2>1, <2>3, <3>1
    <3> QED BY <1>2, <3>2
  <2>4. CASE ~(i <= Len(s))
    <3>1. PICK a \in 1..n : i = Len(s) + a
      BY <1>8, <2>4
    <3>2. ~(k <= Len(s))
      BY <1>2, <1>5, <2>4
    <3>3. PICK c \in 1..n : k = Len(s) + c
      BY <1>8, <3>2
    <3>4. (s \o t)[i] = fpos + a /\ (s \o t)[k] = fpos + c
      BY <1>6, <3>1, <3>3
    <3> QED BY <1>2, <1>5, <3>1, <3>3, <3>4
  <2> QED BY <2>2, <2>3, <2>4
<1>11. \A i \in 1..Len(s) + n : i <= (s \o t)[i] /\ (s \o t)[i] <= to
  <2> SUFFICES ASSUME NEW i \in 1..Len(s) + n
               PROVE  i <= (s \o t)[i] /\ (s \o t)[i] <= to
    OBVIOUS
  <2>1. CASE i <= Len(s)
    <3>1. i \in 1..Len(s) /\ s[i] \in Nat /\ i <= s[i] /\ s[i] <= fpos
      BY <1>2, <1>5, <2>1 DEF InOrder, Bytes
    <3> QED BY <1>2, <1>6, <3>1
  <2>2. CASE ~(i <= Len(s))
    <3>1. PICK a \in 1..n : i = Len(s) + a
      BY <1>8, <2>2
    <3>2. (s \o t)[i] = fpos + a
      BY <1>6, <3>1
    <3> QED BY <1>2, <1>5, <1>7, <3>1, <3>2
  <2> QED BY <2>1, <2>2
<1>12. Full(s \o t, to)
  <2> SUFFICES ASSUME NEW i \in Clean, i <= to PROVE i <= Len(s) + n
    BY <1>6 DEF Full
  <2>1. i \in Nat
    BY DEF Clean
  <2>2. CASE i <= fpos
    BY <1>2, <1>5, <2>1, <2>2 DEF Full
  <2>3. CASE ~(i <= fpos)
    <3>1. Len(s) = fpos /\ i - fpos \in 1..n
      BY <1>2, <1>9, <2>1, <2>3
    <3> QED BY <1>2, <2>1, <3>1
  <2> QED BY <2>2, <2>3
<1>13. \A i \in 1..Len(s) + n : i \in Clean => (s \o t)[i] = i
  <2> SUFFICES ASSUME NEW i \in 1..Len(s) + n, i \in Clean PROVE (s \o t)[i] = i
    OBVIOUS
  <2>1. CASE i <= fpos
    <3>1. i \in 1..Len(s)
      BY <1>2, <1>5, <2>1 DEF Full
    <3> QED BY <1>6, <3>1 DEF InOrder
  <2>2. CASE ~(i <= fpos)
    <3>1. i <= to
      BY <1>2, <1>5, <1>7
    <3>2. Len(s) = fpos /\ i - fpos \in 1..n
      BY <1>2, <1>9, <2>2, <3>1
    <3>3. (s \o t)[Len(s) + (i - fpos)] = fpos + (i - fpos)
      BY <1>6, <3>2
    <3>4. Len(s) + (i - fpos) = i /\ fpos + (i - fpos) = i
      BY <1>2, <3>2
    <3> QED BY <3>3, <3>4
  <2> QED BY <2>1, <2>2
<1>14. InOrder(s \o t, to)
  BY <1>6, <1>10, <1>11, <1>13, SMTT(30) DEF InOrder
<1> QED BY <1>4, <1>12, <1>14 DEF t

\* What holds of the sequence holds of its beginning.
LEMMA Beginning ==
  ASSUME NEW s \in Seq(Bytes), NEW t \in Seq(Bytes), NEW top, InOrder(s \o t, top)
  PROVE  InOrder(s, top)
<1>1. /\ Len(s) \in Nat /\ Len(t) \in Nat /\ Len(s \o t) = Len(s) + Len(t)
      /\ \A i \in 1 .. Len(s) + Len(t) : (s \o t)[i] = IF i <= Len(s) THEN s[i] ELSE t[i - Len(s)]
  BY ConcatProperties, LenProperties
<1>2. \A i \in 1..Len(s) : i \in 1..Len(s \o t) /\ (s \o t)[i] = s[i]
  BY <1>1
<1> QED BY <1>2 DEF InOrder

\* Three sequences make the same one, whichever two come first.
Associates(s, t, u) == (s \o t) \o u = s \o (t \o u)

LEMMA Associate ==
  \A s, t, u \in Seq(Bytes) : Associates(s, t, u)
<1> SUFFICES ASSUME NEW s \in Seq(Bytes), NEW t \in Seq(Bytes), NEW u \in Seq(Bytes)
             PROVE  (s \o t) \o u = s \o (t \o u)
  BY SMTT(30) DEF Associates
<1> QED BY ConcatAssociative, SMTT(30)

\* A sequence that is cut in two.
LEMMA Cut ==
  ASSUME NEW s \in Seq(Bytes), NEW n \in 1..Len(s)
  PROVE  /\ SubSeq(s, 1, n) \in Seq(Bytes) /\ SubSeq(s, n + 1, Len(s)) \in Seq(Bytes)
         /\ SubSeq(s, 1, n) \o SubSeq(s, n + 1, Len(s)) = s
         /\ Len(SubSeq(s, 1, n)) = n
         /\ n = Len(s) => SubSeq(s, n + 1, Len(s)) = <<>>
<1>1. Len(s) \in Nat /\ n \in Nat /\ n <= Len(s) /\ 1 <= n
  BY LenProperties
<1>2. SubSeq(s, 1, n) \o SubSeq(s, n + 1, Len(s)) = SubSeq(s, 1, Len(s))
  <2>1. 1 \in 1 .. Len(s) + 1 /\ n \in 1 - 1 .. Len(s) /\ Len(s) \in n .. Len(s)
    BY <1>1
  <2> QED BY <2>1, ConcatAdjacentSubSeq
<1>3. SubSeq(s, 1, Len(s)) = s
  BY SubSeqFull
<1>4. SubSeq(s, 1, n) \in Seq(Bytes) /\ Len(SubSeq(s, 1, n)) = n
  BY <1>1
<1>5. SubSeq(s, n + 1, Len(s)) \in Seq(Bytes)
  BY <1>1
<1>6. n = Len(s) => SubSeq(s, n + 1, Len(s)) = <<>>
  BY <1>1
<1> QED BY <1>2, <1>3, <1>4, <1>5, <1>6

\* Over an empty buffer recv brings just what it takes.
LEMMA ReceivedIsNew ==
  ASSUME rbuf = <<>>, wire \in Seq(Bytes), NEW rec \in 1..Len(wire)
  PROVE  Received(rec) = SubSeq(wire, 1, rec)
<1>1. SubSeq(wire, 1, rec) \in Seq(Bytes)
  BY Cut
<1>2. Len(rbuf) = 0 /\ rec \in Nat /\ rec + 1 > 0
  BY LenProperties
<1>3. SubSeq(rbuf, rec + 1, Len(rbuf)) = <<>>
  BY <1>2
<1> QED BY <1>1, <1>3, ConcatEmptySeq DEF Received

LEMMA InitTcpInv ==
  ASSUME TcpInit PROVE TcpInv
<1>1. source \in Seq({"char", "newline", "nul"}) /\ Len(source) \in Nat
  BY StreamAssumption, LenProperties DEF TcpInit
<1>2. <<>> \in Seq(Bytes) /\ Len(<<>>) = 0 /\ <<>> \o <<>> = <<>>
  BY EmptySeq, ConcatEmptySeq
<1>3. TcpTypes
  BY <1>1, <1>2 DEF TcpInit, TcpRest, TcpTypes
<1>4. Sent = <<>>
  BY <1>2 DEF TcpInit, TcpRest, Sent
<1>5. InOrder(<<>>, 0)
  BY <1>2 DEF InOrder
<1>6. Full(<<>>, 0)
  BY <1>1 DEF Full, Clean
<1>7. Bytewise
  BY <1>2, <1>4, <1>5, <1>6 DEF TcpInit, TcpRest, Bytewise
<1>8. Stages
  BY DEF TcpInit, TcpRest, Stages
<1> QED BY <1>3, <1>7, <1>8 DEF TcpInv

\* A step that does not touch the bytes.
LEMMA BytesSame ==
  ASSUME TcpTypes, Bytewise, UNCHANGED <<source, fpos, tobe, wire, outfile, rbuf, total_trans>>,
         link' \in {"none", "open", "finished", "reset"}, link = "reset" => link' = "reset"
  PROVE  TcpTypes' /\ Bytewise'
<1>1. Clean' = Clean /\ Sent' = Sent
  BY DEF Clean, Sent
<1>2. \A s : InOrder(s, fpos) => InOrder(s, fpos)'
  BY <1>1 DEF InOrder
<1>3. \A s : Full(s, fpos) => Full(s, fpos)'
  BY <1>1 DEF Full
<1>4. TcpTypes'
  BY DEF TcpTypes
<1>5. Bytewise'
  BY <1>1 DEF Bytewise, InOrder, Full
<1> QED BY <1>4, <1>5

\* A line is read.
LEMMA FgetsStep ==
  ASSUME TcpTypes, Bytewise, Stages, FgetsSend
  PROVE  TcpTypes' /\ Bytewise' /\ Stages'
<1>1. /\ sender = "fgets" /\ fpos < Len(source) /\ tobe = <<>>
      /\ UNCHANGED <<source, drift, receiver, rbuf, outfile, total_trans, putFailed, wire, link>>
  BY DEF FgetsSend, Stages, recvVars
<1>2. CASE drift + LineEnd - fpos > MAXBUFLEN
  <2>1. sender' = "overrun" /\ UNCHANGED <<fpos, tobe>>
    BY <1>2 DEF FgetsSend
  <2>2. TcpTypes' /\ Bytewise'
    BY <1>1, <2>1, BytesSame DEF TcpTypes
  <2>3. Stages'
    BY <1>1, <2>1 DEF Stages
  <2> QED BY <2>2, <2>3
<1>3. CASE ~(drift + LineEnd - fpos > MAXBUFLEN)
  <2>1. /\ tobe' = Stringed(fpos, LineEnd) /\ fpos' = LineEnd
        /\ sender' = IF tobe' = <<>> THEN "fgets" ELSE "send"
    BY <1>3 DEF FgetsSend
  <2>2. LineEnd \in fpos..Len(source)
    BY <1>1, LineEnds
  <2>3. /\ outfile \in Seq(Bytes) /\ wire \in Seq(Bytes) /\ outfile \o wire \in Seq(Bytes)
        /\ Sent = outfile \o wire
    BY <1>1, ConcatProperties, ConcatEmptySeq DEF TcpTypes, Sent
  <2>4. Clean' = Clean /\ Sent' = (outfile \o wire) \o Stringed(fpos, LineEnd)
    BY <1>1, <2>1 DEF Clean, Sent
  <2>5. Stringed(fpos, LineEnd) \in Seq(Bytes)
    <3>1. PICK n \in 0..(LineEnd - fpos) : Stringed(fpos, LineEnd) = [k \in 1..n |-> fpos + k]
      BY <2>2, StringedIs
    <3>2. n \in Nat /\ fpos \in Nat
      BY <2>2, LenProperties DEF TcpTypes
    <3>3. [k \in 1..n |-> fpos + k] \in [1..n -> Bytes]
      BY <3>2 DEF Bytes
    <3> QED BY <3>1, <3>2, <3>3, IsASeq
  <2>6. TcpTypes'
    <3>1. LineEnd \in 0..Len(source)
      BY <2>2, LenProperties DEF TcpTypes
    <3> QED BY <1>1, <2>1, <2>5, <3>1 DEF TcpTypes
  <2>7. ASSUME link # "reset"
        PROVE  InOrder(Sent', LineEnd) /\ Full(Sent', LineEnd)
    <3>1. InOrder(outfile \o wire, fpos) /\ Full(outfile \o wire, fpos)
      BY <2>3, <2>7 DEF Bytewise
    <3> QED BY <2>2, <2>4, <3>1, LineAdded
  <2>8. InOrder(outfile, LineEnd)
    <3>1. fpos <= LineEnd /\ fpos \in Nat /\ LineEnd \in Nat
      BY <2>2, LenProperties DEF TcpTypes
    <3>2. InOrder(outfile, fpos)
      BY DEF Bytewise
    <3>3. \A i \in 1..Len(outfile) : outfile[i] \in Nat
      BY DEF TcpTypes, Bytes
    <3> QED BY <3>1, <3>2, <3>3 DEF InOrder
  <2>9. Bytewise'
    <3>1. \A s : (InOrder(s, fpos)' <=> InOrder(s, LineEnd)) /\ (Full(s, fpos)' <=> Full(s, LineEnd))
      BY <2>1, <2>4 DEF InOrder, Full
    <3> QED BY <1>1, <2>1, <2>4, <2>7, <2>8 DEF Bytewise, InOrder, Full
  <2>10. Stages'
    BY <1>1, <2>1 DEF Stages
  <2> QED BY <2>6, <2>9, <2>10
<1> QED BY <1>2, <1>3

\* send takes a part.
LEMMA SendStep ==
  ASSUME TcpTypes, Bytewise, Stages, SendSome
  PROVE  TcpTypes' /\ Bytewise' /\ Stages'
<1>1. PICK sent \in 1..Len(tobe) :
         /\ wire' = wire \o SubSeq(tobe, 1, sent)
         /\ tobe' = SubSeq(tobe, sent + 1, Len(tobe))
         /\ sender' = IF sent < Len(tobe) THEN "send" ELSE "fgets"
  BY DEF SendSome
<1>2. /\ sender = "send" /\ link = "open"
      /\ UNCHANGED <<source, fpos, receiver, rbuf, outfile, total_trans, putFailed, link>>
  BY DEF SendSome, recvVars
<1>3. outfile \in Seq(Bytes) /\ wire \in Seq(Bytes) /\ tobe \in Seq(Bytes)
  BY DEF TcpTypes
<1> DEFINE a == SubSeq(tobe, 1, sent)
           b == SubSeq(tobe, sent + 1, Len(tobe))
<1>4. a \in Seq(Bytes) /\ b \in Seq(Bytes) /\ a \o b = tobe /\ (sent = Len(tobe) => b = <<>>)
  BY <1>3, Cut
<1> HIDE DEF a, b
<1>5. wire' = wire \o a /\ tobe' = b
  BY <1>1 DEF a, b
<1>6. Sent' = Sent
  <2>1. outfile \o (wire \o a) = (outfile \o wire) \o a
    <3>1. Associates(outfile, wire, a)
      BY <1>3, <1>4, Associate
    <3> QED BY <3>1 DEF Associates
  <2>2. outfile \o wire \in Seq(Bytes)
    BY <1>3, ConcatProperties
  <2>3. ((outfile \o wire) \o a) \o b = (outfile \o wire) \o (a \o b)
    <3>1. Associates(outfile \o wire, a, b)
      BY <1>4, <2>2, Associate
    <3> QED BY <3>1 DEF Associates
  <2> QED BY <1>2, <1>4, <1>5, <2>1, <2>3 DEF Sent
<1>7. Clean' = Clean
  BY <1>2 DEF Clean
<1>8. wire \o a \in Seq(Bytes)
  BY <1>3, <1>4, ConcatProperties
<1>9. TcpTypes'
  BY <1>2, <1>4, <1>5, <1>8 DEF TcpTypes
<1>10. Bytewise'
  BY <1>2, <1>6, <1>7 DEF Bytewise, InOrder, Full
<1>11. Stages'
  <2>1. Len(tobe) \in Nat /\ (sent < Len(tobe) \/ sent = Len(tobe))
    BY <1>3, LenProperties
  <2>2. sender' \in {"send", "fgets"} /\ (sender' = "fgets" => tobe' = <<>>)
    BY <1>1, <1>4, <1>5, <2>1
  <2> QED BY <1>2, <2>2 DEF Stages
<1> QED BY <1>9, <1>10, <1>11

\* recv takes a part, and fputs writes it.
LEMMA RecvStep ==
  ASSUME TcpTypes, Bytewise, Stages, RecvSome
  PROVE  TcpTypes' /\ Bytewise' /\ Stages'
<1>1. PICK rec \in 1..Len(wire) :
         /\ wire' = SubSeq(wire, rec + 1, Len(wire))
         /\ outfile' = outfile \o Received(rec)
         /\ total_trans' = total_trans + rec
  BY DEF RecvSome
<1>2. /\ receiver = "recv" /\ link # "reset" /\ rbuf' = <<>>
      /\ UNCHANGED <<source, fpos, sender, tobe, receiver, putFailed, link>>
  BY DEF RecvSome, sendVars
<1>3. outfile \in Seq(Bytes) /\ wire \in Seq(Bytes) /\ tobe \in Seq(Bytes) /\ rbuf = <<>>
  BY DEF TcpTypes, Bytewise
<1> DEFINE a == SubSeq(wire, 1, rec)
           b == SubSeq(wire, rec + 1, Len(wire))
<1>4. /\ a \in Seq(Bytes) /\ b \in Seq(Bytes) /\ a \o b = wire /\ Len(a) = rec
      /\ Received(rec) = a
  BY <1>3, Cut, ReceivedIsNew
<1> HIDE DEF a, b
<1>5. wire' = b /\ outfile' = outfile \o a
  BY <1>1, <1>4 DEF b
<1>6. Sent' = Sent
  <2>1. (outfile \o a) \o b = outfile \o (a \o b)
    <3>1. Associates(outfile, a, b)
      BY <1>3, <1>4, Associate
    <3> QED BY <3>1 DEF Associates
  <2> QED BY <1>2, <1>4, <1>5, <2>1 DEF Sent
<1>7. Clean' = Clean
  BY <1>2 DEF Clean
<1>8. outfile' \in Seq(Bytes) /\ Len(outfile') = Len(outfile) + rec
  BY <1>3, <1>4, <1>5, ConcatProperties
<1>9. TcpTypes'
  BY <1>2, <1>4, <1>5, <1>8 DEF TcpTypes
<1>10. InOrder(outfile', fpos)
  <2>1. InOrder(Sent, fpos)
    BY <1>2 DEF Bytewise
  <2>2. Sent = outfile' \o (b \o tobe)
    <3>1. (outfile' \o b) \o tobe = outfile' \o (b \o tobe)
      <4>1. Associates(outfile', b, tobe)
        BY <1>3, <1>4, <1>8, Associate
      <4> QED BY <4>1 DEF Associates
    <3>2. Sent' = (outfile' \o b) \o tobe
      BY <1>2, <1>5 DEF Sent
    <3> QED BY <1>6, <3>1, <3>2
  <2>3. b \o tobe \in Seq(Bytes)
    BY <1>3, <1>4, ConcatProperties
  <2> QED BY <1>8, <2>1, <2>2, <2>3, Beginning
<1>11. Bytewise'
  <2>1. total_trans' = Len(outfile')
    BY <1>1, <1>8 DEF Bytewise
  <2> QED BY <1>2, <1>6, <1>7, <1>10, <2>1 DEF Bytewise, InOrder, Full
<1>12. Stages'
  <2>1. link # "none"
    BY <1>1, <1>2, LenProperties DEF Stages
  <2> QED BY <1>2, <2>1 DEF Stages
<1> QED BY <1>9, <1>11, <1>12

\* What is on the way is lost.
LEMMA BreakStep ==
  ASSUME TcpTypes, Bytewise, Stages, wire' = <<>>, link' = "reset",
         UNCHANGED <<source, fpos, sender, tobe, rbuf, outfile, total_trans>>,
         link # "none", receiver' \in {receiver, "ended"}
  PROVE  TcpTypes' /\ Bytewise' /\ Stages'
<1>1. Clean' = Clean
  BY DEF Clean
<1>2. TcpTypes'
  BY EmptySeq DEF TcpTypes
<1>3. Bytewise'
  BY <1>1 DEF Bytewise, InOrder
<1>4. Stages'
  BY DEF Stages
<1> QED BY <1>2, <1>3, <1>4

LEMMA NextTcpInv ==
  ASSUME TcpInv, [TcpNext]_tcpVars PROVE TcpInv'
<1> SUFFICES ASSUME ~putFailed' PROVE TcpTypes' /\ Bytewise' /\ Stages'
  BY DEF TcpInv
<1>1. ~PutFails
  BY DEF PutFails
<1>2. putFailed' = putFailed
  BY <1>1 DEF TcpNext, SendNext, RecvNext, tcpVars, sendVars, recvVars, SendFails, Connect, FgetsSend,
     SendSome, SendReset, SendEnds, RecvFails, Listen, Accept, AcceptFails, RecvSome, RecvEnds, Reset
<1>3. TcpTypes /\ Bytewise /\ Stages
  BY <1>2 DEF TcpInv
<1> DEFINE Still == UNCHANGED <<source, fpos, tobe, wire, outfile, rbuf, total_trans>>
<1>4. ASSUME Still, link' \in {"none", "open", "finished", "reset"}, link = "reset" => link' = "reset",
             Stages'
      PROVE  TcpTypes' /\ Bytewise' /\ Stages'
  BY <1>3, <1>4, BytesSame
<1>5. CASE SendFails
  <2>1. Still /\ UNCHANGED <<link, receiver>> /\ sender = "setup" /\ sender' = "failed"
    BY <1>5 DEF SendFails, recvVars
  <2> QED BY <1>3, <1>4, <2>1 DEF Stages, TcpTypes
<1>6. CASE Connect
  <2>1. /\ Still /\ receiver = "accept" /\ link = "none" /\ link' = "open"
        /\ sender' = "fgets" /\ UNCHANGED receiver
    BY <1>6 DEF Connect, recvVars
  <2> QED BY <1>3, <1>4, <2>1 DEF Stages
<1>7. CASE SendReset
  <2>1. Still /\ UNCHANGED <<link, receiver>> /\ sender = "send" /\ link = "reset" /\ sender' = "failed"
    BY <1>7 DEF SendReset, recvVars
  <2> QED BY <1>3, <1>4, <2>1 DEF Stages, TcpTypes
<1>8. CASE SendEnds
  <2>1. /\ Still /\ UNCHANGED receiver /\ sender = "fgets" /\ fpos = Len(source) /\ sender' = "ended"
        /\ link' = IF link = "open" THEN "finished" ELSE link
    BY <1>8 DEF SendEnds, recvVars
  <2>2. Stages'
    BY <1>3, <2>1 DEF Stages, TcpTypes
  <2> QED BY <1>3, <1>4, <2>1, <2>2 DEF TcpTypes
<1>9. CASE RecvFails \/ Listen \/ Accept \/ RecvEnds
  <2>1. Still /\ UNCHANGED <<link, sender>>
    BY <1>9 DEF RecvFails, Listen, Accept, RecvEnds, sendVars
  <2>2. Stages'
    BY <1>3, <1>9, <2>1 DEF Stages, TcpTypes, RecvFails, Listen, Accept, RecvEnds
  <2> QED BY <1>3, <1>4, <2>1, <2>2 DEF TcpTypes
<1>10. CASE AcceptFails
  <2>1. /\ UNCHANGED <<source, fpos, sender, tobe, rbuf, outfile, total_trans>> /\ wire' = <<>>
        /\ link' = IF link = "none" THEN "none" ELSE "reset"
        /\ receiver' = "ended"
    BY <1>10 DEF AcceptFails, sendVars
  <2>2. CASE link = "none"
    <3>1. Still
      BY <1>3, <2>1, <2>2 DEF Stages
    <3> QED BY <1>3, <1>4, <2>1, <2>2, <3>1 DEF Stages
  <2>3. CASE link # "none"
    BY <1>3, <2>1, <2>3, BreakStep
  <2> QED BY <2>2, <2>3
<1>11. CASE Reset
  <2>1. /\ UNCHANGED <<source, fpos, sender, tobe, rbuf, outfile, total_trans, receiver>> /\ wire' = <<>>
        /\ link' = "reset" /\ link # "none"
    BY <1>11 DEF Reset, sendVars, recvVars
  <2> QED BY <1>3, <2>1, BreakStep
<1>12. CASE UNCHANGED tcpVars
  <2>1. Still /\ UNCHANGED <<link, sender, receiver>>
    BY <1>12 DEF tcpVars, sendVars, recvVars
  <2> QED BY <1>3, <1>4, <2>1 DEF Stages, TcpTypes
<1> QED
  BY <1>1, <1>3, <1>5, <1>6, <1>7, <1>8, <1>9, <1>10, <1>11, <1>12, FgetsStep, SendStep, RecvStep
     DEF TcpNext, SendNext, RecvNext

\* As long as fputs works, tcp_recv has written bytes of the file in their
\* order, each once, all those before the first 0 first, and counted them; when
\* it has seen the end of a stream that was not reset none of those is missing,
\* however send, recv and fgets cut the stream up (tcp_send.c:80-97,
\* tcp_recv.c:83-90).
THEOREM StreamIsExact == TcpSpec => []StreamExact
<1>1. TcpInit => TcpInv
  BY InitTcpInv
<1>2. TcpInv /\ [TcpNext]_tcpVars => TcpInv'
  BY NextTcpInv
<1>3. TcpInv => StreamExact
  <2> SUFFICES ASSUME TcpInv, ~putFailed
               PROVE  /\ \A i, k \in DOMAIN outfile : i < k => outfile[i] < outfile[k]
                      /\ \A i \in DOMAIN outfile : i \in Clean => outfile[i] = i
                      /\ total_trans = Len(outfile)
                      /\ (receiver = "ended" /\ link = "finished") => Clean \subseteq DOMAIN outfile
    BY DEF StreamExact
  <2>1. TcpTypes /\ Bytewise /\ Stages
    BY DEF TcpInv
  <2>2. outfile \in Seq(Bytes) /\ DOMAIN outfile = 1..Len(outfile) /\ Len(outfile) \in Nat
    BY <2>1, LenProperties DEF TcpTypes
  <2>3. InOrder(outfile, fpos) /\ total_trans = Len(outfile)
    BY <2>1 DEF Bytewise
  <2>4. ASSUME receiver = "ended", link = "finished", NEW i \in Clean PROVE i \in 1..Len(outfile)
    <3>1. wire = <<>> /\ tobe = <<>> /\ fpos = Len(source)
      BY <2>1, <2>4 DEF Stages
    <3>2. Sent = outfile
      BY <2>2, <3>1, ConcatEmptySeq DEF Sent
    <3>3. Full(outfile, Len(source))
      BY <2>1, <2>4, <3>1, <3>2 DEF Bytewise
    <3>4. i \in 1..Len(source) /\ Len(source) \in Nat
      BY <2>1, LenProperties DEF Clean, TcpTypes
    <3> QED BY <2>2, <3>3, <3>4 DEF Full
  <2> QED BY <2>2, <2>3, <2>4 DEF InOrder
<1> QED BY <1>1, <1>2, <1>3, PTL DEF TcpSpec

(***************************************************************************)
(* Udp.  IInv is the inductive invariant: what may be on its way to or     *)
(* from a port, and that a port nobody had yet is silent.                  *)
(***************************************************************************)
Asked   == {"DATE", "UPTIME"}
Used(p) == \E d \in Clients : port[d] = p

TypeOK == /\ client \in [Clients -> {"setup", "waiting", "answered", "gone"}]
          /\ port \in [Clients -> Ports \cup {Elsewhere}]
          /\ DOMAIN answerOf = Clients
          /\ \A c \in Clients : client[c] = "setup" => port[c] = Elsewhere

\* The server begins every turn with an empty buffer.
Cleared == sbuf = ""

\* On a client's port there are only questions and answers, and none on a port
\* no client has had.
Traffic == /\ \A m \in requests : m.from \in Ports => m.data \in Asked /\ Used(m.from)
           /\ \A r \in replies : r.data \in {"date", "uptime"} /\ r.to \in Ports /\ Used(r.to)

\* A client that is the first to have its port meets its own question and the
\* answer to it there, and nothing else.
Own == \A c \in Clients : client[c] = "waiting" =>
           /\ Question[c] \in Asked /\ port[c] \in Ports
           /\ c \notin second =>
                /\ \A m \in requests : m.from = port[c] => m.data = Question[c]
                /\ \A r \in replies : r.to = port[c] => r.data = ReplyTo(Question[c])

IInv == TypeOK /\ Cleared /\ Traffic /\ Own /\ AnswerFits

LEMMA Answers ==
  /\ ReplyTo("DATE") = "date" /\ ReplyTo("UPTIME") = "uptime"
  /\ \A q \in Asked : ReplyTo(q) \in {"date", "uptime"}
BY DEF ReplyTo, Asked

\* On a cleared buffer a datagram is read as it was sent.
LEMMA ReadsAsSent ==
  ASSUME Cleared, NEW q \in Asked
  PROVE  Overlay(q) = q
<1>1. DataSize("") = 0 /\ DataSize("UPTIME") = 6 /\ DataSize("DATE") = 4
  BY DEF DataSize
<1>2. DataSize(q) >= DataSize(sbuf)
  <2>1. DataSize(sbuf) = 0 /\ DataSize(q) \in {4, 6}
    BY <1>1 DEF Cleared, Asked
  <2> QED  BY <2>1
<1> QED  BY <1>2, Zenon DEF Overlay

LEMMA InitIInv ==
  ASSUME UdpInit PROVE IInv
<1>1. client = [c \in Clients |-> "setup"] /\ port = [c \in Clients |-> Elsewhere]
  BY DEF UdpInit, UdpRest
<1>2. answerOf = [c \in Clients |-> ""] /\ sbuf = "" /\ requests = {} /\ replies = {}
  BY DEF UdpInit, UdpRest
<1> QED  BY <1>1, <1>2 DEF IInv, TypeOK, Cleared, Traffic, Own, AnswerFits

LEMMA NextIInv ==
  ASSUME IInv, [UdpNext]_udpVars PROVE IInv'
<1> USE DEF IInv, netVars
<1>1. ASSUME NEW c \in Clients, AskFails(c) PROVE IInv'
  BY <1>1 DEF AskFails, TypeOK, Cleared, Traffic, Used, Own, AnswerFits
<1>2. ASSUME NEW c \in Clients, Ask(c) PROVE IInv'
  <2>1. PICK p \in Ports :
           /\ \A d \in Clients : client[d] = "waiting" => port[d] # p
           /\ port' = [port EXCEPT ![c] = p]
           /\ second' = second \cup {x \in {c} : \E d \in Clients : port[d] = p}
           /\ requests' = requests \cup {[from |-> p, data |-> Question[c]]}
    BY <1>2 DEF Ask
  <2>2. /\ Question[c] \in Asked /\ client[c] = "setup"
        /\ client' = [client EXCEPT ![c] = "waiting"]
        /\ UNCHANGED <<answerOf, sbuf, replies>>
    BY <1>2 DEF Ask, Asked
  <2>3. TypeOK' /\ Cleared'
    BY <2>1, <2>2 DEF TypeOK, Cleared
  <2>4. \A q \in Ports : Used(q) => Used(q)'
    BY <2>1, <2>2, UdpAssumption DEF Used, TypeOK
  <2>5. Used(p)'
    BY <2>1 DEF Used, TypeOK
  <2>6. Traffic'
    BY <2>1, <2>2, <2>4, <2>5 DEF Traffic
  <2>7. Own'
    <3> SUFFICES ASSUME NEW e \in Clients, client'[e] = "waiting"
                 PROVE  /\ Question[e] \in Asked /\ port'[e] \in Ports
                        /\ e \notin second' =>
                             /\ \A m \in requests' : m.from = port'[e] => m.data = Question[e]
                             /\ \A r \in replies' : r.to = port'[e] => r.data = ReplyTo(Question[e])
      BY DEF Own
    <3>1. CASE e = c
      <4>1. port'[e] = p
        BY <2>1, <3>1 DEF TypeOK
      <4>2. e \notin second' => ~Used(p)
        BY <2>1, <3>1 DEF Used
      <4>3. ~Used(p) => /\ \A m \in requests : m.from # p
                        /\ \A r \in replies : r.to # p
        BY DEF Traffic
      <4> QED  BY <2>1, <2>2, <3>1, <4>1, <4>2, <4>3
    <3>2. CASE e # c
      <4>1. client[e] = "waiting" /\ port'[e] = port[e] /\ port[e] # p
        BY <2>1, <2>2, <3>2 DEF TypeOK
      <4> QED  BY <2>1, <2>2, <4>1 DEF Own
    <3> QED  BY <3>1, <3>2
  <2>8. AnswerFits'
    BY <2>1, <2>2 DEF AnswerFits, TypeOK
  <2> QED  BY <2>3, <2>6, <2>7, <2>8
<1>3. ASSUME NEW c \in Clients, Hear(c) PROVE IInv'
  <2>1. PICK r \in replies : /\ r.to = port[c]
                             /\ answerOf' = [answerOf EXCEPT ![c] = r.data]
                             /\ replies' \in {replies, replies \ {r}}
    BY <1>3 DEF Hear
  <2>2. /\ client[c] = "waiting" /\ client' = [client EXCEPT ![c] = "answered"]
        /\ UNCHANGED <<port, sbuf, requests, second>>
    BY <1>3 DEF Hear
  <2>3. TypeOK' /\ Cleared' /\ Traffic'
    BY <2>1, <2>2 DEF TypeOK, Cleared, Traffic, Used
  <2>4. Own'
    BY <2>1, <2>2 DEF Own, TypeOK
  <2>5. r.data \in {"date", "uptime"} /\ (c \notin second => r.data = ReplyTo(Question[c]))
    BY <2>1, <2>2 DEF Traffic, Own
  <2>6. AnswerFits'
    BY <2>1, <2>2, <2>5 DEF AnswerFits, TypeOK
  <2> QED  BY <2>3, <2>4, <2>6
<1>4. ASSUME NEW c \in Clients, GiveUp(c) PROVE IInv'
  BY <1>4, ZenonT(60) DEF GiveUp, TypeOK, Cleared, Traffic, Used, Own, AnswerFits
\* The server answers what it was sent, because its buffer is clear.
<1>5. ASSUME NEW m \in requests, Serve(m) PROVE IInv'
  <2>1. /\ replies' = replies \cup Reply(m) /\ requests' \in {requests, requests \ {m}}
        /\ sbuf' = "" /\ UNCHANGED <<client, port, answerOf, second>>
    BY <1>5 DEF Serve
  <2>2. \A r \in Reply(m) : /\ r.to \in Ports /\ r.to = m.from
                            /\ r.data = ReplyTo(m.data) /\ m.data \in Asked
    BY ReadsAsSent DEF Reply, Traffic
  <2>3. \A r \in replies' \ replies : /\ r.to \in Ports /\ r.to = m.from
                                      /\ r.data = ReplyTo(m.data) /\ m.data \in Asked
    BY <2>1, <2>2
  <2>4. TypeOK' /\ Cleared' /\ AnswerFits'
    BY <2>1 DEF TypeOK, Cleared, AnswerFits
  <2>5. Traffic'
    BY <2>1, <2>3, Answers DEF Traffic, Used
  <2>6. Own'
    BY <2>1, <2>3 DEF Own
  <2> QED  BY <2>4, <2>5, <2>6
<1>6. CASE ServerTakesEmpty \/ ServerFails
  <2>1. UNCHANGED <<client, port, answerOf, sbuf, requests, replies, second>>
    BY <1>6 DEF ServerTakesEmpty, ServerFails
  <2> QED  BY <2>1 DEF TypeOK, Cleared, Traffic, Used, Own, AnswerFits
<1>7. CASE Lose
  <2>1. /\ requests' \subseteq requests /\ replies' \subseteq replies
        /\ UNCHANGED <<client, port, answerOf, sbuf, second>>
    BY <1>7 DEF Lose
  <2> QED  BY <2>1 DEF TypeOK, Cleared, Traffic, Used, Own, AnswerFits
<1>8. CASE Disturb
  <2>1. /\ \A m \in requests' \ requests : m.from = Elsewhere
        /\ UNCHANGED <<client, port, answerOf, sbuf, replies, second>>
    BY <1>8 DEF Disturb
  <2>2. Traffic'
    BY <2>1, UdpAssumption DEF Traffic, Used
  <2>3. Own'
    BY <2>1, UdpAssumption DEF Own
  <2> QED  BY <2>1, <2>2, <2>3 DEF TypeOK, Cleared, AnswerFits
<1>9. CASE UNCHANGED udpVars
  BY <1>9 DEF udpVars, TypeOK, Cleared, Traffic, Used, Own, AnswerFits
<1> QED
  BY <1>1, <1>2, <1>3, <1>4, <1>5, <1>6, <1>7, <1>8, <1>9 DEF UdpNext

\* Whatever the network loses, repeats or delays and whatever others send, a
\* client prints the answer to its own question, unless its port was that of
\* an earlier client, and never what the server sends by mistake
\* (udp_server.c:60-83, udp_client.c:58-68).
THEOREM Fits == UdpSpec => []AnswerFits
<1>1. UdpInit => IInv  BY InitIInv
<1>2. IInv /\ [UdpNext]_udpVars => IInv'  BY NextIInv
<1>3. IInv => AnswerFits  BY DEF IInv
<1> QED  BY <1>1, <1>2, <1>3, PTL DEF UdpSpec
================================================================================
