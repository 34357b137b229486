-------------------------- MODULE CoapStreamProofs --------------------------
(***************************************************************************)
(* The stream of CoAP messages, for any sizes of header and body, any      *)
(* number of messages and wherever the stream is cut: while no read came   *)
(* short, what the transport kept, what has arrived and what is under way  *)
(* are, one after the other, the pieces of the messages that are still to  *)
(* be handed on.                                                           *)
(***************************************************************************)
EXTENDS CoapStream, SequenceTheorems, WellFoundedInduction, TLAPS

-----------------------------------------------------------------------------
(* Positions.  A place of the stream is the piece that is there. *)

Place == Nat \X (1 .. MsgLen)

\* The place after a place.
After(p) == IF p[2] < MsgLen THEN <<p[1], p[2] + 1>> ELSE <<p[1] + 1, 1>>

\* s is the stream from the place c on, up to the one before the place e.
At(s, e, i) == IF i <= Len(s) THEN s[i] ELSE e
Leads(c, s, e) ==
    /\ At(s, e, 1) = c
    /\ \A i \in 1 .. Len(s) : At(s, e, i + 1) = After(s[i])

LEMMA MsgLenType == /\ MsgLen \in Nat /\ MsgLen = HeaderLen + BodyLen
                    /\ HeaderLen \in Nat /\ HeaderLen > 0
                    /\ BodyLen \in Nat /\ BodyLen > 0 /\ MaxMsgs \in Nat
BY CoapStreamAssumption DEF MsgLen

LEMMA SetInduction ==
  ASSUME NEW S, 0 \in S, \A n \in Nat : n \in S => n + 1 \in S
  PROVE  \A n \in Nat : n \in S
<1> DEFINE T == Nat \ S
           R == OpToRel(<, Nat)
<1>1. \A m, n \in Nat : m < n => <<m, n>> \in R
  BY DEF OpToRel
<1>2. IsWellFoundedOn(R, Nat)
  BY NatLessThanWellFounded
<1> HIDE DEF R
<1>3. SUFFICES ASSUME T # {} PROVE FALSE
  OBVIOUS
<1>4. PICK n \in T : \A m \in T : ~ (<<m, n>> \in R)
  BY <1>2, <1>3, WFMin
<1>5. n \in Nat /\ n - 1 \in Nat /\ n - 1 < n /\ n - 1 \in T
  OBVIOUS
<1>6. QED
  BY <1>1, <1>4, <1>5

\* Sequences of pieces put one after the other.
LEMMA PieceCat ==
  ASSUME NEW s \in Seq(Pieces), NEW t \in Seq(Pieces)
  PROVE  /\ s \o t \in Seq(Pieces) /\ Len(s \o t) = Len(s) + Len(t)
         /\ \A i \in 1 .. Len(s) : (s \o t)[i] = s[i]
         /\ \A i \in 1 .. Len(t) : (s \o t)[Len(s) + i] = t[i]
OBVIOUS

LEMMA PieceAssoc ==
  ASSUME NEW s \in Seq(Pieces), NEW t \in Seq(Pieces), NEW u \in Seq(Pieces)
  PROVE  (s \o t) \o u = s \o (t \o u)
OBVIOUS

LEMMA PieceNone ==
  ASSUME NEW s \in Seq(Pieces)
  PROVE  <<>> \in Seq(Pieces) /\ Len(<<>>) = 0 /\ <<>> \o s = s /\ s \o <<>> = s
OBVIOUS

\* From a place on, to the end of its message.
Within(m, j, s, e) ==
    \A i \in 0 .. Len(s) : j + i <= MsgLen => At(s, e, i + 1) = <<m, j + i>>

LEMMA LeadsWithin ==
  ASSUME NEW m \in Nat, NEW j \in 1 .. MsgLen, NEW s \in Seq(Pieces), NEW e,
         Leads(<<m, j>>, s, e)
  PROVE  Within(m, j, s, e)
<1> USE MsgLenType
<1> DEFINE S == {i \in Nat : i <= Len(s) /\ j + i <= MsgLen => At(s, e, i + 1) = <<m, j + i>>}
<1>1. 0 \in S
  BY DEF Leads
<1>2. ASSUME NEW i \in Nat, i \in S PROVE i + 1 \in S
  <2>1. SUFFICES ASSUME i + 1 <= Len(s), j + (i + 1) <= MsgLen
                 PROVE  At(s, e, (i + 1) + 1) = <<m, j + (i + 1)>>
    OBVIOUS
  <2>2. s[i + 1] = <<m, j + i>>
    BY <1>2, <2>1 DEF At
  <2>3. At(s, e, (i + 1) + 1) = After(s[i + 1])
    BY <2>1 DEF Leads
  <2>4. QED
    BY <2>1, <2>2, <2>3 DEF After
<1>3. \A i \in Nat : i \in S
  <2> HIDE DEF S
  <2>1. QED
    BY <1>1, <1>2, SetInduction
<1>4. QED
  BY <1>3 DEF Within

\* The stream only goes forward.
LEMMA LeadsForward ==
  ASSUME NEW m \in Nat, NEW j \in 1 .. MsgLen, NEW s \in Seq(Pieces), NEW a \in Nat,
         Leads(<<m, j>>, s, <<a, 1>>), s # <<>> \/ j > 1
  PROVE  m < a
<1> USE MsgLenType
<1> DEFINE e == <<a, 1>>
           Later(p, i) == \E x \in Nat, y \in 1 .. MsgLen :
                              p = <<x, y>> /\ (x > m \/ (x = m /\ y = j + i))
           S == {i \in Nat : i <= Len(s) => Later(At(s, e, i + 1), i)}
<1>1. 0 \in S
  BY DEF Leads
<1>2. ASSUME NEW i \in Nat, i \in S PROVE i + 1 \in S
  <2>1. SUFFICES ASSUME i + 1 <= Len(s) PROVE Later(At(s, e, (i + 1) + 1), i + 1)
    BY SMTT(30)
  <2>2. PICK x \in Nat, y \in 1 .. MsgLen :
            s[i + 1] = <<x, y>> /\ (x > m \/ (x = m /\ y = j + i))
    BY <1>2, <2>1 DEF At
  <2>3. At(s, e, (i + 1) + 1) = After(<<x, y>>)
    <3>1. i + 1 \in 1 .. Len(s)
      BY <2>1
    <3>2. At(s, e, (i + 1) + 1) = After(s[i + 1])
      BY <3>1 DEF Leads
    <3>3. QED
      BY <2>2, <3>2
  <2>4. CASE y < MsgLen
    BY <2>2, <2>3, <2>4 DEF After
  <2>5. CASE ~ (y < MsgLen)
    BY <2>2, <2>3, <2>5 DEF After
  <2>6. QED
    BY <2>4, <2>5
<1>3. \A i \in Nat : i \in S
  <2> HIDE DEF S
  <2>1. QED
    BY <1>1, <1>2, SetInduction
<1>4. Later(e, Len(s))
  BY <1>3 DEF At
<1>5. a > m \/ (a = m /\ 1 = j + Len(s))
  BY <1>4
<1>6. Len(s) = 0 => s = <<>>
  OBVIOUS
<1>7. QED
  BY <1>5, <1>6

LEMMA LeadsTail ==
  ASSUME NEW c, NEW e, NEW s \in Seq(Pieces), NEW t \in Seq(Pieces), Leads(c, s \o t, e)
  PROVE  Leads(c, s, At(t, e, 1)) /\ Leads(At(t, e, 1), t, e)
<1> DEFINE u == s \o t
<1>1. \A i \in 1 .. Len(s) + 1 : At(u, e, i) = At(s, At(t, e, 1), i)
  <2>1. TAKE i \in 1 .. Len(s) + 1
  <2>2. CASE i <= Len(s)
    BY <2>2, PieceCat DEF At
  <2>3. CASE i = Len(s) + 1
    BY <2>3, PieceCat DEF At
  <2>4. QED
    BY <2>2, <2>3
<1>2. \A i \in 1 .. Len(t) + 1 : At(u, e, Len(s) + i) = At(t, e, i)
  BY PieceCat DEF At
<1> HIDE DEF u
<1>3. /\ Len(u) = Len(s) + Len(t) /\ \A i \in 1 .. Len(s) : u[i] = s[i]
      /\ \A i \in 1 .. Len(t) : u[Len(s) + i] = t[i]
  BY PieceCat DEF u
<1>4. At(u, e, 1) = c /\ \A i \in 1 .. Len(u) : At(u, e, i + 1) = After(u[i])
  BY DEF Leads, u
<1>5. Leads(c, s, At(t, e, 1))
  <2>1. At(s, At(t, e, 1), 1) = c
    BY <1>1, <1>4
  <2>2. ASSUME NEW i \in 1 .. Len(s) PROVE At(s, At(t, e, 1), i + 1) = After(s[i])
    BY <1>1, <1>3, <1>4
  <2>3. QED
    BY <2>1, <2>2 DEF Leads
<1>6. ASSUME NEW i \in 1 .. Len(t) PROVE At(t, e, i + 1) = After(t[i])
  <2>1. PICK k \in Nat : k = Len(s) + i
    OBVIOUS
  <2>2. At(u, e, k + 1) = After(u[k])
    BY <2>1, <1>3, <1>4
  <2>3. k + 1 = Len(s) + (i + 1) /\ i + 1 \in 1 .. Len(t) + 1
    BY <2>1
  <2>4. QED
    BY <2>1, <2>2, <2>3, <1>2, <1>3
<1>7. QED
  BY <1>5, <1>6 DEF Leads

LEMMA LeadsOn ==
  ASSUME NEW c, NEW d, NEW e, NEW s \in Seq(Pieces), NEW t \in Seq(Pieces),
         Leads(c, s, d), Leads(d, t, e)
  PROVE  Leads(c, s \o t, e)
<1> DEFINE u == s \o t
<1>1. /\ Len(u) = Len(s) + Len(t) /\ \A i \in 1 .. Len(s) : u[i] = s[i]
      /\ \A i \in 1 .. Len(t) : u[Len(s) + i] = t[i]
  BY PieceCat
<1>2. At(t, e, 1) = d
  BY DEF Leads
<1> HIDE DEF u
<1>3. \A i \in 1 .. Len(s) + 1 : At(u, e, i) = At(s, d, i)
  <2>1. TAKE i \in 1 .. Len(s) + 1
  <2>2. CASE i <= Len(s)
    BY <2>2, <1>1 DEF At
  <2>3. CASE i = Len(s) + 1
    BY <2>3, <1>1, <1>2 DEF At
  <2>4. QED
    BY <2>2, <2>3
<1>4. \A i \in 1 .. Len(t) + 1 : At(u, e, Len(s) + i) = At(t, e, i)
  BY <1>1 DEF At
<1>5. At(u, e, 1) = c
  BY <1>3 DEF Leads
<1>6. ASSUME NEW k \in 1 .. Len(u) PROVE At(u, e, k + 1) = After(u[k])
  <2>1. CASE k <= Len(s)
    BY <2>1, <1>1, <1>3 DEF Leads
  <2>2. CASE k > Len(s)
    <3>1. PICK i \in 1 .. Len(t) : k = Len(s) + i
      <4>1. k - Len(s) \in 1 .. Len(t) /\ k = Len(s) + (k - Len(s))
        BY <2>2, <1>1
      <4>2. QED
        BY <4>1
    <3>2. k + 1 = Len(s) + (i + 1) /\ i + 1 \in 1 .. Len(t) + 1
      BY <3>1
    <3>3. At(t, e, i + 1) = After(t[i])
      BY DEF Leads
    <3>4. QED
      BY <3>1, <3>2, <3>3, <1>1, <1>4
  <2>3. QED
    BY <2>1, <2>2
<1>7. QED
  BY <1>5, <1>6 DEF Leads, u

\* The header of a message and its body, in the stream.
LEMMA HeaderTaken ==
  ASSUME NEW m \in Nat, NEW e, NEW s \in Seq(Pieces), NEW t \in Seq(Pieces),
         Leads(<<m, 1>>, s \o t, e), Len(s) = HeaderLen
  PROVE  s = Header(m) /\ Leads(<<m, HeaderLen + 1>>, t, e)
<1> USE MsgLenType
<1>1. PICK d : Leads(<<m, 1>>, s, d) /\ Leads(d, t, e)
  BY LeadsTail
<1>2. PICK j \in 1 .. MsgLen : j = 1
  OBVIOUS
<1>3. \A i \in 0 .. Len(s) : j + i <= MsgLen => At(s, d, i + 1) = <<m, j + i>>
  <2>1. Leads(<<m, j>>, s, d)
    BY <1>1, <1>2
  <2>2. Within(m, j, s, d)
    BY <2>1, LeadsWithin
  <2>3. QED
    BY <2>2 DEF Within
<1>4. ASSUME NEW i \in 1 .. HeaderLen PROVE s[i] = <<m, i>>
  <2>1. PICK k \in 0 .. Len(s) : i = k + 1 /\ j + k = i /\ j + k <= MsgLen
    <3>1. i - 1 \in 0 .. Len(s) /\ i = (i - 1) + 1 /\ j + (i - 1) = i /\ i <= MsgLen
      BY <1>2
    <3>2. QED
      BY <3>1
  <2>2. At(s, d, i) = <<m, i>>
    BY <2>1, <1>3
  <2>3. QED
    BY <2>2 DEF At
<1>5. s = Header(m)
  BY <1>4 DEF Header, Piece
<1>6. d = <<m, HeaderLen + 1>>
  <2>1. HeaderLen \in 0 .. Len(s) /\ j + HeaderLen = HeaderLen + 1 /\ j + HeaderLen <= MsgLen
    BY <1>2
  <2>2. At(s, d, HeaderLen + 1) = <<m, HeaderLen + 1>>
    BY <2>1, <1>3
  <2>3. QED
    BY <2>2 DEF At
<1>7. QED
  BY <1>1, <1>5, <1>6

LEMMA BodyTaken ==
  ASSUME NEW m \in Nat, NEW e, NEW s \in Seq(Pieces), NEW t \in Seq(Pieces),
         Leads(<<m, HeaderLen + 1>>, s \o t, e), Len(s) = BodyLen
  PROVE  s = Body(m) /\ Leads(<<m + 1, 1>>, t, e)
<1> USE MsgLenType
<1>1. PICK d : Leads(<<m, HeaderLen + 1>>, s, d) /\ Leads(d, t, e)
  BY LeadsTail
<1>2. PICK j \in 1 .. MsgLen : j = HeaderLen + 1
  OBVIOUS
<1>3. \A i \in 0 .. Len(s) : j + i <= MsgLen => At(s, d, i + 1) = <<m, j + i>>
  <2>1. Leads(<<m, j>>, s, d)
    BY <1>1, <1>2
  <2>2. Within(m, j, s, d)
    BY <2>1, LeadsWithin
  <2>3. QED
    BY <2>2 DEF Within
<1>4. ASSUME NEW i \in 1 .. BodyLen PROVE s[i] = <<m, HeaderLen + i>>
  <2>1. PICK k \in 0 .. Len(s) : i = k + 1 /\ j + k = HeaderLen + i /\ j + k <= MsgLen
    <3>1. i - 1 \in 0 .. Len(s) /\ i = (i - 1) + 1 /\ j + (i - 1) = HeaderLen + i
          /\ HeaderLen + i <= MsgLen
      BY <1>2
    <3>2. QED
      BY <3>1
  <2>2. At(s, d, i) = <<m, HeaderLen + i>>
    BY <2>1, <1>3
  <2>3. QED
    BY <2>2 DEF At
<1>5. s = Body(m)
  BY <1>4 DEF Body, Piece
<1>6. BodyLen \in 1 .. Len(s) /\ s[BodyLen] = <<m, MsgLen>>
  BY <1>4
<1>7. d = <<m + 1, 1>>
  <2>1. At(s, d, BodyLen + 1) = After(s[BodyLen])
    BY <1>1, <1>6 DEF Leads
  <2>2. QED
    BY <2>1, <1>6 DEF At, After
<1>8. QED
  BY <1>1, <1>5, <1>7

\* A message that is sent goes on where the last one ended.
LEMMA MessageLeads ==
  ASSUME NEW m \in Msgs
  PROVE  /\ Header(m) \in Seq(Pieces) /\ Body(m) \in Seq(Pieces)
         /\ Leads(<<m, 1>>, Header(m) \o Body(m), <<m + 1, 1>>)
<1> USE MsgLenType
<1>1. m \in Nat
  BY DEF Msgs
<1>2. PICK h : h = Header(m)
  OBVIOUS
<1>3. h \in Seq(Pieces) /\ Len(h) = HeaderLen /\ \A i \in 1 .. HeaderLen : h[i] = <<m, i>>
  BY <1>2 DEF Header, Piece, Pieces, Msgs
<1>4. PICK b : b = Body(m)
  OBVIOUS
<1>5. b \in Seq(Pieces) /\ Len(b) = BodyLen /\ \A i \in 1 .. BodyLen : b[i] = <<m, HeaderLen + i>>
  BY <1>4 DEF Body, Piece, Pieces, Msgs
<1>6. Leads(<<m, 1>>, h, <<m, HeaderLen + 1>>)
  <2>1. At(h, <<m, HeaderLen + 1>>, 1) = <<m, 1>>
    BY <1>3 DEF At
  <2>2. ASSUME NEW i \in 1 .. Len(h)
        PROVE  At(h, <<m, HeaderLen + 1>>, i + 1) = After(h[i])
    <3>1. After(h[i]) = <<m, i + 1>>
      BY <1>3 DEF After
    <3>2. CASE i < HeaderLen
      BY <1>3, <3>1, <3>2 DEF At
    <3>3. CASE i = HeaderLen
      BY <1>3, <3>1, <3>3 DEF At
    <3>4. QED
      BY <1>3, <3>2, <3>3
  <2>3. QED
    BY <2>1, <2>2 DEF Leads
<1>7. Leads(<<m, HeaderLen + 1>>, b, <<m + 1, 1>>)
  <2>1. At(b, <<m + 1, 1>>, 1) = <<m, HeaderLen + 1>>
    BY <1>5 DEF At
  <2>2. ASSUME NEW i \in 1 .. Len(b)
        PROVE  At(b, <<m + 1, 1>>, i + 1) = After(b[i])
    <3>1. CASE i < BodyLen
      <4>1. After(b[i]) = <<m, HeaderLen + (i + 1)>>
        BY <1>5, <3>1 DEF After
      <4>2. QED
        BY <1>5, <3>1, <4>1 DEF At
    <3>2. CASE i = BodyLen
      <4>1. After(b[i]) = <<m + 1, 1>>
        BY <1>5, <3>2 DEF After
      <4>2. QED
        BY <1>5, <3>2, <4>1 DEF At
    <3>3. QED
      BY <1>5, <3>1, <3>2
  <2>3. QED
    BY <2>1, <2>2 DEF Leads
<1>8. QED
  BY <1>1, <1>2, <1>3, <1>4, <1>5, <1>6, <1>7, LeadsOn

\* Messages are told apart by their pieces.
LEMMA MessageTold ==
  ASSUME NEW m \in Msgs
  PROVE  /\ \E k \in Msgs : Body(m) = Body(k)
         /\ Body(m)[1][1] = m /\ Header(m)[1][1] = m
<1>1. 1 \in 1 .. BodyLen /\ 1 \in 1 .. HeaderLen
  BY MsgLenType
<1>2. Body(m)[1] = <<m, HeaderLen + 1>> /\ Header(m)[1] = <<m, 1>>
  BY <1>1 DEF Body, Header, Piece
<1>3. QED
  BY <1>2

-----------------------------------------------------------------------------
(* The invariant.  While no read came short, what is to be handed on next is the  *)
(* message after the last one, and the pieces that are kept, have arrived or are   *)
(* under way lead from there to the end of what was sent.                          *)

Numbered(s) == \A i \in 1 .. Len(s) : s[i] = i

\* What the transport has read and not given out, and what is behind it.
Kept == IF transport = "aes" THEN received_header \o received_body
        ELSE IF transport = "tls" THEN opened \o record ELSE <<>>
Pending == Kept \o (wire \o net)

\* The place that is read next: AES begins with a header it kept.
Coming == Len(handed) + 1
Expected == <<Coming, IF step = "body" /\ transport # "aes" THEN HeaderLen + 1 ELSE 1>>

KeptInv ==
    /\ transport = "aes" /\ (step = "body" \/ received_body # <<>>) =>
           Len(received_header) = HeaderLen
    /\ transport = "tls" /\ spoiled = {} =>
           /\ step = "idle" => opened = <<>>
           /\ step = "body" => record = <<>> /\ Len(opened) = BodyLen

\* AES and TLS over a socket that counts are never put out of step.
CalmInv == transport # "plain" /\ counts /\ big = {} => spoiled = {}

StreamInv ==
    spoiled = {} =>
        /\ Numbered(handed) /\ Len(handed) <= Len(accepted)
        /\ step # "closing" => Leads(Expected, Pending, <<Len(accepted) + 1, 1>>)

CoapInv == KeptInv /\ CalmInv /\ Numbered(accepted) /\ StreamInv

-----------------------------------------------------------------------------
(* Types, and what a read takes. *)

LEMMA PieceSplit ==
  ASSUME NEW s \in Seq(Pieces), NEW k \in 0 .. Len(s)
  PROVE  /\ SubSeq(s, 1, k) \in Seq(Pieces) /\ Len(SubSeq(s, 1, k)) = k
         /\ SubSeq(s, k + 1, Len(s)) \in Seq(Pieces)
         /\ Len(SubSeq(s, k + 1, Len(s))) = Len(s) - k
         /\ SubSeq(s, 1, k) \o SubSeq(s, k + 1, Len(s)) = s
<1> DEFINE u == SubSeq(s, 1, k)
           v == SubSeq(s, k + 1, Len(s))
<1>1. u \in Seq(Pieces) /\ Len(u) = k /\ \A i \in 1 .. k : u[i] = s[i]
  OBVIOUS
<1>2. v \in Seq(Pieces) /\ Len(v) = Len(s) - k /\ \A i \in 1 .. Len(v) : v[i] = s[k + i]
  OBVIOUS
<1> HIDE DEF u, v
<1>3. PICK w : w = u \o v
  OBVIOUS
<1>4. /\ w \in Seq(Pieces) /\ Len(w) = Len(s)
      /\ \A i \in 1 .. k : w[i] = u[i]
      /\ \A i \in 1 .. Len(v) : w[k + i] = v[i]
  BY <1>1, <1>2, <1>3, PieceCat
<1>5. ASSUME NEW i \in 1 .. Len(s) PROVE w[i] = s[i]
  <2>1. CASE i <= k
    BY <1>1, <1>4, <2>1
  <2>2. CASE i > k
    <3>1. PICK j \in 1 .. Len(v) : i = k + j
      <4>1. i - k \in 1 .. Len(v) /\ i = k + (i - k)
        BY <1>2, <2>2
      <4>2. QED
        BY <4>1
    <3>2. QED
      BY <1>2, <1>4, <3>1
  <2>3. QED
    BY <2>1, <2>2
<1>6. w = s
  BY <1>4, <1>5
<1>7. QED
  BY <1>1, <1>2, <1>3, <1>6 DEF u, v

LEMMA Taken ==
  ASSUME wire \in Seq(Pieces), NEW n \in Nat
  PROVE  /\ Got(n) \in Seq(Pieces) /\ Len(Got(n)) <= n
         /\ Rest(n) \in Seq(Pieces) /\ Got(n) \o Rest(n) = wire
         /\ Len(wire) >= n => Len(Got(n)) = n
         /\ Len(wire) < n => Len(Got(n)) = Len(wire) /\ Got(n) = wire /\ Rest(n) = <<>>
<1>1. PICK k \in 0 .. Len(wire) : k = IF Len(wire) < n THEN Len(wire) ELSE n
  OBVIOUS
<1>2. Got(n) = SubSeq(wire, 1, k)
  BY <1>1 DEF Got
<1>3. Got(n) \in Seq(Pieces) /\ Len(Got(n)) = k
  BY <1>2, PieceSplit
<1>4. Rest(n) = SubSeq(wire, k + 1, Len(wire))
  BY <1>3 DEF Rest
<1>5. /\ Rest(n) \in Seq(Pieces) /\ Len(Rest(n)) = Len(wire) - k
      /\ Got(n) \o Rest(n) = wire
  BY <1>2, <1>4, PieceSplit
<1>6. ASSUME Len(wire) < n PROVE Got(n) = wire /\ Rest(n) = <<>>
  <2>1. Rest(n) = <<>>
    BY <1>1, <1>5, <1>6
  <2>2. QED
    BY <1>3, <1>5, <2>1, PieceNone
<1>7. QED
  BY <1>1, <1>3, <1>5, <1>6

LEMMA FilledType ==
  ASSUME wire \in Seq(Pieces), NEW n \in Nat
  PROVE  /\ Filled(n) \in Seq(Pieces) /\ Len(Filled(n)) = n
         /\ Len(Got(n)) = n => Filled(n) = Got(n)
<1>1. Got(n) \in Seq(Pieces) /\ Len(Got(n)) <= n
  BY Taken
<1>2. Junk \in Pieces
  BY MsgLenType DEF Junk, Damaged, Pieces
<1>3. \A i \in 1 .. n : (IF i <= Len(Got(n)) THEN Got(n)[i] ELSE Junk) \in Pieces
  BY <1>1, <1>2
<1>4. Filled(n) \in Seq(Pieces) /\ Len(Filled(n)) = n
  BY <1>3 DEF Filled
<1>5. ASSUME Len(Got(n)) = n PROVE Filled(n) = Got(n)
  BY <1>1, <1>5 DEF Filled
<1>6. QED
  BY <1>4, <1>5

LEMMA HeaderType ==
  ASSUME NEW h, NEW why \in SUBSET {"short"}, TakeHeader(h, why),
         spoiled \subseteq {"short", "split", "big"}
  PROVE  /\ step' \in {"idle", "body", "closing"}
         /\ spoiled' \subseteq {"short", "split", "big"}
BY DEF TakeHeader

LEMMA BodyType ==
  ASSUME NEW b, TakeBody(b), handed \in Seq(Msgs \cup {Damaged})
  PROVE  step' \in {"idle", "closing"} /\ handed' \in Seq(Msgs \cup {Damaged})
<1>1. ASSUME NEW m \in Msgs, b = Body(m) PROVE b[1][1] \in Msgs
  BY <1>1, MessageTold
<1>2. PICK x : x = IF \E m \in Msgs : b = Body(m) THEN b[1][1] ELSE Damaged
  OBVIOUS
<1>3. x \in Msgs \cup {Damaged} /\ handed' = Append(handed, x)
  BY <1>1, <1>2 DEF TakeBody
<1>4. QED
  BY <1>3 DEF TakeBody

LEMMA ShortType ==
  ASSUME NEW n
  PROVE  Short(n) \in SUBSET {"short"} /\ (Short(n) = {} <=> ~ (Len(Got(n)) < n))
BY DEF Short

LEMMA SendTypes == ASSUME TypeOK, CloudSends PROVE TypeOK'
<1>1. PICK m \in Msgs : m = Len(accepted) + 1
  BY MsgLenType DEF CloudSends, TypeOK, Msgs
<1>2. Header(m) \in Seq(Pieces) /\ Body(m) \in Seq(Pieces)
  BY MessageLeads
<1>3. net' \in Seq(Pieces)
  <2>1. PICK h \in Seq(Pieces), b \in Seq(Pieces) : h = Header(m) /\ b = Body(m)
    BY <1>2
  <2>2. net' = (net \o h) \o b
    BY <1>1, <2>1 DEF CloudSends
  <2>3. QED
    BY <2>2, PieceCat DEF TypeOK
<1>4. accepted' \in Seq(Msgs) /\ big' \subseteq Msgs
  BY <1>1 DEF CloudSends, TypeOK
<1>5. QED
  BY <1>3, <1>4 DEF CloudSends, TypeOK, buildVars, keptVars

LEMMA ArriveTypes ==
  ASSUME TypeOK, Arrive
  PROVE  TypeOK' /\ wire' \o net' = wire \o net
<1>1. net \in Seq(Pieces) /\ net # <<>> /\ wire \in Seq(Pieces)
  BY DEF TypeOK, Arrive
<1>2. /\ Append(wire, Head(net)) \in Seq(Pieces) /\ Tail(net) \in Seq(Pieces)
      /\ Append(wire, Head(net)) \o Tail(net) = wire \o net
  BY <1>1
<1>3. QED
  BY <1>2 DEF Arrive, TypeOK, buildVars, keptVars

LEMMA PlainTypes == ASSUME TypeOK, PlainHeader \/ PlainBody PROVE TypeOK'
<1>1. HeaderLen \in Nat /\ BodyLen \in Nat /\ wire \in Seq(Pieces)
  BY MsgLenType DEF TypeOK
<1>2. CASE PlainHeader
  <2>1. wire' \in Seq(Pieces)
    BY <1>1, <1>2, Taken DEF PlainHeader
  <2>2. step' \in {"idle", "body", "closing"} /\ spoiled' \subseteq {"short", "split", "big"}
    <3>1. CASE SaysAll(HeaderLen)
      BY <1>2, <3>1, ShortType, HeaderType DEF PlainHeader, TypeOK
    <3>2. CASE ~ SaysAll(HeaderLen)
      BY <1>2, <3>2 DEF PlainHeader, TypeOK
    <3>3. QED
      BY <3>1, <3>2
  <2>3. QED
    BY <1>2, <2>1, <2>2 DEF PlainHeader, TypeOK, buildVars, keptVars
<1>3. CASE PlainBody
  <2>1. wire' \in Seq(Pieces)
    BY <1>1, <1>3, Taken DEF PlainBody
  <2>2. step' \in {"idle", "closing"} /\ handed' \in Seq(Msgs \cup {Damaged})
    <3>1. CASE wire = <<>>
      BY <1>3, <3>1 DEF PlainBody, TypeOK
    <3>2. CASE wire # <<>>
      BY <1>3, <3>2, BodyType DEF PlainBody, TypeOK
    <3>3. QED
      BY <3>1, <3>2
  <2>3. QED
    BY <1>3, <2>1, <2>2 DEF PlainBody, TypeOK, buildVars, keptVars
<1>4. QED
  BY <1>2, <1>3

LEMMA AesTypes == ASSUME TypeOK, AesKeptHeader \/ AesHeader \/ AesBody PROVE TypeOK'
<1>1. HeaderLen \in Nat /\ BodyLen \in Nat /\ wire \in Seq(Pieces)
  BY MsgLenType DEF TypeOK
<1>2. CASE AesKeptHeader
  <2>1. step' \in {"idle", "body", "closing"} /\ spoiled' \subseteq {"short", "split", "big"}
    BY <1>2, HeaderType DEF AesKeptHeader, TypeOK
  <2>2. QED
    BY <1>2, <2>1 DEF AesKeptHeader, TypeOK, buildVars, keptVars
<1>3. CASE AesHeader
  <2>1. PICK n \in Nat : n = HeaderLen - Len(received_header) /\ n > 0
    <3>1. HeaderLen - Len(received_header) \in Nat
      BY <1>1 DEF TypeOK
    <3>2. HeaderLen - Len(received_header) > 0
      BY <1>3 DEF AesHeader
    <3>3. QED
      BY <3>1, <3>2
  <2>2. wire' \in Seq(Pieces)
    BY <1>1, <1>3, <2>1, Taken DEF AesHeader
  <2>3. CASE SaysAll(n)
    <3>1. received_header' = received_header \o Filled(n) /\ TakeHeader(received_header', Short(n))
      BY <1>3, <2>1, <2>3 DEF AesHeader
    <3>2. received_header' \in Seq(Pieces) /\ Len(received_header') = HeaderLen
      <4>1. PICK f \in Seq(Pieces) : f = Filled(n) /\ Len(f) = n
        BY <1>1, FilledType
      <4>2. received_header' \in Seq(Pieces)
            /\ Len(received_header') = Len(received_header) + Len(f)
        BY <3>1, <4>1, PieceCat DEF TypeOK
      <4>3. QED
        BY <1>1, <2>1, <4>1, <4>2 DEF TypeOK
    <3>3. step' \in {"idle", "body", "closing"} /\ spoiled' \subseteq {"short", "split", "big"}
      BY <3>1, ShortType, HeaderType DEF TypeOK
    <3>4. QED
      BY <1>1, <1>3, <2>2, <3>2, <3>3 DEF AesHeader, TypeOK, buildVars, keptVars
  <2>4. CASE ~ SaysAll(n)
    <3>1. received_header' = received_header \o Got(n) /\ UNCHANGED <<step, spoiled>>
      BY <1>3, <2>1, <2>4 DEF AesHeader
    <3>2. received_header' \in Seq(Pieces) /\ Len(received_header') <= HeaderLen
      <4>1. PICK g \in Seq(Pieces) : g = Got(n) /\ Len(g) <= n
        BY <1>1, Taken
      <4>2. received_header' \in Seq(Pieces)
            /\ Len(received_header') = Len(received_header) + Len(g)
        BY <3>1, <4>1, PieceCat DEF TypeOK
      <4>3. QED
        BY <1>1, <2>1, <4>1, <4>2 DEF TypeOK
    <3>3. QED
      BY <1>3, <2>2, <3>1, <3>2 DEF AesHeader, TypeOK, buildVars, keptVars
  <2>5. QED
    BY <2>3, <2>4
<1>4. CASE AesBody
  <2>1. PICK n \in Nat : n = BodyLen - Len(received_body) /\ n > 0
    <3>1. BodyLen - Len(received_body) \in Nat /\ BodyLen - Len(received_body) > 0
      BY <1>1 DEF TypeOK
    <3>2. QED
      BY <3>1
  <2>2. wire' \in Seq(Pieces)
    BY <1>1, <1>4, <2>1, Taken DEF AesBody
  <2>3. spoiled' \subseteq {"short", "split", "big"}
    BY <1>4, <2>1, ShortType DEF AesBody, TypeOK
  <2>4. CASE SaysAll(n)
    <3>1. /\ TakeBody(received_body \o Filled(n))
          /\ received_header' = <<>> /\ received_body' = <<>>
      BY <1>4, <2>1, <2>4 DEF AesBody
    <3>2. step' \in {"idle", "closing"} /\ handed' \in Seq(Msgs \cup {Damaged})
      BY <3>1, BodyType DEF TypeOK
    <3>3. QED
      BY <1>4, <2>2, <2>3, <3>1, <3>2, MsgLenType, PieceNone DEF AesBody, TypeOK, buildVars
  <2>5. CASE ~ SaysAll(n)
    <3>1. /\ received_body' = received_body \o Got(n) /\ step' = "idle"
          /\ UNCHANGED <<received_header, handed>>
      BY <1>4, <2>1, <2>5 DEF AesBody
    <3>2. received_body' \in Seq(Pieces) /\ Len(received_body') < BodyLen
      <4>1. PICK g \in Seq(Pieces) : g = Got(n) /\ Len(g) < n
        <5>1. Got(n) \in Seq(Pieces) /\ Len(Got(n)) <= n /\ Len(Got(n)) # n
          BY <1>1, <2>5, Taken DEF SaysAll
        <5>2. QED
          BY <5>1
      <4>2. received_body' \in Seq(Pieces)
            /\ Len(received_body') = Len(received_body) + Len(g)
        BY <3>1, <4>1, PieceCat DEF TypeOK
      <4>3. QED
        BY <1>1, <2>1, <4>1, <4>2 DEF TypeOK
    <3>3. QED
      BY <1>4, <2>2, <2>3, <3>1, <3>2 DEF AesBody, TypeOK, buildVars
  <2>6. QED
    BY <2>4, <2>5
<1>5. QED
  BY <1>2, <1>3, <1>4

LEMMA TlsTypes == ASSUME TypeOK, TlsPart \/ TlsHeader \/ TlsBody PROVE TypeOK'
<1>1. /\ MsgLen \in Nat /\ HeaderLen \in Nat /\ BodyLen \in Nat /\ MsgLen > 0
      /\ wire \in Seq(Pieces) /\ opened \in Seq(Pieces) /\ record \in Seq(Pieces)
  BY MsgLenType DEF TypeOK
<1>2. PICK n \in Nat : n = MsgLen - Len(record) /\ n > 0
  <2>1. MsgLen - Len(record) \in Nat /\ MsgLen - Len(record) > 0
    BY <1>1 DEF TypeOK
  <2>2. QED
    BY <2>1
<1>3. PICK g \in Seq(Pieces) : g = Got(n) /\ Len(g) <= n
  BY <1>1, Taken
<1>4. Rest(n) \in Seq(Pieces)
  BY <1>1, Taken
<1>5. record \o g \in Seq(Pieces) /\ Len(record \o g) = Len(record) + Len(g)
  BY <1>1, PieceCat
<1>6. CASE TlsPart
  <2>1. CASE SaysAll(n)
    BY <1>2, <1>4, <1>6, <2>1, ShortType DEF TlsPart, TypeOK, buildVars
  <2>2. CASE ~ SaysAll(n)
    <3>1. record' = record \o g /\ UNCHANGED <<step, spoiled>>
      BY <1>2, <1>3, <1>6, <2>2 DEF TlsPart
    <3>2. Len(g) < n
      BY <1>3, <2>2 DEF SaysAll
    <3>3. record' \in Seq(Pieces) /\ Len(record') < MsgLen
      BY <1>1, <1>2, <1>5, <3>1, <3>2
    <3>4. QED
      BY <1>2, <1>4, <1>6, <3>1, <3>3 DEF TlsPart, TypeOK, buildVars
  <2>3. QED
    BY <2>1, <2>2
<1>7. CASE TlsHeader
  <2>1. PICK text \in Seq(Pieces) :
            text = IF opened # <<>> THEN opened ELSE record \o g
    BY <1>1, <1>5
  <2>2. PICK k \in 0 .. Len(text) : k = IF Len(text) < HeaderLen THEN Len(text) ELSE HeaderLen
    BY <1>1, SMTT(30)
  <2>3. opened' = SubSeq(text, k + 1, Len(text)) /\ TakeHeader(SubSeq(text, 1, k), {})
    BY <1>2, <1>3, <1>7, <2>1, <2>2 DEF TlsHeader
  <2>4. opened' \in Seq(Pieces)
    BY <2>3, PieceSplit
  <2>5. step' \in {"idle", "body", "closing"} /\ spoiled' \subseteq {"short", "split", "big"}
    <3>1. {} \in SUBSET {"short"}
      OBVIOUS
    <3>2. QED
      BY <2>3, <3>1, HeaderType DEF TypeOK
  <2>6. /\ wire' \in Seq(Pieces) /\ record' \in Seq(Pieces) /\ Len(record') < MsgLen
    BY <1>1, <1>2, <1>4, <1>7, PieceNone DEF TlsHeader, TypeOK
  <2>7. QED
    BY <1>7, <2>4, <2>5, <2>6 DEF TlsHeader, TypeOK, buildVars
<1>8. CASE TlsBody
  <2>1. opened' \in Seq(Pieces)
    <3>1. opened' = SubSeq(opened, BodyLen + 1, Len(opened))
      BY <1>8 DEF TlsBody
    <3>2. QED
      BY <1>1, <3>1
  <2>2. step' \in {"idle", "closing"} /\ handed' \in Seq(Msgs \cup {Damaged})
    BY <1>8, BodyType DEF TlsBody, TypeOK
  <2>3. QED
    BY <1>8, <2>1, <2>2 DEF TlsBody, TypeOK, buildVars
<1>9. QED
  BY <1>6, <1>7, <1>8

LEMMA TypesStart == ASSUME Init PROVE TypeOK
<1>1. <<>> \in Seq(Pieces) /\ Len(<<>>) = 0
  BY PieceNone
<1>2. QED
  BY <1>1, MsgLenType DEF Init, TypeOK

LEMMA TypesNext == ASSUME TypeOK, [Next]_vars PROVE TypeOK'
<1>1. CASE Read
  BY <1>1, PlainTypes, AesTypes, TlsTypes DEF Read
<1>2. CASE EngineStops
  BY <1>2 DEF EngineStops, TypeOK, buildVars, keptVars
<1>3. CASE Reconnect
  <2>1. <<>> \in Seq(Pieces) /\ Len(<<>>) = 0
    BY PieceNone
  <2>2. QED
    BY <1>3, <2>1, MsgLenType DEF Reconnect, TypeOK, buildVars
<1>4. CASE UNCHANGED vars
  BY <1>4 DEF vars, TypeOK, buildVars, keptVars
<1>5. QED
  BY <1>1, <1>2, <1>3, <1>4, SendTypes, ArriveTypes DEF Next

\* Wherever the stream is cut and whatever the bytes are taken for, the transport
\* keeps no more of a message than its fields have room for, and what is handed to
\* the CoAP library is a message of the cloud or is known to be damaged
\* (duer_trans_aes_cbc_encrypted_recv, duer_trans_encrypted_recv, duer_coap_recv).
THEOREM CoapTypeOK == Spec => []TypeOK
BY TypesStart, TypesNext, PTL DEF Spec

-----------------------------------------------------------------------------
(* The stream: what the steps have in common. *)

\* The last message that was sent is one of Msgs, and the one that is read comes
\* before its end.
LEMMA ComingIsMsg ==
  ASSUME TypeOK, CoapInv, spoiled = {}, step # "closing",
         (step = "body" /\ transport # "aes") \/ Pending # <<>>, Pending \in Seq(Pieces)
  PROVE  Coming \in Msgs /\ Coming <= Len(accepted)
<1> USE MsgLenType
<1>1. PICK a \in Nat : a = Len(accepted) + 1
  BY DEF TypeOK
<1>2. PICK m \in Nat : m = Coming /\ m > 0
  BY DEF Coming, TypeOK
<1>3. PICK j \in 1 .. MsgLen :
          j = IF step = "body" /\ transport # "aes" THEN HeaderLen + 1 ELSE 1
  OBVIOUS
<1>4. Leads(<<m, j>>, Pending, <<a, 1>>)
  BY <1>1, <1>2, <1>3 DEF CoapInv, StreamInv, Expected
<1>5. Pending # <<>> \/ j > 1
  BY <1>3
<1>6. m < a
  BY <1>4, <1>5, LeadsForward
<1>7. Len(accepted) \in Nat /\ Len(accepted) > 0
  BY <1>1, <1>2, <1>6
<1>8. Len(accepted) <= MaxMsgs
  <2>1. PICK k \in 1 .. Len(accepted) : k = Len(accepted)
    BY <1>7
  <2>2. accepted[k] = k /\ accepted[k] \in Msgs
    BY DEF TypeOK, CoapInv, Numbered
  <2>3. QED
    BY <2>1, <2>2 DEF Msgs
<1>9. QED
  BY <1>1, <1>2, <1>6, <1>7, <1>8 DEF Msgs

LEMMA KeptType == ASSUME TypeOK PROVE Kept \in Seq(Pieces) /\ Pending \in Seq(Pieces)
<1>1. Kept \in Seq(Pieces)
  BY PieceCat, PieceNone DEF Kept, TypeOK
<1>2. wire \o net \in Seq(Pieces)
  BY PieceCat DEF TypeOK
<1>3. QED
  BY <1>1, <1>2, PieceCat DEF Pending

\* Reading moves pieces from the socket to what comes before it.
LEMMA ReadMoves ==
  ASSUME TypeOK, NEW n \in Nat, NEW k \in Seq(Pieces)
  PROVE  /\ k \o (wire \o net) = (k \o Got(n)) \o (Rest(n) \o net)
         /\ k \o Got(n) \in Seq(Pieces) /\ Rest(n) \o net \in Seq(Pieces)
         /\ Len(k \o Got(n)) = Len(k) + Len(Got(n))
<1>1. wire \in Seq(Pieces) /\ net \in Seq(Pieces)
  BY DEF TypeOK
<1>2. PICK g \in Seq(Pieces), r \in Seq(Pieces) :
          g = Got(n) /\ r = Rest(n) /\ g \o r = wire
  BY <1>1, Taken
<1>3. r \o net \in Seq(Pieces) /\ k \o g \in Seq(Pieces) /\ Len(k \o g) = Len(k) + Len(g)
  BY <1>1, PieceCat
<1>4. (g \o r) \o net = g \o (r \o net)
  BY <1>1, PieceAssoc, ZenonT(30)
<1>5. k \o (g \o (r \o net)) = (k \o g) \o (r \o net)
  BY <1>3, PieceAssoc
<1>6. QED
  BY <1>2, <1>3, <1>4, <1>5, Zenon

\* A header that is whole and in its place is taken for what it is.
LEMMA HeaderGood ==
  ASSUME NEW m \in Msgs, NEW why, TakeHeader(Header(m), why)
  PROVE  /\ spoiled' = {} => spoiled = {} /\ why = {} /\ step' = "body"
         /\ spoiled = {} /\ why = {} /\ big = {} => spoiled' = {}
<1>1. Header(m)[1][1] = m
  BY MessageTold
<1>2. QED
  BY <1>1 DEF TakeHeader

LEMMA HeaderCalm ==
  ASSUME NEW h, NEW why, TakeHeader(h, why)
  PROVE  /\ why \subseteq spoiled' /\ spoiled \subseteq spoiled'
         /\ why = {} /\ big = {} => spoiled' = spoiled
<1>1. CASE big = {}
  BY <1>1 DEF TakeHeader
<1>2. CASE big # {}
  BY <1>2 DEF TakeHeader
<1>3. QED
  BY <1>1, <1>2

\* A body that is whole and in its place is handed on.
LEMMA BodyGood ==
  ASSUME TypeOK, NEW m \in Msgs, m = Coming, TakeBody(Body(m)), Numbered(handed)
  PROVE  /\ step' = "idle" /\ Numbered(handed')
         /\ Len(handed') = Len(handed) + 1 /\ Len(handed') = m
<1>1. handed' = Append(handed, m) /\ step' = "idle"
  BY MessageTold DEF TakeBody
<1>2. /\ Len(handed') = Len(handed) + 1 /\ handed'[Len(handed) + 1] = m
      /\ \A i \in 1 .. Len(handed) : handed'[i] = handed[i]
  BY <1>1 DEF TypeOK
<1>3. QED
  BY <1>1, <1>2 DEF Numbered, Coming, TypeOK

LEMMA SaysGot ==
  ASSUME TypeOK, NEW n \in Nat, SaysAll(n)
  PROVE  /\ Short(n) = {} => Len(Got(n)) = n
         /\ counts => Short(n) = {}
<1>1. Len(Got(n)) \in Nat /\ Len(Got(n)) <= n
  BY Taken DEF TypeOK
<1>2. QED
  BY <1>1, ShortType DEF SaysAll

-----------------------------------------------------------------------------
(* The stream, step by step. *)

Kin == KeptInv /\ CalmInv /\ StreamInv

LEMMA SendStream == ASSUME TypeOK, CoapInv, CloudSends PROVE CoapInv'
<1>1. PICK m \in Msgs : m = Len(accepted) + 1
  BY MsgLenType DEF CloudSends, TypeOK, Msgs
<1>2. accepted' = Append(accepted, m) /\ step # "closing"
      /\ UNCHANGED <<buildVars, wire, keptVars, step, handed, spoiled>>
      /\ (big' = {} => big = {})
  BY <1>1 DEF CloudSends
<1>3. Numbered(accepted') /\ Len(accepted') = Len(accepted) + 1 /\ Len(accepted) \in Nat
  <2>1. /\ Len(accepted') = Len(accepted) + 1 /\ accepted'[Len(accepted) + 1] = m
        /\ \A i \in 1 .. Len(accepted) : accepted'[i] = accepted[i]
    BY <1>2 DEF TypeOK
  <2>2. Len(accepted) \in Nat /\ \A i \in 1 .. Len(accepted) : accepted[i] = i
    BY DEF Numbered, CoapInv, TypeOK
  <2>3. ASSUME NEW i \in 1 .. Len(accepted') PROVE accepted'[i] = i
    <3>1. CASE i <= Len(accepted)
      BY <2>1, <2>2, <3>1
    <3>2. CASE i = Len(accepted) + 1
      BY <1>1, <2>1, <3>2
    <3>3. QED
      BY <2>1, <2>2, <3>1, <3>2
  <2>4. QED
    BY <2>1, <2>2, <2>3 DEF Numbered
<1>4. KeptInv' /\ CalmInv'
  BY <1>2 DEF CoapInv, KeptInv, CalmInv, buildVars, keptVars
<1>5. ASSUME spoiled' = {} PROVE Leads(Expected, Pending, <<Len(accepted) + 1, 1>>)'
  <2>1. PICK h \in Seq(Pieces), b \in Seq(Pieces), hb \in Seq(Pieces) :
            h = Header(m) /\ b = Body(m) /\ hb = h \o b
    BY MessageLeads, PieceCat
  <2>2. Leads(<<m, 1>>, hb, <<m + 1, 1>>)
    BY <2>1, MessageLeads
  <2>3. Leads(Expected, Pending, <<m, 1>>)
    BY <1>1, <1>2, <1>5 DEF CoapInv, StreamInv
  <2>4. Leads(Expected, Pending \o hb, <<m + 1, 1>>)
    BY <2>2, <2>3, KeptType, LeadsOn
  <2>5. net' = net \o hb
    <3>1. net' = (net \o h) \o b
      BY <1>1, <2>1 DEF CloudSends
    <3>2. (net \o h) \o b = net \o (h \o b)
      <4>1. net \in Seq(Pieces)
        BY DEF TypeOK
      <4>2. QED
        BY <4>1, PieceAssoc
    <3>3. QED
      BY <2>1, <3>1, <3>2, Zenon
  <2>6. Pending' = Pending \o hb
    <3>1. Kept' = Kept /\ wire' = wire
      BY <1>2 DEF Kept, keptVars, buildVars
    <3>2. PICK k \in Seq(Pieces), x \in Seq(Pieces) : k = Kept /\ x = wire \o net
      BY KeptType, PieceCat DEF TypeOK
    <3>3. wire \o (net \o hb) = x \o hb
      <4>1. (wire \o net) \o hb = wire \o (net \o hb)
        <5>1. PICK w \in Seq(Pieces), q \in Seq(Pieces) : w = wire /\ q = net
          BY DEF TypeOK
        <5>2. (w \o q) \o hb = w \o (q \o hb)
          BY PieceAssoc, ZenonT(30)
        <5>3. QED
          BY <5>1, <5>2, Zenon
      <4>2. QED
        BY <3>2, <4>1, Zenon
    <3>4. k \o (x \o hb) = (k \o x) \o hb
      BY PieceAssoc
    <3>5. QED
      BY <2>5, <3>1, <3>2, <3>3, <3>4, Zenon DEF Pending
  <2>7. Expected' = Expected /\ <<Len(accepted') + 1, 1>> = <<m + 1, 1>>
    BY <1>1, <1>2, <1>3 DEF Expected, Coming, buildVars
  <2>8. QED
    BY <2>4, <2>6, <2>7
<1>6. StreamInv'
  BY <1>2, <1>3, <1>5 DEF StreamInv, CoapInv, TypeOK
<1>7. QED
  BY <1>3, <1>4, <1>6 DEF CoapInv

LEMMA ArriveStream == ASSUME TypeOK, CoapInv, Arrive PROVE CoapInv'
<1>1. wire' \o net' = wire \o net
  BY ArriveTypes
<1>2. UNCHANGED <<buildVars, keptVars, step, big, accepted, handed, spoiled>>
  BY DEF Arrive
<1>3. Kept' = Kept /\ Expected' = Expected
  BY <1>2 DEF Kept, Expected, Coming, buildVars, keptVars
<1>4. Pending' = Pending
  BY <1>1, <1>3 DEF Pending
<1>5. QED
  BY <1>2, <1>3, <1>4 DEF CoapInv, KeptInv, CalmInv, StreamInv, buildVars, keptVars

LEMMA PlainHeaderStream == ASSUME TypeOK, CoapInv, PlainHeader PROVE Kin'
<1> USE MsgLenType
<1>1. transport = "plain" /\ step = "idle" /\ wire # <<>> /\ wire' = Rest(HeaderLen)
      /\ UNCHANGED <<buildVars, net, keptVars, big, accepted, handed>>
  BY DEF PlainHeader
<1>2. KeptInv' /\ CalmInv'
  BY <1>1 DEF KeptInv, CalmInv, buildVars
<1>3. ASSUME spoiled' = {} PROVE StreamInv'
  <2>1. SaysAll(HeaderLen) /\ TakeHeader(Filled(HeaderLen), Short(HeaderLen))
    BY <1>3 DEF PlainHeader
  <2>2. Short(HeaderLen) = {} /\ spoiled = {}
    BY <1>3, <2>1, HeaderCalm
  <2>3. PICK g \in Seq(Pieces) : g = Got(HeaderLen) /\ Len(g) = HeaderLen
    BY <2>1, <2>2, SaysGot, Taken DEF TypeOK
  <2>4. Filled(HeaderLen) = g
    BY <2>3, FilledType DEF TypeOK
  <2>5. PICK r \in Seq(Pieces) : r = Rest(HeaderLen) \o net
    BY ReadMoves, PieceNone
  <2>6. Pending = g \o r
    <3>1. Kept = <<>>
      BY <1>1 DEF Kept
    <3>2. Pending = (<<>> \o g) \o r
      BY <2>3, <2>5, <3>1, ReadMoves, PieceNone DEF Pending
    <3>3. QED
      BY <3>2, PieceNone
  <2>7. Pending' = r
    <3>1. Kept' = <<>> /\ net' = net
      BY <1>1 DEF Kept, buildVars
    <3>2. QED
      BY <1>1, <2>5, <3>1, PieceNone DEF Pending
  <2>8. Pending # <<>>
    BY <2>3, <2>6, PieceCat, PieceNone
  <2>9. Coming \in Msgs
    BY <1>1, <2>2, <2>8, KeptType, ComingIsMsg
  <2>10. PICK m \in Nat : m = Coming
    BY <2>9 DEF Msgs
  <2>11. Leads(<<m, 1>>, g \o r, <<Len(accepted) + 1, 1>>)
    BY <1>1, <2>2, <2>6, <2>10 DEF CoapInv, StreamInv, Expected
  <2>12. g = Header(m) /\ Leads(<<m, HeaderLen + 1>>, r, <<Len(accepted) + 1, 1>>)
    BY <2>3, <2>11, HeaderTaken
  <2>13. step' = "body"
    BY <1>3, <2>1, <2>4, <2>9, <2>10, <2>12, HeaderGood
  <2>14. Expected' = <<m, HeaderLen + 1>>
    BY <1>1, <2>10, <2>13 DEF Expected, Coming, buildVars
  <2>15. QED
    BY <1>1, <2>2, <2>7, <2>12, <2>14 DEF CoapInv, StreamInv
<1>4. QED
  BY <1>2, <1>3 DEF Kin, StreamInv

LEMMA PlainBodyStream == ASSUME TypeOK, CoapInv, PlainBody PROVE Kin'
<1> USE MsgLenType
<1>1. transport = "plain" /\ step = "body" /\ wire' = Rest(BodyLen)
      /\ UNCHANGED <<buildVars, net, keptVars, big, accepted>>
  BY DEF PlainBody
<1>2. KeptInv' /\ CalmInv'
  BY <1>1 DEF KeptInv, CalmInv, buildVars
<1>3. ASSUME spoiled' = {} PROVE StreamInv'
  <2>1. Len(wire) >= BodyLen /\ spoiled = {}
    BY <1>3 DEF PlainBody, TypeOK
  <2>2. wire # <<>> /\ TakeBody(Filled(BodyLen))
    BY <2>1, PieceNone DEF PlainBody
  <2>3. PICK g \in Seq(Pieces) : g = Got(BodyLen) /\ Len(g) = BodyLen
    BY <2>1, Taken DEF TypeOK
  <2>4. Filled(BodyLen) = g
    BY <2>3, FilledType DEF TypeOK
  <2>5. PICK r \in Seq(Pieces) : r = Rest(BodyLen) \o net
    BY ReadMoves, PieceNone
  <2>6. Pending = g \o r
    <3>1. Kept = <<>>
      BY <1>1 DEF Kept
    <3>2. Pending = (<<>> \o g) \o r
      BY <2>3, <2>5, <3>1, ReadMoves, PieceNone DEF Pending
    <3>3. QED
      BY <3>2, PieceNone
  <2>7. Pending' = r
    <3>1. Kept' = <<>> /\ net' = net
      BY <1>1 DEF Kept, buildVars
    <3>2. QED
      BY <1>1, <2>5, <3>1, PieceNone DEF Pending
  <2>9. Coming \in Msgs /\ Coming <= Len(accepted)
    BY <1>1, <2>1, KeptType, ComingIsMsg
  <2>10. PICK m \in Nat : m = Coming
    BY <2>9 DEF Msgs
  <2>11. Leads(<<m, HeaderLen + 1>>, g \o r, <<Len(accepted) + 1, 1>>)
    BY <1>1, <2>1, <2>6, <2>10 DEF CoapInv, StreamInv, Expected
  <2>12. g = Body(m) /\ Leads(<<m + 1, 1>>, r, <<Len(accepted) + 1, 1>>)
    BY <2>3, <2>11, BodyTaken
  <2>13. step' = "idle" /\ Numbered(handed') /\ Len(handed') = m
    BY <2>1, <2>2, <2>4, <2>9, <2>10, <2>12, BodyGood DEF CoapInv, StreamInv
  <2>14. Expected' = <<m + 1, 1>>
    BY <1>1, <2>13 DEF Expected, Coming
  <2>15. QED
    BY <1>1, <2>7, <2>9, <2>10, <2>12, <2>13, <2>14 DEF StreamInv
<1>4. QED
  BY <1>2, <1>3 DEF Kin, StreamInv

LEMMA AesKeptHeaderStream == ASSUME TypeOK, CoapInv, AesKeptHeader PROVE Kin'
<1> USE MsgLenType
<1>1. /\ transport = "aes" /\ step = "idle" /\ Len(received_header) = HeaderLen
      /\ TakeHeader(received_header, {})
      /\ UNCHANGED <<buildVars, net, wire, keptVars, big, accepted, handed>>
  BY DEF AesKeptHeader
<1>2. KeptInv' /\ CalmInv'
  BY <1>1, HeaderCalm DEF KeptInv, CalmInv, CoapInv, buildVars, keptVars
<1>3. ASSUME spoiled' = {} PROVE StreamInv'
  <2>1. spoiled = {}
    BY <1>1, <1>3, HeaderCalm
  <2>2. Kept' = Kept /\ Pending' = Pending
    BY <1>1 DEF Kept, Pending, buildVars, keptVars
  <2>3. QED
    BY <1>1, <2>1, <2>2, HeaderType DEF CoapInv, StreamInv, Expected, Coming, buildVars
<1>4. QED
  BY <1>2, <1>3 DEF Kin, StreamInv

LEMMA AesHeaderStream == ASSUME TypeOK, CoapInv, AesHeader PROVE Kin'
<1> USE MsgLenType
<1>1. PICK n \in Nat : n = HeaderLen - Len(received_header) /\ n > 0
  <2>1. HeaderLen - Len(received_header) \in Nat
    BY DEF TypeOK
  <2>2. HeaderLen - Len(received_header) > 0
    BY DEF AesHeader
  <2>3. QED
    BY <2>1, <2>2
<1>2. /\ transport = "aes" /\ step = "idle" /\ wire' = Rest(n)
      /\ UNCHANGED <<buildVars, net, received_body, record, opened, big, accepted, handed>>
  BY <1>1 DEF AesHeader
<1>3. received_body = <<>>
  BY <1>1, <1>2 DEF CoapInv, KeptInv
<1>4. \/ /\ SaysAll(n) /\ received_header' = received_header \o Filled(n)
         /\ TakeHeader(received_header', Short(n))
      \/ /\ ~ SaysAll(n) /\ received_header' = received_header \o Got(n)
         /\ UNCHANGED <<step, spoiled>>
  BY <1>1 DEF AesHeader
<1>5. KeptInv'
  <2>1. ASSUME step' = "body" PROVE Len(received_header') = HeaderLen
    <3>1. PICK f \in Seq(Pieces) : f = Filled(n) /\ Len(f) = n
      BY FilledType DEF TypeOK
    <3>2. received_header' = received_header \o f
      BY <1>2, <1>4, <2>1, <3>1
    <3>3. Len(received_header') = Len(received_header) + Len(f)
      BY <3>2, PieceCat DEF TypeOK
    <3>4. QED
      BY <1>1, <3>1, <3>3 DEF TypeOK
  <2>2. QED
    BY <1>2, <1>3, <2>1 DEF KeptInv, buildVars
<1>6. CalmInv'
  <2>1. SUFFICES ASSUME counts, big = {}, spoiled = {} PROVE spoiled' = {}
    BY <1>2 DEF CalmInv, CoapInv, buildVars
  <2>2. CASE SaysAll(n)
    BY <1>4, <2>1, <2>2, SaysGot, HeaderCalm
  <2>3. CASE ~ SaysAll(n)
    BY <1>4, <2>1, <2>3
  <2>4. QED
    BY <2>2, <2>3
<1>7. ASSUME spoiled' = {} PROVE StreamInv'
  <2>1. /\ spoiled = {} /\ received_header' = received_header \o Got(n)
        /\ step' \in {"idle", "body", "closing"}
    <3>1. CASE SaysAll(n)
      <4>1. TakeHeader(received_header', Short(n))
            /\ received_header' = received_header \o Filled(n)
        BY <1>4, <3>1
      <4>2. spoiled = {} /\ Short(n) = {}
        BY <1>7, <4>1, HeaderCalm
      <4>3. Filled(n) = Got(n)
        BY <3>1, <4>2, SaysGot, FilledType DEF TypeOK
      <4>4. step' \in {"idle", "body", "closing"}
        BY <4>1 DEF TakeHeader
      <4>5. QED
        BY <4>1, <4>2, <4>3, <4>4
    <3>2. CASE ~ SaysAll(n)
      BY <1>2, <1>4, <1>7, <3>2
    <3>3. QED
      BY <3>1, <3>2
  <2>2. PICK k \in Seq(Pieces) : k = received_header
    BY DEF TypeOK
  <2>3. Kept = k /\ Kept' = k \o Got(n)
    <3>1. k \o Got(n) \in Seq(Pieces)
      BY ReadMoves
    <3>2. k \o <<>> = k /\ (k \o Got(n)) \o <<>> = k \o Got(n)
      BY <3>1, PieceNone
    <3>3. QED
      BY <1>2, <1>3, <2>1, <2>2, <3>2 DEF Kept, buildVars
  <2>4. Pending' = Pending
    <3>1. k \o (wire \o net) = (k \o Got(n)) \o (Rest(n) \o net)
      BY ReadMoves
    <3>2. wire' = Rest(n) /\ net' = net
      BY <1>2
    <3>3. QED
      BY <2>3, <3>1, <3>2, Zenon DEF Pending
  <2>5. QED
    BY <1>2, <2>1, <2>4 DEF CoapInv, StreamInv, Expected, Coming, buildVars
<1>8. QED
  BY <1>5, <1>6, <1>7 DEF Kin, StreamInv

LEMMA AesBodyStream == ASSUME TypeOK, CoapInv, AesBody PROVE Kin'
<1> USE MsgLenType
<1>1. PICK n \in Nat : n = BodyLen - Len(received_body) /\ n > 0
  <2>1. BodyLen - Len(received_body) \in Nat /\ BodyLen - Len(received_body) > 0
    BY DEF TypeOK
  <2>2. QED
    BY <2>1
<1>2. /\ transport = "aes" /\ step = "body" /\ wire' = Rest(n)
      /\ spoiled' = spoiled \cup (IF SaysAll(n) THEN Short(n) ELSE {})
      /\ UNCHANGED <<buildVars, net, record, opened, big, accepted>>
  BY <1>1 DEF AesBody
<1>3. ASSUME SaysAll(n)
      PROVE  /\ TakeBody(received_body \o Filled(n))
             /\ received_header' = <<>> /\ received_body' = <<>>
  BY <1>1, <1>3 DEF AesBody
<1>4. ASSUME ~ SaysAll(n)
      PROVE  /\ received_body' = received_body \o Got(n) /\ step' = "idle"
             /\ UNCHANGED <<received_header, handed>>
  BY <1>1, <1>4 DEF AesBody
<1>5. Len(received_header) = HeaderLen
  BY <1>2 DEF CoapInv, KeptInv
<1>6. KeptInv'
  <2>1. CASE SaysAll(n)
    <3>1. step' # "body"
      BY <1>3, <2>1, BodyType DEF TypeOK
    <3>2. QED
      BY <1>2, <1>3, <2>1, <3>1 DEF KeptInv, buildVars
  <2>2. CASE ~ SaysAll(n)
    BY <1>2, <1>4, <1>5, <2>2 DEF KeptInv, buildVars
  <2>3. QED
    BY <2>1, <2>2
<1>7. CalmInv'
  BY <1>2, SaysGot DEF CalmInv, CoapInv, buildVars
<1>8. ASSUME spoiled' = {} PROVE StreamInv'
  <2>1. spoiled = {}
    BY <1>2, <1>8
  <2>2. PICK h \in Seq(Pieces), b \in Seq(Pieces), bg \in Seq(Pieces), r \in Seq(Pieces) :
            /\ h = received_header /\ b = received_body /\ bg = b \o Got(n)
            /\ r = Rest(n) \o net /\ Len(bg) = Len(b) + Len(Got(n))
            /\ b \o (wire \o net) = bg \o r
    <3>1. received_header \in Seq(Pieces) /\ received_body \in Seq(Pieces)
      BY DEF TypeOK
    <3>2. PICK b \in Seq(Pieces) : b = received_body
      BY <3>1
    <3>3. /\ b \o (wire \o net) = (b \o Got(n)) \o (Rest(n) \o net)
          /\ b \o Got(n) \in Seq(Pieces) /\ Rest(n) \o net \in Seq(Pieces)
          /\ Len(b \o Got(n)) = Len(b) + Len(Got(n))
      BY ReadMoves
    <3>4. QED
      BY <3>1, <3>2, <3>3, Zenon
  <2>3. wire' \o net' = r
    BY <1>2, <2>2
  <2>4. Kept = h \o b
    BY <1>2, <2>2 DEF Kept
  <2>5. Pending = h \o (bg \o r)
    <3>1. PICK x \in Seq(Pieces) : x = wire \o net
      BY PieceCat DEF TypeOK
    <3>2. (h \o b) \o x = h \o (b \o x)
      BY PieceAssoc, ZenonT(30)
    <3>3. QED
      BY <2>2, <2>4, <3>1, <3>2, Zenon DEF Pending
  <2>6. CASE ~ SaysAll(n)
    <3>1. Kept' = h \o bg
      BY <1>2, <1>4, <2>2, <2>6 DEF Kept, buildVars
    <3>2. (h \o bg) \o r = h \o (bg \o r)
      BY PieceAssoc
    <3>3. Pending' = Pending
      BY <2>3, <2>5, <3>1, <3>2, Zenon DEF Pending
    <3>4. QED
      BY <1>2, <1>4, <2>1, <2>6, <3>3 DEF CoapInv, StreamInv, Expected, Coming, buildVars
  <2>7. CASE SaysAll(n)
    <3>1. Len(Got(n)) = n /\ Filled(n) = Got(n)
      BY <1>2, <1>8, <2>7, SaysGot, FilledType DEF TypeOK
    <3>2. TakeBody(bg) /\ Len(bg) = BodyLen
      <4>1. TakeBody(bg)
        BY <1>3, <2>2, <2>7, <3>1
      <4>2. Len(bg) = BodyLen
        BY <1>1, <2>2, <3>1 DEF TypeOK
      <4>3. QED
        BY <4>1, <4>2
    <3>3. Pending # <<>>
      <4>1. bg \o r \in Seq(Pieces)
        BY PieceCat
      <4>2. Len(h \o (bg \o r)) = Len(h) + Len(bg \o r) /\ Len(bg \o r) \in Nat
        BY <4>1, PieceCat
      <4>3. Len(h) > 0
        BY <1>5, <2>2
      <4>4. QED
        BY <2>5, <4>2, <4>3, PieceNone
    <3>4. Coming \in Msgs /\ Coming <= Len(accepted)
      BY <1>2, <2>1, <3>3, KeptType, ComingIsMsg
    <3>5. PICK m \in Nat : m = Coming
      BY <3>4 DEF Msgs
    <3>6. Leads(<<m, 1>>, h \o (bg \o r), <<Len(accepted) + 1, 1>>)
      BY <1>2, <2>1, <2>5, <3>5 DEF CoapInv, StreamInv, Expected
    <3>7. PICK br \in Seq(Pieces) : br = bg \o r
      BY PieceCat
    <3>8. Leads(<<m, HeaderLen + 1>>, bg \o r, <<Len(accepted) + 1, 1>>)
      BY <1>5, <2>2, <3>6, <3>7, HeaderTaken
    <3>9. bg = Body(m) /\ Leads(<<m + 1, 1>>, r, <<Len(accepted) + 1, 1>>)
      BY <3>2, <3>8, BodyTaken
    <3>10. step' = "idle" /\ Numbered(handed') /\ Len(handed') = m
      BY <2>1, <3>2, <3>4, <3>5, <3>9, BodyGood DEF CoapInv, StreamInv
    <3>11. Expected' = <<m + 1, 1>>
      BY <1>2, <3>10 DEF Expected, Coming
    <3>12. Pending' = r
      <4>1. Kept' = <<>>
        BY <1>2, <1>3, <2>7, PieceNone DEF Kept, buildVars
      <4>2. QED
        BY <2>3, <4>1, PieceNone DEF Pending
    <3>13. QED
      BY <1>2, <3>4, <3>5, <3>9, <3>10, <3>11, <3>12 DEF StreamInv
  <2>8. QED
    BY <2>6, <2>7
<1>9. QED
  BY <1>6, <1>7, <1>8 DEF Kin, StreamInv

LEMMA TlsPartStream == ASSUME TypeOK, CoapInv, TlsPart PROVE Kin'
<1> USE MsgLenType
<1>1. PICK n \in Nat : n = MsgLen - Len(record)
  <2>1. MsgLen - Len(record) \in Nat
    BY DEF TypeOK
  <2>2. QED
    BY <2>1
<1>2. /\ transport = "tls" /\ step = "idle" /\ opened = <<>> /\ wire' = Rest(n)
      /\ UNCHANGED <<buildVars, net, received_header, received_body, opened, big,
                     accepted, handed>>
      /\ \/ ~ SaysAll(n) /\ record' = record \o Got(n) /\ UNCHANGED <<step, spoiled>>
         \/ /\ SaysAll(n) /\ Short(n) # {}
            /\ step' = "closing" /\ spoiled' = spoiled \cup Short(n)
  BY <1>1 DEF TlsPart
<1>3. KeptInv'
  BY <1>2 DEF KeptInv, buildVars
<1>4. CalmInv'
  BY <1>2, SaysGot DEF CalmInv, CoapInv, buildVars
<1>5. ASSUME spoiled' = {} PROVE StreamInv'
  <2>1. record' = record \o Got(n) /\ UNCHANGED <<step, spoiled>>
    BY <1>2, <1>5
  <2>2. PICK k \in Seq(Pieces) : k = record
    BY DEF TypeOK
  <2>3. Kept = k /\ Kept' = k \o Got(n)
    <3>1. k \o Got(n) \in Seq(Pieces)
      BY ReadMoves
    <3>2. <<>> \o k = k /\ <<>> \o (k \o Got(n)) = k \o Got(n)
      BY <3>1, PieceNone
    <3>3. QED
      BY <1>2, <2>1, <2>2, <3>2 DEF Kept, buildVars
  <2>4. Pending' = Pending
    <3>1. k \o (wire \o net) = (k \o Got(n)) \o (Rest(n) \o net)
      BY ReadMoves
    <3>2. wire' = Rest(n) /\ net' = net
      BY <1>2
    <3>3. QED
      BY <2>3, <3>1, <3>2, Zenon DEF Pending
  <2>5. QED
    BY <1>2, <1>5, <2>1, <2>4 DEF CoapInv, StreamInv, Expected, Coming, buildVars
<1>6. QED
  BY <1>3, <1>4, <1>5 DEF Kin, StreamInv

LEMMA TlsHeaderStream == ASSUME TypeOK, CoapInv, TlsHeader PROVE Kin'
<1> USE MsgLenType
<1>1. PICK n \in Nat : n = MsgLen - Len(record) /\ n > 0
  <2>1. MsgLen - Len(record) \in Nat /\ MsgLen - Len(record) > 0
    BY DEF TypeOK
  <2>2. QED
    BY <2>1
<1>2. /\ transport = "tls" /\ step = "idle"
      /\ UNCHANGED <<buildVars, net, received_header, received_body, big, accepted, handed>>
  BY DEF TlsHeader
<1>3. /\ spoiled \subseteq spoiled' /\ (big = {} => spoiled' = spoiled)
  BY HeaderCalm DEF TlsHeader
<1>4. CalmInv'
  BY <1>2, <1>3 DEF CalmInv, CoapInv, buildVars
<1>5. ASSUME spoiled' = {}
      PROVE  /\ step' = "body" /\ record' = <<>> /\ Len(opened') = BodyLen
             /\ StreamInv'
  <2>1. spoiled = {} /\ opened = <<>>
    BY <1>2, <1>3, <1>5 DEF CoapInv, KeptInv
  <2>2. /\ Len(record) + Len(wire) >= MsgLen /\ wire' = Rest(n) /\ record' = <<>>
    BY <1>1, <2>1 DEF TlsHeader
  <2>3. PICK text \in Seq(Pieces) :
            /\ text = record \o Got(n) /\ Len(text) = MsgLen
            /\ record \o (wire \o net) = text \o (Rest(n) \o net)
            /\ Rest(n) \o net \in Seq(Pieces)
    <3>1. PICK k \in Seq(Pieces) : k = record
      BY DEF TypeOK
    <3>2. /\ k \o (wire \o net) = (k \o Got(n)) \o (Rest(n) \o net)
          /\ k \o Got(n) \in Seq(Pieces) /\ Rest(n) \o net \in Seq(Pieces)
          /\ Len(k \o Got(n)) = Len(k) + Len(Got(n))
      BY ReadMoves
    <3>3. Len(wire) >= n
      BY <1>1, <2>2 DEF TypeOK
    <3>4. Len(Got(n)) = n
      BY <3>3, Taken DEF TypeOK
    <3>5. Len(k) + n = MsgLen
      BY <1>1, <3>1
    <3>6. PICK t \in Seq(Pieces) : t = k \o Got(n)
      BY <3>2
    <3>7. Len(t) = MsgLen
      BY <3>2, <3>4, <3>5, <3>6
    <3>8. QED
      BY <3>1, <3>2, <3>6, <3>7, Zenon
  <2>4. HeaderLen \in 0 .. Len(text) /\ ~ (Len(text) < HeaderLen)
    BY <2>3
  <2>5. PICK h \in Seq(Pieces), o \in Seq(Pieces) :
            /\ h = SubSeq(text, 1, HeaderLen) /\ Len(h) = HeaderLen
            /\ o = SubSeq(text, HeaderLen + 1, Len(text)) /\ Len(o) = Len(text) - HeaderLen
            /\ h \o o = text
    BY <2>4, PieceSplit, ZenonT(30)
  <2>6. opened' = o /\ TakeHeader(h, {})
    BY <1>1, <2>1, <2>3, <2>4, <2>5 DEF TlsHeader
  <2>7. Len(o) = BodyLen
    BY <2>3, <2>5
  <2>8. PICK r \in Seq(Pieces), or \in Seq(Pieces) : r = Rest(n) \o net /\ or = o \o r
    BY <2>3, PieceCat
  <2>9. Pending = h \o or
    <3>1. Kept = record
      BY <1>2, <2>1, PieceNone DEF Kept, TypeOK
    <3>2. (h \o o) \o r = h \o (o \o r)
      BY PieceAssoc, ZenonT(30)
    <3>3. QED
      BY <2>3, <2>5, <2>8, <3>1, <3>2, Zenon DEF Pending
  <2>10. Pending # <<>>
    <3>1. Len(h \o or) = Len(h) + Len(or) /\ Len(or) \in Nat
      BY PieceCat
    <3>2. Len(h) = HeaderLen
      BY <2>5
    <3>3. PICK p : p = h \o or
      OBVIOUS
    <3>4. Len(p) > 0 /\ Pending = p
      BY <2>9, <3>1, <3>2, <3>3
    <3>5. QED
      BY <3>4, PieceNone
  <2>11. Coming \in Msgs
    BY <1>2, <2>1, <2>10, KeptType, ComingIsMsg
  <2>12. PICK m \in Nat : m = Coming
    BY <2>11 DEF Msgs
  <2>13. Leads(<<m, 1>>, h \o or, <<Len(accepted) + 1, 1>>)
    BY <1>2, <2>1, <2>9, <2>12 DEF CoapInv, StreamInv, Expected
  <2>14. h = Header(m) /\ Leads(<<m, HeaderLen + 1>>, or, <<Len(accepted) + 1, 1>>)
    <3>1. Len(h) = HeaderLen
      BY <2>5
    <3>2. QED
      BY <2>13, <3>1, HeaderTaken
  <2>15. step' = "body"
    BY <1>5, <2>6, <2>11, <2>12, <2>14, HeaderGood
  <2>16. Expected' = <<m, HeaderLen + 1>>
    BY <1>2, <2>12, <2>15 DEF Expected, Coming, buildVars
  <2>17. Pending' = or
    <3>1. Kept' = o
      BY <1>2, <2>2, <2>6, PieceNone DEF Kept, buildVars
    <3>2. wire' \o net' = r
      BY <1>2, <2>2, <2>8
    <3>3. QED
      BY <2>8, <3>1, <3>2, Zenon DEF Pending
  <2>18. StreamInv'
    BY <1>2, <2>1, <2>14, <2>16, <2>17 DEF CoapInv, StreamInv
  <2>19. QED
    BY <2>2, <2>6, <2>7, <2>15, <2>18
<1>6. KeptInv'
  BY <1>2, <1>5 DEF KeptInv, buildVars
<1>7. QED
  BY <1>4, <1>5, <1>6 DEF Kin, StreamInv

LEMMA TlsBodyStream == ASSUME TypeOK, CoapInv, TlsBody PROVE Kin'
<1> USE MsgLenType
<1>1. /\ transport = "tls" /\ step = "body"
      /\ TakeBody(SubSeq(opened, 1, BodyLen))
      /\ opened' = SubSeq(opened, BodyLen + 1, Len(opened))
      /\ UNCHANGED <<buildVars, net, wire, received_header, received_body, record, big,
                     accepted, spoiled>>
  BY DEF TlsBody
<1>2. CalmInv'
  BY <1>1 DEF CalmInv, CoapInv, buildVars
<1>3. step' # "body"
  BY <1>1, BodyType DEF TypeOK
<1>4. ASSUME spoiled' = {} PROVE opened' = <<>> /\ StreamInv'
  <2>1. spoiled = {} /\ record = <<>> /\ Len(opened) = BodyLen
    BY <1>1, <1>4 DEF CoapInv, KeptInv
  <2>2. PICK o \in Seq(Pieces) : o = opened /\ Len(o) = BodyLen
    BY <2>1 DEF TypeOK
  <2>3. opened' = <<>> /\ TakeBody(o)
    <3>1. SubSeq(o, 1, Len(o)) = o /\ SubSeq(o, Len(o) + 1, Len(o)) = <<>>
      OBVIOUS
    <3>2. QED
      BY <1>1, <2>2, <3>1
  <2>4. PICK r \in Seq(Pieces) : r = wire \o net
    BY PieceCat DEF TypeOK
  <2>5. Pending = o \o r
    <3>1. Kept = o
      BY <1>1, <2>1, <2>2, PieceNone DEF Kept
    <3>2. QED
      BY <2>4, <3>1, Zenon DEF Pending
  <2>6. Pending' = r
    <3>1. Kept' = <<>>
      BY <1>1, <2>1, <2>3, PieceNone DEF Kept, buildVars
    <3>2. wire' \o net' = r
      BY <1>1, <2>4
    <3>3. QED
      BY <3>1, <3>2, PieceNone DEF Pending
  <2>7. Coming \in Msgs /\ Coming <= Len(accepted)
    BY <1>1, <2>1, KeptType, ComingIsMsg
  <2>8. PICK m \in Nat : m = Coming
    BY <2>7 DEF Msgs
  <2>9. Leads(<<m, HeaderLen + 1>>, o \o r, <<Len(accepted) + 1, 1>>)
    BY <1>1, <2>1, <2>5, <2>8 DEF CoapInv, StreamInv, Expected
  <2>10. o = Body(m) /\ Leads(<<m + 1, 1>>, r, <<Len(accepted) + 1, 1>>)
    BY <2>2, <2>9, BodyTaken
  <2>11. step' = "idle" /\ Numbered(handed') /\ Len(handed') = m
    BY <2>1, <2>3, <2>7, <2>8, <2>10, BodyGood DEF CoapInv, StreamInv
  <2>12. Expected' = <<m + 1, 1>>
    BY <1>1, <2>11 DEF Expected, Coming
  <2>13. QED
    BY <1>1, <2>3, <2>6, <2>7, <2>8, <2>10, <2>11, <2>12 DEF StreamInv
<1>5. KeptInv'
  BY <1>1, <1>3, <1>4 DEF KeptInv, buildVars
<1>6. QED
  BY <1>2, <1>4, <1>5 DEF Kin, StreamInv

\* A connection begins with nothing sent and nothing kept.
Fresh == /\ accepted = <<>> /\ handed = <<>> /\ net = <<>> /\ wire = <<>>
         /\ step = "idle" /\ received_header = <<>> /\ received_body = <<>>
         /\ record = <<>> /\ opened = <<>> /\ spoiled = {}

LEMMA NothingLeads == Fresh => CoapInv
<1> SUFFICES ASSUME Fresh PROVE CoapInv
  OBVIOUS
<1> USE DEF Fresh
<1>1. Len(<<>>) = 0 /\ <<>> \o <<>> = <<>>
  OBVIOUS
<1>2. Pending = <<>>
  BY <1>1 DEF Pending, Kept
<1>3. Leads(<<1, 1>>, <<>>, <<1, 1>>)
  BY <1>1 DEF Leads, At
<1>4. Expected = <<1, 1>> /\ <<Len(accepted) + 1, 1>> = <<1, 1>>
  BY <1>1 DEF Expected, Coming
<1>5. StreamInv /\ Numbered(accepted)
  BY <1>1, <1>2, <1>3, <1>4 DEF StreamInv, Numbered
<1>6. QED
  BY <1>5 DEF CoapInv, KeptInv, CalmInv

LEMMA StreamStart == ASSUME Init PROVE CoapInv
BY NothingLeads DEF Init, Fresh

LEMMA StreamNext == ASSUME TypeOK, CoapInv, [Next]_vars PROVE CoapInv'
<1>1. CASE Read
  <2>1. Kin'
    BY <1>1, PlainHeaderStream, PlainBodyStream, AesKeptHeaderStream, AesHeaderStream,
       AesBodyStream, TlsPartStream, TlsHeaderStream, TlsBodyStream DEF Read
  <2>2. accepted' = accepted
    BY <1>1 DEF Read, PlainHeader, PlainBody, AesKeptHeader, AesHeader, AesBody,
       TlsPart, TlsHeader, TlsBody
  <2>3. QED
    BY <2>1, <2>2 DEF Kin, CoapInv
<1>2. CASE EngineStops
  BY <1>2 DEF EngineStops, CoapInv, KeptInv, CalmInv, StreamInv, buildVars, keptVars
<1>3. CASE Reconnect
  <2>1. Fresh'
    BY <1>3 DEF Reconnect, Fresh
  <2>2. QED
    BY <2>1, NothingLeads, PTL
<1>4. CASE UNCHANGED vars
  <2>1. Pending' = Pending /\ Expected' = Expected
    BY <1>4 DEF vars, buildVars, keptVars, Pending, Kept, Expected, Coming
  <2>2. QED
    BY <1>4, <2>1 DEF vars, buildVars, keptVars, CoapInv, KeptInv, CalmInv, StreamInv
<1>5. QED
  BY <1>1, <1>2, <1>3, <1>4, SendStream, ArriveStream DEF Next

\* Wherever the stream is cut, what is handed to the CoAP library is a prefix of what
\* the cloud sent: with AES or TLS over a socket that counts what it read, as long as
\* no message is larger than the buffer, and with every build until a read comes
\* short (bcasoc_recv, duer_trans_aes_cbc_encrypted_recv, duer_coap_recv).
THEOREM CoapWholeInOrder == Spec => []WholeInOrder
<1>1. ASSUME TypeOK, CoapInv PROVE WholeInOrder
  <2>1. SUFFICES ASSUME spoiled = {} PROVE IsPrefix(handed, accepted)
    BY <1>1 DEF WholeInOrder, CoapInv, CalmInv
  <2>2. /\ handed \in Seq(Msgs \cup {Damaged}) /\ accepted \in Seq(Msgs)
        /\ Len(handed) <= Len(accepted)
        /\ \A i \in 1 .. Len(handed) : handed[i] = accepted[i]
    BY <1>1, <2>1 DEF TypeOK, CoapInv, StreamInv, Numbered
  <2>3. handed = SubSeq(accepted, 1, Len(handed))
    BY <2>2
  <2>4. QED
    BY <2>2, <2>3 DEF IsPrefix
<1>2. QED
  BY <1>1, TypesStart, TypesNext, StreamStart, StreamNext, PTL DEF Spec

=============================================================================
