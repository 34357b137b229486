---------------------------- MODULE VoiceProofs -----------------------------
(***************************************************************************)
(* The voice engine, for any sizes of a frame, of _data and of the queue,  *)
(* and any number of recordings, samples and connections: the samples go   *)
(* from the queue through the frame and _data to the cloud in order, and a *)
(* topic holds its recording, whole, if no call was lost.                  *)
(***************************************************************************)
EXTENDS Voice, SequenceTheorems, WellFoundedInduction, TLAPS

-----------------------------------------------------------------------------
(* Sequences put one after the other, and flattened. *)

LEMMA SetInduction ==
  ASSUME NEW S, 0 \in S, \A n \in Nat : n \in S => n + 1 \in S
  PROVE  \A n \in Nat : n \in S
<1> DEFINE T == Nat \ S
           R == OpToRel(<, Nat)
<1>1. \A m, n \in Nat : m < n => <<m, n>> \in R
  BY DEF OpToRel
<1>2. IsWellFoundedOn(R, Nat)
  BY NatLessThanWellFounded
<1> HIDE DEF R
<1>3. SUFFICES ASSUME T # {} PROVE FALSE
  OBVIOUS
<1>4. PICK n \in T : \A m \in T : ~ (<<m, n>> \in R)
  BY <1>2, <1>3, WFMin
<1>5. n \in Nat /\ n - 1 \in Nat /\ n - 1 < n /\ n - 1 \in T
  OBVIOUS
<1>6. QED
  BY <1>1, <1>4, <1>5

LEMMA CatProp ==
  ASSUME NEW T, NEW s \in Seq(T), NEW t \in Seq(T)
  PROVE  /\ s \o t \in Seq(T) /\ Len(s \o t) = Len(s) + Len(t)
         /\ \A i \in 1 .. Len(s) : (s \o t)[i] = s[i]
         /\ \A i \in 1 .. Len(t) : (s \o t)[Len(s) + i] = t[i]
OBVIOUS

LEMMA CatAssoc ==
  ASSUME NEW T, NEW s \in Seq(T), NEW t \in Seq(T), NEW u \in Seq(T)
  PROVE  (s \o t) \o u = s \o (t \o u)
OBVIOUS

LEMMA CatNone ==
  ASSUME NEW T, NEW s \in Seq(T)
  PROVE  <<>> \in Seq(T) /\ Len(<<>>) = 0 /\ <<>> \o s = s /\ s \o <<>> = s
OBVIOUS

LEMMA CatOne ==
  ASSUME NEW T, NEW s \in Seq(T), NEW x \in T
  PROVE  /\ <<x>> \in Seq(T) /\ Append(s, x) = s \o <<x>> /\ Append(s, x) \in Seq(T)
         /\ Len(Append(s, x)) = Len(s) + 1 /\ Append(s, x)[Len(s) + 1] = x
         /\ \A i \in 1 .. Len(s) : Append(s, x)[i] = s[i]
OBVIOUS

LEMMA AppendCat ==
  ASSUME NEW T, NEW s \in Seq(T), NEW t \in Seq(T), NEW x \in T
  PROVE  s \o Append(t, x) = Append(s \o t, x)
OBVIOUS

\* A sequence that is not empty has a last element.
Ends(s, T) == \E f \in Seq(T), x \in T : s = Append(f, x) /\ Len(f) = Len(s) - 1

LEMMA HasLast ==
  ASSUME NEW T, NEW s \in Seq(T), s # <<>>
  PROVE  Ends(s, T)
<1>1. PICK n \in Nat : Len(s) = n + 1
  <2>1. Len(s) \in Nat /\ Len(s) > 0
    OBVIOUS
  <2>2. Len(s) - 1 \in Nat /\ Len(s) = (Len(s) - 1) + 1
    BY <2>1
  <2>3. QED
    BY <2>2
<1>2. PICK f : f = [i \in 1 .. n |-> s[i]]
  OBVIOUS
<1>3. f \in Seq(T) /\ Len(f) = n /\ \A i \in 1 .. n : f[i] = s[i]
  BY <1>1, <1>2
<1>4. PICK x \in T : x = s[n + 1]
  BY <1>1
<1>5. PICK a : a = Append(f, x)
  OBVIOUS
<1>6. /\ a \in Seq(T) /\ Len(a) = n + 1 /\ a[n + 1] = x
      /\ \A i \in 1 .. n : a[i] = f[i]
  BY <1>3, <1>5, CatOne
<1>7. ASSUME NEW i \in 1 .. n + 1 PROVE a[i] = s[i]
  <2>1. CASE i <= n
    BY <1>3, <1>6, <2>1
  <2>2. CASE i = n + 1
    BY <1>4, <1>6, <2>2
  <2>3. QED
    BY <2>1, <2>2
<1>8. a = s
  BY <1>1, <1>6, <1>7
<1>9. QED
  BY <1>1, <1>3, <1>5, <1>8 DEF Ends

\* The recursive function of FlattenSeq for the first k sequences of s.
Flat(f, k, s) == f = [i \in 1 .. k |-> IF i = 1 THEN s[i] ELSE f[i - 1] \o s[i]]

FlatStep(f, i, s) == /\ i = 1 => f[i] = s[i]
                     /\ i # 1 => f[i] = f[i - 1] \o s[i]

LEMMA FlatAt ==
  ASSUME NEW f, NEW k \in Nat, NEW s, Flat(f, k, s), NEW i \in 1 .. k
  PROVE  FlatStep(f, i, s)
BY DEF Flat, FlatStep

LEMMA FlatExists == ASSUME NEW s PROVE \A k \in Nat : \E f : Flat(f, k, s)
<1> DEFINE S == {k \in Nat : \E f : Flat(f, k, s)}
<1>1. 0 \in S
  <2>1. Flat([i \in 1 .. 0 |-> 0], 0, s)
    BY DEF Flat
  <2>2. QED
    BY <2>1
<1>2. ASSUME NEW k \in Nat, k \in S PROVE k + 1 \in S
  <2>1. PICK f : Flat(f, k, s)
    BY <1>2
  <2>2. PICK x : x = IF k + 1 = 1 THEN s[1] ELSE f[k] \o s[k + 1]
    OBVIOUS
  <2>3. PICK g : g = [i \in 1 .. k + 1 |-> IF i <= k THEN f[i] ELSE x]
    OBVIOUS
  <2>4. \A i \in 1 .. k : g[i] = f[i]
    BY <2>3
  <2>5. ASSUME NEW i \in 1 .. k + 1
        PROVE  g[i] = IF i = 1 THEN s[i] ELSE g[i - 1] \o s[i]
    <3>1. CASE i <= k
      <4>1. i # 1 => i - 1 \in 1 .. k
        BY <3>1
      <4>2. i # 1 => g[i - 1] = f[i - 1]
        BY <2>4, <4>1
      <4>3. i \in 1 .. k
        BY <3>1
      <4>4. g[i] = f[i]
        BY <2>4, <4>3
      <4>5. FlatStep(f, i, s)
        BY <2>1, <4>3, FlatAt
      <4>6. QED
        BY <4>2, <4>4, <4>5, Zenon DEF FlatStep
    <3>2. CASE i = k + 1
      <4>1. g[i] = x
        BY <2>3, <3>2
      <4>2. i # 1 => i - 1 = k /\ k \in 1 .. k
        BY <3>2
      <4>3. i # 1 => g[i - 1] = f[k]
        BY <2>4, <4>2
      <4>4. QED
        BY <2>2, <3>2, <4>1, <4>3, Zenon
    <3>3. QED
      BY <3>1, <3>2
  <2>6. g = [i \in 1 .. k + 1 |-> IF i = 1 THEN s[i] ELSE g[i - 1] \o s[i]]
    <3>1. PICK h : h = [i \in 1 .. k + 1 |-> IF i = 1 THEN s[i] ELSE g[i - 1] \o s[i]]
      OBVIOUS
    <3>2. \A i \in 1 .. k + 1 : g[i] = h[i]
      BY <2>5, <3>1, Zenon
    <3>3. DOMAIN g = 1 .. k + 1 /\ DOMAIN h = 1 .. k + 1
      BY <2>3, <3>1
    <3>4. g = [i \in 1 .. k + 1 |-> g[i]] /\ h = [i \in 1 .. k + 1 |-> h[i]]
      BY <2>3, <3>1, <3>3
    <3>5. g = h
      BY <3>2, <3>4
    <3>6. QED
      BY <3>1, <3>5, Zenon
  <2>7. Flat(g, k + 1, s)
    BY <2>6 DEF Flat
  <2>8. QED
    BY <2>7
<1>3. QED
  <2> HIDE DEF S
  <2>1. \A k \in Nat : k \in S
    BY <1>1, <1>2, SetInduction
  <2>2. QED
    BY <2>1 DEF S

Agree(f, g, k) == \A i \in 1 .. k : f[i] = g[i]

LEMMA FlatSame ==
  ASSUME NEW s, NEW t, NEW f, NEW g, NEW k \in Nat, NEW m \in Nat, k <= m,
         Flat(f, k, s), Flat(g, m, t), Agree(s, t, k)
  PROVE  Agree(f, g, k)
<1> DEFINE S == {n \in Nat : n \in 1 .. k => f[n] = g[n]}
<1>1. 0 \in S
  OBVIOUS
<1>2. ASSUME NEW n \in Nat, n \in S PROVE n + 1 \in S
  <2>1. SUFFICES ASSUME n + 1 \in 1 .. k PROVE f[n + 1] = g[n + 1]
    OBVIOUS
  <2>2. PICK i \in 1 .. k : i = n + 1 /\ i \in 1 .. m
    BY <2>1
  <2>3. FlatStep(f, i, s)
    BY FlatAt
  <2>4. FlatStep(g, i, t)
    BY <2>2, FlatAt
  <2>5. f[i] = g[i]
    <3>1. s[i] = t[i]
      BY DEF Agree
    <3>2. i # 1 => f[i - 1] = g[i - 1]
      <4>1. i - 1 = n /\ (i # 1 => n \in 1 .. k)
        BY <2>2
      <4>2. QED
        BY <1>2, <4>1
    <3>3. QED
      BY <2>3, <2>4, <3>1, <3>2, Zenon DEF FlatStep
  <2>6. QED
    BY <2>2, <2>5
<1>3. QED
  <2> HIDE DEF S
  <2>1. \A n \in Nat : n \in S
    BY <1>1, <1>2, SetInduction
  <2>2. QED
    BY <2>1 DEF S, Agree

LEMMA FlattenIs ==
  ASSUME NEW T, NEW s \in Seq(T), s # <<>>
  PROVE  \E f : Flat(f, Len(s), s) /\ FlattenSeq(s) = f[Len(s)]
<1>1. PICK n \in Nat : n = Len(s) /\ n # 0
  OBVIOUS
<1>2. \E f : Flat(f, n, s)
  BY FlatExists
<1>3. PICK f : f = CHOOSE g : Flat(g, n, s)
  OBVIOUS
<1>4. Flat(f, n, s)
  BY <1>2, <1>3, Zenon
<1>5. FlattenSeq(s) = f[n]
  BY <1>1, <1>3, Zenon DEF FlattenSeq, Flat
<1>6. QED
  BY <1>1, <1>4, <1>5

LEMMA FlattenNone == FlattenSeq(<<>>) = <<>>
BY DEF FlattenSeq

LEMMA FlattenAppend ==
  ASSUME NEW T, NEW s \in Seq(Seq(T)), NEW x \in Seq(T)
  PROVE  FlattenSeq(Append(s, x)) = FlattenSeq(s) \o x
<1>1. PICK a \in Seq(Seq(T)) : a = Append(s, x)
  BY CatOne
<1>2. PICK n \in Nat : n = Len(s)
  OBVIOUS
<1>3. Len(a) = n + 1 /\ a[n + 1] = x /\ \A i \in 1 .. n : a[i] = s[i]
  BY <1>1, <1>2
<1>4. PICK k \in Nat : k = n + 1 /\ k \in 1 .. k /\ n <= k
  OBVIOUS
<1>5. PICK g : Flat(g, k, a) /\ FlattenSeq(a) = g[k]
  <2>1. a # <<>> /\ Len(a) = k
    BY <1>3, <1>4
  <2>2. QED
    BY <2>1, FlattenIs
<1>6. CASE n = 0
  <2>1. s = <<>> /\ k = 1
    <3>1. Len(s) = 0 => s = <<>>
      OBVIOUS
    <3>2. QED
      BY <1>2, <1>4, <1>6, <3>1
  <2>2. g[k] = a[k]
    <3>1. FlatStep(g, k, a)
      BY <1>4, <1>5, FlatAt
    <3>2. QED
      BY <2>1, <3>1 DEF FlatStep
  <2>3. <<>> \o x = x
    OBVIOUS
  <2>4. QED
    BY <1>1, <1>3, <1>4, <1>5, <2>1, <2>2, <2>3, FlattenNone, Zenon
<1>7. CASE n # 0
  <2>1. s # <<>>
    BY <1>2, <1>7
  <2>2. PICK f : Flat(f, n, s) /\ FlattenSeq(s) = f[n]
    BY <1>2, <2>1, FlattenIs
  <2>3. n \in 1 .. n /\ \A i \in 1 .. n : s[i] = a[i]
    BY <1>3, <1>7
  <2>4. f[n] = g[n]
    <3>1. Agree(s, a, n)
      BY <2>3 DEF Agree
    <3>2. Agree(f, g, n)
      BY <1>4, <1>5, <2>2, <3>1, FlatSame
    <3>3. QED
      BY <2>3, <3>2 DEF Agree
  <2>5. k # 1 /\ k - 1 = n
    BY <1>4, <1>7
  <2>6. g[k] = g[k - 1] \o a[k]
    <3>1. FlatStep(g, k, a)
      BY <1>4, <1>5, FlatAt
    <3>2. QED
      BY <2>5, <3>1, Zenon DEF FlatStep
  <2>7. a[k] = x
    BY <1>3, <1>4
  <2>8. QED
    BY <1>1, <1>5, <2>2, <2>4, <2>5, <2>6, <2>7, Zenon
<1>8. QED
  BY <1>6, <1>7

LEMMA FlattenType ==
  ASSUME NEW T, NEW s \in Seq(Seq(T))
  PROVE  FlattenSeq(s) \in Seq(T)
<1> DEFINE S == {n \in Nat : \A t \in Seq(Seq(T)) : Len(t) = n => FlattenSeq(t) \in Seq(T)}
<1>1. 0 \in S
  <2>1. ASSUME NEW t \in Seq(Seq(T)), Len(t) = 0 PROVE FlattenSeq(t) \in Seq(T)
    <3>1. t = <<>> /\ <<>> \in Seq(T)
      BY <2>1
    <3>2. QED
      BY <3>1, FlattenNone, Zenon
  <2>2. QED
    BY <2>1
<1>2. ASSUME NEW n \in Nat, n \in S PROVE n + 1 \in S
  <2>1. SUFFICES ASSUME NEW t \in Seq(Seq(T)), Len(t) = n + 1 PROVE FlattenSeq(t) \in Seq(T)
    OBVIOUS
  <2>2. Ends(t, Seq(T))
    <3>1. t # <<>>
      BY <2>1
    <3>2. QED
      BY <3>1, HasLast
  <2>3. PICK f \in Seq(Seq(T)), x \in Seq(T) : t = Append(f, x) /\ Len(f) = n
    <3>1. Len(t) - 1 = n
      BY <2>1
    <3>2. QED
      BY <2>2, <3>1, Zenon DEF Ends
  <2>4. FlattenSeq(f) \in Seq(T)
    BY <1>2, <2>3
  <2>5. FlattenSeq(t) = FlattenSeq(f) \o x
    BY <2>3, FlattenAppend
  <2>6. QED
    BY <2>4, <2>5, CatProp
<1>3. QED
  <2> HIDE DEF S
  <2>1. \A n \in Nat : n \in S
    BY <1>1, <1>2, SetInduction
  <2>2. QED
    BY <2>1 DEF S

LEMMA FlattenCat ==
  ASSUME NEW T, NEW s \in Seq(Seq(T)), NEW u \in Seq(Seq(T))
  PROVE  FlattenSeq(s \o u) = FlattenSeq(s) \o FlattenSeq(u)
<1> DEFINE S == {n \in Nat : \A t \in Seq(Seq(T)) : Len(t) = n =>
                                 FlattenSeq(s \o t) = FlattenSeq(s) \o FlattenSeq(t)}
<1>1. 0 \in S
  <2>1. ASSUME NEW t \in Seq(Seq(T)), Len(t) = 0
        PROVE  FlattenSeq(s \o t) = FlattenSeq(s) \o FlattenSeq(t)
    <3>1. t = <<>> /\ FlattenSeq(t) = <<>>
      BY <2>1, FlattenNone
    <3>2. s \o <<>> = s
      BY CatNone
    <3>3. FlattenSeq(s) \o <<>> = FlattenSeq(s)
      BY FlattenType, CatNone
    <3>4. QED
      BY <3>1, <3>2, <3>3, Zenon
  <2>2. QED
    BY <2>1
<1>2. ASSUME NEW n \in Nat, n \in S PROVE n + 1 \in S
  <2>1. SUFFICES ASSUME NEW t \in Seq(Seq(T)), Len(t) = n + 1
                 PROVE  FlattenSeq(s \o t) = FlattenSeq(s) \o FlattenSeq(t)
    OBVIOUS
  <2>2. Ends(t, Seq(T))
    <3>1. t # <<>>
      BY <2>1
    <3>2. QED
      BY <3>1, HasLast
  <2>3. PICK f \in Seq(Seq(T)), x \in Seq(T) : t = Append(f, x) /\ Len(f) = n
    <3>1. Len(t) - 1 = n
      BY <2>1
    <3>2. QED
      BY <2>2, <3>1, Zenon DEF Ends
  <2>4. FlattenSeq(s \o f) = FlattenSeq(s) \o FlattenSeq(f)
    BY <1>2, <2>3
  <2>5. PICK sf \in Seq(Seq(T)) : sf = s \o f
    BY CatProp
  <2>6. s \o Append(f, x) = Append(s \o f, x)
    BY AppendCat, SMTT(30)
  <2>7. FlattenSeq(Append(sf, x)) = FlattenSeq(sf) \o x
    BY FlattenAppend
  <2>8. PICK a \in Seq(T), b \in Seq(T) : a = FlattenSeq(s) /\ b = FlattenSeq(f)
    BY FlattenType
  <2>9. (a \o b) \o x = a \o (b \o x)
    BY SMTT(30)
  <2>10. FlattenSeq(t) = b \o x
    BY <2>3, <2>8, FlattenAppend
  <2>11. QED
    BY <2>3, <2>4, <2>5, <2>6, <2>7, <2>8, <2>9, <2>10, Zenon
<1>3. QED
  <2> HIDE DEF S
  <2>1. \A n \in Nat : n \in S
    BY <1>1, <1>2, SetInduction
  <2>2. QED
    BY <2>1 DEF S

-----------------------------------------------------------------------------
(* Types, and what the voice task has in hand at each of its steps. *)

PcInv ==
    /\ open => recording > 0
    /\ pc = "create" => queue # <<>> /\ queue[1][1] = "start"
    /\ stopping => /\ queue # <<>> /\ queue[1][1] = "stop"
                   /\ pc \in {"store", "clear", "rest", "eof", "close", "forget"}
    /\ pc \in {"rest", "eof", "close", "forget"} => stopping
    /\ speex = "none" \/ pc = "forget" => frame = <<>>
    /\ pc = "forget" => data = <<>>

VInv == TypeOK /\ PcInv

LEMMA ConstType ==
    /\ QUEUE_LENGTH \in Nat /\ QUEUE_LENGTH > 0 /\ FrameLen \in Nat /\ FrameLen > 0
    /\ Capacity \in Nat /\ Capacity > 0
    /\ MaxRecordings \in Nat /\ MaxSamples \in Nat /\ MaxConnects \in Nat
BY VoiceAssumption

LEMMA CallKinds ==
  ASSUME NEW m \in Calls
  PROVE  /\ m[1] = "start" => m[2] \in Recordings /\ m = StartMsg(m[2])
         /\ m[1] = "send" => m[2] \in Sample /\ m = SendMsg(m[2][1], m[2][2])
         /\ m[1] = "stop" => m = StopMsg
         /\ m[1] \in {"start", "send", "stop"}
BY DEF Calls, StartMsg, SendMsg, StopMsg, Sample

LEMMA NoSamples == <<>> \in Seq(Sample) /\ <<>> \in Seq(Seq(Sample)) /\ Len(<<>>) = 0
OBVIOUS

\* The next call, and the queue behind it.
LEMMA HeadCall ==
  ASSUME VInv, queue # <<>>
  PROVE  /\ queue[1] \in Calls /\ Tail(queue) \in Seq(Calls)
         /\ Len(queue) > 0 /\ Len(Tail(queue)) = Len(queue) - 1
         /\ \A i \in 1 .. Len(queue) - 1 : Tail(queue)[i] = queue[i + 1]
BY DEF VInv, TypeOK

\* A call adds to the queue, or is lost.
LEMMA CallKeeps ==
  ASSUME VInv, NEW m \in Calls, NEW why \in SUBSET {"unstopped"}, Call(m, why)
  PROVE  /\ queue' \in Seq(Calls) /\ Len(queue') <= IF async THEN QUEUE_LENGTH ELSE 1
         /\ queue # <<>> => queue' # <<>> /\ queue'[1] = queue[1]
         /\ mishaps' \subseteq {"dropped", "cut", "interrupted", "unstopped"}
<1> USE ConstType
<1>1. queue \in Seq(Calls) /\ Len(queue) \in Nat
      /\ Len(queue) <= (IF async THEN QUEUE_LENGTH ELSE 1)
  BY DEF VInv, TypeOK
<1>2. PICK q : q = Append(queue, m)
  OBVIOUS
<1>3. /\ q \in Seq(Calls) /\ Len(q) = Len(queue) + 1
      /\ queue # <<>> => q # <<>> /\ q[1] = queue[1]
  BY <1>1, <1>2
<1>4. queue' = q \/ queue' = queue
  BY <1>2 DEF Call
<1>5. ASSUME queue' = q, q # queue PROVE Len(q) <= IF async THEN QUEUE_LENGTH ELSE 1
  <2>1. ~ async \/ (g_events_handler /\ Len(queue) < QUEUE_LENGTH)
    BY <1>2, <1>5 DEF Call
  <2>2. ~ async => queue = <<>>
    BY DEF Call
  <2>3. ~ async => Len(queue) = 0
    BY <2>2, <1>1
  <2>4. QED
    BY <1>1, <1>3, <2>1, <2>3
<1>6. mishaps' \subseteq {"dropped", "cut", "interrupted", "unstopped"}
  BY DEF Call, VInv, TypeOK
<1>7. QED
  BY <1>1, <1>3, <1>4, <1>5, <1>6

LEMMA AppTypes == ASSUME VInv, App PROVE VInv'
<1> USE ConstType
<1>1. CASE duer_voice_start
  <2>1. recording' \in Recordings /\ StartMsg(recording') \in Calls
    <3>1. recording' \in Recordings
      BY <1>1 DEF duer_voice_start, VInv, TypeOK, Recordings
    <3>2. QED
      BY <3>1 DEF Calls
  <2>2. PICK why \in SUBSET {"unstopped"} : Call(StartMsg(recording'), why)
    BY <1>1 DEF duer_voice_start
  <2>3. /\ queue' \in Seq(Calls) /\ Len(queue') <= IF async THEN QUEUE_LENGTH ELSE 1
        /\ queue # <<>> => queue' # <<>> /\ queue'[1] = queue[1]
        /\ mishaps' \subseteq {"dropped", "cut", "interrupted", "unstopped"}
    BY <2>1, <2>2, CallKeeps
  <2>4. UNCHANGED <<buildVars, g_events_handler, pc, stopping, encoderVars, segmentVars,
                    connects>>
    BY <1>1 DEF duer_voice_start, Call
  <2>5. TypeOK'
    BY <1>1, <2>1, <2>3, <2>4
       DEF duer_voice_start, VInv, TypeOK, Recordings, buildVars, encoderVars, segmentVars
  <2>6. PcInv'
    BY <1>1, <2>1, <2>3, <2>4 DEF VInv, PcInv, Recordings, encoderVars, segmentVars
  <2>7. QED
    BY <2>5, <2>6 DEF VInv
<1>2. CASE duer_voice_send
  <2>1. recording \in Recordings /\ samples' \in 1 .. MaxSamples
        /\ SendMsg(recording, samples') \in Calls
    <3>1. recording \in Recordings /\ samples' \in 1 .. MaxSamples
      BY <1>2, SMTT(30) DEF duer_voice_send, VInv, PcInv, TypeOK, Recordings
    <3>2. QED
      BY <3>1 DEF Calls
  <2>2. PICK why \in SUBSET {"unstopped"} : Call(SendMsg(recording, samples'), why)
    BY <1>2 DEF duer_voice_send
  <2>3. /\ queue' \in Seq(Calls) /\ Len(queue') <= IF async THEN QUEUE_LENGTH ELSE 1
        /\ queue # <<>> => queue' # <<>> /\ queue'[1] = queue[1]
        /\ mishaps' \subseteq {"dropped", "cut", "interrupted", "unstopped"}
    BY <2>1, <2>2, CallKeeps
  <2>4. UNCHANGED <<buildVars, g_events_handler, pc, stopping, encoderVars, segmentVars,
                    connects, recording, open>>
    BY <1>2 DEF duer_voice_send, Call
  <2>5. TypeOK'
    BY <1>2, <2>1, <2>3, <2>4
       DEF duer_voice_send, VInv, TypeOK, Recordings, buildVars, encoderVars, segmentVars
  <2>6. PcInv'
    BY <1>2, <2>1, <2>3, <2>4 DEF VInv, PcInv, Recordings, encoderVars, segmentVars
  <2>7. QED
    BY <2>5, <2>6 DEF VInv
<1>3. CASE duer_voice_stop
  <2>1. StopMsg \in Calls
    BY DEF Calls
  <2>2. PICK why \in SUBSET {"unstopped"} : Call(StopMsg, why)
    BY <1>3 DEF duer_voice_stop
  <2>3. /\ queue' \in Seq(Calls) /\ Len(queue') <= IF async THEN QUEUE_LENGTH ELSE 1
        /\ queue # <<>> => queue' # <<>> /\ queue'[1] = queue[1]
        /\ mishaps' \subseteq {"dropped", "cut", "interrupted", "unstopped"}
    BY <2>1, <2>2, CallKeeps
  <2>4. UNCHANGED <<buildVars, g_events_handler, pc, stopping, encoderVars, segmentVars,
                    connects, recording, samples>> /\ open' = FALSE
    BY <1>3 DEF duer_voice_stop, Call
  <2>5. TypeOK'
    BY <2>3, <2>4 DEF VInv, TypeOK, buildVars, encoderVars, segmentVars
  <2>6. PcInv'
    BY <2>3, <2>4 DEF VInv, PcInv, encoderVars, segmentVars
  <2>7. QED
    BY <2>5, <2>6 DEF VInv
<1>4. QED
  BY <1>1, <1>2, <1>3 DEF App

LEMMA LoopTypes == ASSUME VInv, duer_voice_initialize \/ duer_voice_finalize PROVE VInv'
<1> USE ConstType
<1>1. CASE duer_voice_initialize
  BY <1>1 DEF duer_voice_initialize, VInv, TypeOK, PcInv, buildVars, encoderVars,
     segmentVars, appVars
<1>2. CASE duer_voice_finalize
  <2>1. queue' = <<>> /\ <<>> \in Seq(Calls) /\ Len(<<>>) = 0
    BY <1>2 DEF duer_voice_finalize
  <2>2. encoded' = <<>> /\ pc' = "idle" /\ stopping' = FALSE /\ g_events_handler' = FALSE
        /\ mishaps' \subseteq {"dropped", "cut", "interrupted", "unstopped"}
        /\ UNCHANGED <<buildVars, speex, frame, segmentVars, appVars, connects>>
    BY <1>2 DEF duer_voice_finalize, VInv, TypeOK
  <2>3. TypeOK'
    <3>1. queue' \in Seq(Calls) /\ Len(queue') <= IF async THEN QUEUE_LENGTH ELSE 1
      BY <2>1
    <3>2. QED
      BY <2>2, <3>1, NoSamples DEF VInv, TypeOK, buildVars, segmentVars, appVars
  <2>4. PcInv'
    BY <2>2 DEF VInv, PcInv, segmentVars, appVars
  <2>5. QED
    BY <2>3, <2>4 DEF VInv
<1>3. QED
  BY <1>1, <1>2

\* A report adds a segment.
Segment(frames, eof) == [topic |-> topic_id, sid |-> sid, eof |-> eof, frames |-> frames]

LEMMA ReportTypes ==
  ASSUME VInv, NEW frames \in Seq(Seq(Sample)), NEW eof \in BOOLEAN, Report(frames, eof)
  PROVE  /\ sent' = Append(sent, Segment(frames, eof)) /\ Segment(frames, eof) \in Segments
         /\ sent' \in Seq(Segments) /\ sid' \in Nat /\ UNCHANGED <<topic_id, owner>>
<1>1. PICK g : g = Segment(frames, eof)
  OBVIOUS
<1>2. g \in Segments
  BY <1>1 DEF Segment, Segments, VInv, TypeOK
<1>3. sent' = Append(sent, g) /\ sid' \in Nat /\ UNCHANGED <<topic_id, owner>>
  BY <1>1 DEF Report, Segment, VInv, TypeOK
<1>4. sent' \in Seq(Segments)
  BY <1>2, <1>3 DEF VInv, TypeOK
<1>5. QED
  BY <1>1, <1>2, <1>3, <1>4

USE DEF taskKeeps, buildVars, encoderVars, segmentVars, appVars

LEMMA StartTypes == ASSUME VInv, Start PROVE VInv'
<1>1. TypeOK'
  BY DEF Start, VInv, TypeOK
<1>2. PcInv'
  BY DEF Start, VInv, TypeOK, PcInv
<1>3. QED
  BY <1>1, <1>2 DEF VInv

LEMMA CreateTypes == ASSUME VInv, Create PROVE VInv'
<1> USE ConstType
<1>1. queue # <<>> /\ queue[1][1] = "start"
  BY DEF Create, VInv, PcInv
<1>2. queue[1][2] \in Recordings
  BY <1>1, HeadCall, CallKinds
<1>3. queue' \in Seq(Calls) /\ Len(queue') <= IF async THEN QUEUE_LENGTH ELSE 1
  <2>1. queue' = Tail(queue)
    BY DEF Create
  <2>2. Tail(queue) \in Seq(Calls) /\ Len(Tail(queue)) = Len(queue) - 1
    BY <1>1, HeadCall
  <2>3. Len(queue) \in Nat /\ Len(queue) <= (IF async THEN QUEUE_LENGTH ELSE 1)
    BY DEF VInv, TypeOK
  <2>4. QED
    BY <2>1, <2>2, <2>3
<1>4. topic_id' \in Nat /\ owner' \in Seq(Recordings) /\ topic_id' = Len(owner')
  <2>1. CASE connects = 0
    BY <2>1 DEF Create, VInv, TypeOK
  <2>2. CASE connects # 0
    <3>1. PICK r \in Recordings : owner' = Append(owner, r) /\ topic_id' = topic_id + 1
      BY <1>2, <2>2 DEF Create
    <3>2. QED
      BY <3>1 DEF VInv, TypeOK
  <2>3. QED
    BY <2>1, <2>2
<1>5. /\ frame' = <<>> /\ speex' = "live" /\ pc' = "idle"
      /\ UNCHANGED <<stopping, encoded, data, sid, sent, taskKeeps>>
  BY DEF Create
<1>6. TypeOK'
  BY <1>3, <1>4, <1>5, NoSamples DEF VInv, TypeOK
<1>7. ~ stopping
  BY DEF Create, VInv, PcInv
<1>8. PcInv'
  BY <1>5, <1>7 DEF VInv, PcInv
<1>9. QED
  BY <1>6, <1>8 DEF VInv

\* The task has taken the head of the queue.
LEMMA TailTypes ==
  ASSUME VInv, queue # <<>>, queue' = Tail(queue), UNCHANGED async
  PROVE  queue' \in Seq(Calls) /\ Len(queue') <= IF async' THEN QUEUE_LENGTH ELSE 1
<1>1. Tail(queue) \in Seq(Calls) /\ Len(Tail(queue)) = Len(queue) - 1
  BY HeadCall
<1>2. Len(queue) \in Nat /\ Len(queue) <= (IF async THEN QUEUE_LENGTH ELSE 1)
  BY DEF VInv, TypeOK
<1>3. QED
  BY <1>1, <1>2, ConstType

LEMMA SendTypes == ASSUME VInv, Send PROVE VInv'
<1> USE ConstType
<1>1. queue # <<>> /\ queue[1][1] = "send" /\ queue' = Tail(queue) /\ pc = "idle"
      /\ UNCHANGED <<stopping, speex, segmentVars, taskKeeps>>
  BY DEF Send
<1>2. PICK x \in Sample : x = queue[1][2]
  BY <1>1, HeadCall, CallKinds
<1>3. PICK f : f = Append(frame, x)
  OBVIOUS
<1>4. f \in Seq(Sample) /\ Len(f) = Len(frame) + 1 /\ Len(frame) \in Nat
  BY <1>3 DEF VInv, TypeOK
<1>5. \/ UNCHANGED <<pc, frame, encoded>>
      \/ /\ speex # "none" /\ Len(frame) + 1 < FrameLen
         /\ frame' = f /\ UNCHANGED <<pc, encoded>>
      \/ /\ speex # "none"
         /\ encoded' = f /\ frame' = <<>> /\ pc' = "store"
  BY <1>2, <1>3 DEF Send
<1>6. /\ Len(frame') < FrameLen /\ frame' \in Seq(Sample) /\ encoded' \in Seq(Sample)
      /\ pc' \in {"idle", "store"}
      /\ speex = "none" => UNCHANGED frame
  BY <1>1, <1>4, <1>5, NoSamples DEF VInv, TypeOK
<1>7. TypeOK'
  BY <1>1, <1>6, TailTypes DEF VInv, TypeOK
<1>8. ~ stopping
  BY <1>1 DEF VInv, PcInv
<1>9. PcInv'
  BY <1>1, <1>6, <1>8 DEF VInv, PcInv
<1>10. QED
  BY <1>7, <1>9 DEF VInv

LEMMA StopTypes == ASSUME VInv, Stop PROVE VInv'
<1>1. queue # <<>> /\ queue[1][1] = "stop" /\ pc = "idle"
      /\ UNCHANGED <<speex, frame, segmentVars, taskKeeps>>
  BY DEF Stop
<1>2. \/ queue' = Tail(queue) /\ UNCHANGED <<pc, stopping>>
      \/ /\ speex # "none" /\ stopping' = TRUE /\ UNCHANGED queue
         /\ pc' \in {"rest", "store"}
  BY DEF Stop
<1>3. encoded' \in Seq(Sample)
  BY DEF Stop, VInv, TypeOK
<1>4. queue' \in Seq(Calls) /\ Len(queue') <= IF async' THEN QUEUE_LENGTH ELSE 1
  <2>1. CASE queue' = Tail(queue)
    BY <1>1, <2>1, TailTypes
  <2>2. CASE queue' = queue
    BY <1>1, <2>2 DEF VInv, TypeOK
  <2>3. QED
    BY <1>2, <2>1, <2>2
<1>5. pc' \in {"idle", "rest", "store"} /\ stopping' \in BOOLEAN
  BY <1>1, <1>2 DEF VInv, TypeOK
<1>6. TypeOK'
  BY <1>1, <1>3, <1>4, <1>5 DEF VInv, TypeOK
<1>7. ~ stopping
  BY <1>1 DEF VInv, PcInv
<1>8. PcInv'
  BY <1>1, <1>2, <1>7 DEF VInv, PcInv
<1>9. QED
  BY <1>6, <1>8 DEF VInv

LEMMA StoreTypes == ASSUME VInv, Full \/ Clear \/ Store PROVE VInv'
<1>1. CASE Full
  <2>1. data \in Seq(Seq(Sample)) /\ FALSE \in BOOLEAN /\ Report(data, FALSE)
    BY <1>1 DEF Full, VInv, TypeOK
  <2>2. sent' \in Seq(Segments) /\ sid' \in Nat /\ UNCHANGED <<topic_id, owner>>
    BY <2>1, ReportTypes
  <2>3. pc = "store" /\ pc' = "clear" /\ UNCHANGED <<queue, stopping, encoderVars, data, taskKeeps>>
    BY <1>1 DEF Full
  <2>4. TypeOK'
    BY <2>2, <2>3 DEF VInv, TypeOK
  <2>5. PcInv'
    BY <2>3 DEF VInv, PcInv
  <2>6. QED
    BY <2>4, <2>5 DEF VInv
<1>2. CASE Clear
  <2>1. TypeOK'
    BY <1>2, NoSamples, ConstType DEF Clear, VInv, TypeOK
  <2>2. PcInv'
    BY <1>2 DEF Clear, VInv, PcInv
  <2>3. QED
    BY <2>1, <2>2 DEF VInv
<1>3. CASE Store
  <2>1. data' \in Seq(Seq(Sample)) /\ Len(data') <= Capacity
    <3>1. PICK x \in Seq(Sample) : x = encoded /\ data' = Append(data, x)
      BY <1>3 DEF Store, VInv, TypeOK
    <3>2. data' \in Seq(Seq(Sample)) /\ Len(data') = Len(data) + 1
      BY <3>1 DEF VInv, TypeOK
    <3>3. Len(data) \in Nat /\ Len(data) < Capacity
      BY <1>3 DEF Store, VInv, TypeOK
    <3>4. QED
      BY <3>2, <3>3, ConstType
  <2>2. TypeOK'
    BY <1>3, <2>1, NoSamples DEF Store, VInv, TypeOK
  <2>3. PcInv'
    BY <1>3 DEF Store, VInv, PcInv
  <2>4. QED
    BY <2>2, <2>3 DEF VInv
<1>4. QED
  BY <1>1, <1>2, <1>3

LEMMA EndTypes == ASSUME VInv, Rest \/ Eof \/ Close \/ Forget PROVE VInv'
<1>1. CASE Rest
  <2>1. pc = "rest" /\ pc' = "eof" /\ UNCHANGED <<queue, stopping, encoderVars, data, taskKeeps>>
        /\ (UNCHANGED segmentVars \/ Report(data, FALSE))
    BY <1>1 DEF Rest
  <2>2. sent' \in Seq(Segments) /\ sid' \in Nat /\ UNCHANGED <<topic_id, owner>>
    <3>1. data \in Seq(Seq(Sample)) /\ FALSE \in BOOLEAN
      BY DEF VInv, TypeOK
    <3>2. CASE Report(data, FALSE)
      BY <3>1, <3>2, ReportTypes
    <3>3. CASE UNCHANGED segmentVars
      BY <3>3 DEF VInv, TypeOK
    <3>4. QED
      BY <2>1, <3>2, <3>3
  <2>3. TypeOK'
    BY <2>1, <2>2 DEF VInv, TypeOK
  <2>4. PcInv'
    BY <2>1 DEF VInv, PcInv
  <2>5. QED
    BY <2>3, <2>4 DEF VInv
<1>2. CASE Eof
  <2>1. pc = "eof" /\ pc' = "close" /\ Report(<<>>, TRUE)
        /\ UNCHANGED <<queue, stopping, encoderVars, data, taskKeeps>>
    BY <1>2 DEF Eof
  <2>2. sent' \in Seq(Segments) /\ sid' \in Nat /\ UNCHANGED <<topic_id, owner>>
    <3>1. <<>> \in Seq(Seq(Sample)) /\ TRUE \in BOOLEAN
      OBVIOUS
    <3>2. QED
      BY <2>1, <3>1, ReportTypes
  <2>3. TypeOK'
    BY <2>1, <2>2 DEF VInv, TypeOK
  <2>4. PcInv'
    BY <2>1 DEF VInv, PcInv
  <2>5. QED
    BY <2>3, <2>4 DEF VInv
<1>3. CASE Close
  <2>1. TypeOK'
    BY <1>3, NoSamples, ConstType DEF Close, VInv, TypeOK
  <2>2. PcInv'
    BY <1>3 DEF Close, VInv, PcInv
  <2>3. QED
    BY <2>1, <2>2 DEF VInv
<1>4. CASE Forget
  <2>1. stopping /\ queue # <<>> /\ frame = <<>>
    BY <1>4 DEF Forget, VInv, PcInv
  <2>2. TypeOK'
    BY <1>4, <2>1, TailTypes DEF Forget, VInv, TypeOK
  <2>3. PcInv'
    BY <1>4, <2>1 DEF Forget, VInv, PcInv
  <2>4. QED
    BY <2>2, <2>3 DEF VInv
<1>5. QED
  BY <1>1, <1>2, <1>3, <1>4

LEMMA TypesStart == ASSUME Init PROVE VInv
<1>1. <<>> \in Seq(Calls) /\ <<>> \in Seq(Recordings) /\ <<>> \in Seq(Segments)
  OBVIOUS
<1>2. TypeOK
  <2>1. async \in BOOLEAN
    BY VoiceAssumption DEF Init
  <2>2. queue \in Seq(Calls) /\ Len(queue) <= IF async THEN QUEUE_LENGTH ELSE 1
    BY <1>1, NoSamples, ConstType DEF Init
  <2>3. /\ Len(frame) < FrameLen /\ frame \in Seq(Sample) /\ encoded \in Seq(Sample)
        /\ data \in Seq(Seq(Sample)) /\ Len(data) <= Capacity
    BY NoSamples, ConstType DEF Init
  <2>4. owner \in Seq(Recordings) /\ topic_id = Len(owner) /\ sent \in Seq(Segments)
    BY <1>1, NoSamples DEF Init
  <2>5. /\ recording \in 0 .. MaxRecordings /\ samples \in 0 .. MaxSamples
        /\ connects \in 0 .. MaxConnects /\ sid \in Nat /\ topic_id \in Nat
    BY ConstType DEF Init
  <2>6. /\ g_events_handler \in BOOLEAN /\ stopping \in BOOLEAN /\ open \in BOOLEAN
        /\ pc = "idle" /\ speex = "none" /\ mishaps = {}
    BY DEF Init
  <2>7. QED
    BY <2>1, <2>2, <2>3, <2>4, <2>5, <2>6 DEF TypeOK
<1>3. PcInv
  BY DEF Init, PcInv
<1>4. QED
  BY <1>2, <1>3 DEF VInv

LEMMA TypesNext == ASSUME VInv, [Next]_vars PROVE VInv'
<1>1. CASE Task
  BY <1>1, StartTypes, CreateTypes, SendTypes, StopTypes, StoreTypes, EndTypes DEF Task
<1>2. CASE UNCHANGED vars
  BY <1>2 DEF vars, VInv, TypeOK, PcInv
<1>3. QED
  BY <1>1, <1>2, AppTypes, LoopTypes DEF Next

\* Whatever is lost, cut or interrupted, the frame, _data and the queue hold no more
\* than they have room for, and every report is of samples that were sent
\* (duer_speex_encode, duer_speex_encoded_callback, duer_events_call_internal).
THEOREM VoiceTypeOK == Spec => []TypeOK
<1>1. VInv => TypeOK
  BY DEF VInv
<1>2. QED
  BY <1>1, TypesStart, TypesNext, PTL DEF Spec

-----------------------------------------------------------------------------
(* The samples on their way: what _data, the encoded frame and the frame hold, one *)
(* after the other, goes in at one end and out at the other.                       *)

\* The frames of _data that were not reported yet, the frame that is to be stored,
\* and the one that is being filled.
Unsent == IF pc \in {"clear", "eof", "close"} THEN <<>> ELSE FlattenSeq(data)
Coded == IF pc \in {"store", "clear"} THEN encoded ELSE <<>>
Framed == IF stopping THEN <<>> ELSE frame
Pipe == Unsent \o (Coded \o Framed)

LEMMA SampleCat ==
  ASSUME NEW s \in Seq(Sample), NEW t \in Seq(Sample)
  PROVE  /\ s \o t \in Seq(Sample) /\ Len(s \o t) = Len(s) + Len(t)
         /\ \A i \in 1 .. Len(s) : (s \o t)[i] = s[i]
         /\ \A i \in 1 .. Len(t) : (s \o t)[Len(s) + i] = t[i]
OBVIOUS

LEMMA SampleAssoc ==
  ASSUME NEW s \in Seq(Sample), NEW t \in Seq(Sample), NEW u \in Seq(Sample)
  PROVE  (s \o t) \o u = s \o (t \o u)
OBVIOUS

LEMMA SampleNone ==
  ASSUME NEW s \in Seq(Sample)
  PROVE  <<>> \in Seq(Sample) /\ Len(<<>>) = 0 /\ <<>> \o s = s /\ s \o <<>> = s
OBVIOUS

LEMMA SampleOne ==
  ASSUME NEW s \in Seq(Sample), NEW x \in Sample
  PROVE  <<x>> \in Seq(Sample) /\ Append(s, x) = s \o <<x>>
OBVIOUS

LEMMA PipeType ==
  ASSUME VInv
  PROVE  /\ FlattenSeq(data) \in Seq(Sample) /\ encoded \in Seq(Sample)
         /\ frame \in Seq(Sample) /\ <<>> \in Seq(Sample)
         /\ Unsent \in Seq(Sample) /\ Coded \in Seq(Sample) /\ Framed \in Seq(Sample)
         /\ Pipe \in Seq(Sample)
<1>1. data \in Seq(Seq(Sample)) /\ encoded \in Seq(Sample) /\ frame \in Seq(Sample)
      /\ <<>> \in Seq(Sample)
  BY NoSamples DEF VInv, TypeOK
<1>2. FlattenSeq(data) \in Seq(Sample)
  BY <1>1, FlattenType
<1>3. Unsent \in Seq(Sample) /\ Coded \in Seq(Sample) /\ Framed \in Seq(Sample)
  BY <1>1, <1>2 DEF Unsent, Coded, Framed
<1>4. Coded \o Framed \in Seq(Sample)
  BY <1>3, SampleCat
<1>5. Pipe \in Seq(Sample)
  BY <1>3, <1>4, SampleCat DEF Pipe
<1>6. QED
  BY <1>1, <1>2, <1>3, <1>5

\* Steps that only move what is on its way, or drop nothing.
LEMMA PipeKept ==
  ASSUME VInv, Start \/ Clear \/ Eof \/ Close \/ Stop \/ Store \/ Forget
  PROVE  Pipe' = Pipe
<1>0. /\ FlattenSeq(data) \in Seq(Sample) /\ encoded \in Seq(Sample)
      /\ frame \in Seq(Sample) /\ FlattenSeq(<<>>) = <<>> /\ <<>> \in Seq(Sample)
  BY PipeType, FlattenNone
<1>1. CASE Start
  BY <1>1 DEF Start, Pipe, Unsent, Coded, Framed
<1>2. CASE Clear
  BY <1>0, <1>2 DEF Clear, Pipe, Unsent, Coded, Framed
<1>3. CASE Eof
  BY <1>3 DEF Eof, Pipe, Unsent, Coded, Framed
<1>4. CASE Close
  <2>1. stopping
    BY <1>4 DEF Close, VInv, PcInv
  <2>2. QED
    BY <1>0, <1>4, <2>1 DEF Close, Pipe, Unsent, Coded, Framed
<1>5. CASE Stop
  <2>1. ~ stopping /\ pc = "idle"
    BY <1>5 DEF Stop, VInv, PcInv
  <2>2. Pipe = FlattenSeq(data) \o (<<>> \o frame)
    BY <2>1 DEF Pipe, Unsent, Coded, Framed
  <2>3. <<>> \o frame = frame
    BY <1>0, SampleNone
  <2>4. CASE speex = "none" \/ frame = <<>>
    <3>1. Unsent' = FlattenSeq(data) /\ Coded' = <<>> /\ Framed' = frame
      <4>1. CASE speex = "none"
        BY <1>5, <2>1, <4>1 DEF Stop, Unsent, Coded, Framed
      <4>2. CASE speex # "none"
        BY <1>5, <2>1, <2>4, <4>2 DEF Stop, Unsent, Coded, Framed
      <4>3. QED
        BY <4>1, <4>2
    <3>2. QED
      BY <2>2, <3>1 DEF Pipe
  <2>5. CASE speex # "none" /\ frame # <<>>
    <3>1. Unsent' = FlattenSeq(data) /\ Coded' = frame /\ Framed' = <<>>
      BY <1>5, <2>1, <2>5 DEF Stop, Unsent, Coded, Framed
    <3>2. frame \o <<>> = frame
      BY <1>0, SampleNone
    <3>3. QED
      BY <2>2, <2>3, <3>1, <3>2, Zenon DEF Pipe
  <2>6. QED
    BY <2>4, <2>5
<1>6. CASE Store
  <2>1. /\ Unsent = FlattenSeq(data) /\ Coded = encoded /\ Framed' = Framed
        /\ Unsent' = FlattenSeq(data') /\ Coded' = <<>> /\ data' = Append(data, encoded)
    BY <1>6 DEF Store, Unsent, Coded, Framed
  <2>2. FlattenSeq(data') = FlattenSeq(data) \o encoded
    <3>1. data \in Seq(Seq(Sample))
      BY DEF VInv, TypeOK
    <3>2. QED
      BY <1>0, <2>1, <3>1, FlattenAppend
  <2>3. PICK d \in Seq(Sample), e \in Seq(Sample), f \in Seq(Sample) :
            d = FlattenSeq(data) /\ e = encoded /\ f = Framed
    BY PipeType
  <2>4. (d \o e) \o f = d \o (e \o f) /\ <<>> \o f = f
    BY SampleAssoc, SampleNone
  <2>5. Pipe = d \o (e \o f) /\ Pipe' = (d \o e) \o (<<>> \o f)
    BY <2>1, <2>2, <2>3 DEF Pipe
  <2>6. QED
    BY <2>4, <2>5, Zenon
<1>7. CASE Forget
  <2>1. stopping /\ data = <<>> /\ frame = <<>> /\ pc = "forget"
    BY <1>7 DEF Forget, VInv, PcInv
  <2>2. QED
    BY <1>0, <1>7, <2>1 DEF Forget, Pipe, Unsent, Coded, Framed
<1>8. QED
  BY <1>1, <1>2, <1>3, <1>4, <1>5, <1>6, <1>7

\* A report takes _data out.
LEMMA PipeReports ==
  ASSUME VInv, Full \/ (Rest /\ data # <<>>)
  PROVE  Pipe = FlattenSeq(data) \o Pipe' /\ Pipe' \in Seq(Sample)
<1>1. PICK d \in Seq(Sample), c \in Seq(Sample), f \in Seq(Sample), cf \in Seq(Sample) :
          d = FlattenSeq(data) /\ c = Coded /\ f = Framed /\ cf = c \o f
  BY PipeType, SampleCat
<1>2. Unsent = d /\ Unsent' = <<>> /\ Coded' = c /\ Framed' = f
  <2>1. CASE Full
    <3>1. /\ pc = "store" /\ pc' = "clear"
          /\ UNCHANGED <<stopping, frame, encoded, data>>
      BY <2>1 DEF Full
    <3>2. QED
      BY <1>1, <3>1 DEF Unsent, Coded, Framed
  <2>2. CASE Rest
    <3>1. /\ pc = "rest" /\ pc' = "eof"
          /\ UNCHANGED <<stopping, frame, encoded>>
      BY <2>2 DEF Rest
    <3>2. QED
      BY <1>1, <3>1 DEF Unsent, Coded, Framed
  <2>3. QED
    BY <2>1, <2>2
<1>3. <<>> \o cf = cf
  BY SampleNone
<1>4. QED
  BY <1>1, <1>2, <1>3 DEF Pipe

\* The end of a recording that is all reported moves nothing.
LEMMA PipeRests == ASSUME VInv, Rest, data = <<>> PROVE Pipe' = Pipe
BY FlattenNone DEF Rest, Pipe, Unsent, Coded, Framed

\* A sample goes in, or is ignored without an encoder.
LEMMA PipeTakes ==
  ASSUME VInv, Send, NEW x \in Sample, x = queue[1][2]
  PROVE  IF speex = "none" THEN Pipe' = Pipe ELSE Pipe' = Pipe \o <<x>>
<1>1. pc = "idle" /\ ~ stopping /\ ~ stopping' /\ data' = data
  BY DEF Send, VInv, PcInv
<1>2. CASE speex = "none"
  BY <1>1, <1>2 DEF Send, Pipe, Unsent, Coded, Framed
<1>3. CASE speex # "none"
  <2>1. PICK d \in Seq(Sample), f \in Seq(Sample), one \in Seq(Sample), fx \in Seq(Sample) :
            /\ d = FlattenSeq(data) /\ f = frame /\ one = <<x>> /\ fx = f \o one
            /\ fx = Append(frame, x)
    <3>1. PICK f \in Seq(Sample) : f = frame
      BY PipeType
    <3>2. PICK one \in Seq(Sample) : one = <<x>> /\ Append(f, x) = f \o one
      BY SampleOne
    <3>3. f \o one \in Seq(Sample)
      BY SampleCat
    <3>4. QED
      BY <3>1, <3>2, <3>3, PipeType
  <2>2. /\ <<>> \o f = f /\ <<>> \o fx = fx /\ fx \o <<>> = fx
        /\ (d \o f) \o one = d \o (f \o one)
    BY SampleNone, SampleAssoc
  <2>3. Pipe = d \o f
    <3>1. Pipe = d \o (<<>> \o f)
      BY <1>1, <2>1 DEF Pipe, Unsent, Coded, Framed
    <3>2. QED
      BY <2>2, <3>1, Zenon
  <2>4. Pipe' = d \o fx
    <3>1. CASE Len(frame) + 1 < FrameLen
      <4>1. frame' = fx /\ pc' = "idle"
        <5>1. PICK n \in Nat : n = Len(frame) + 1 /\ n < FrameLen
          BY <3>1 DEF VInv, TypeOK
        <5>2. n # FrameLen
          BY <5>1, ConstType
        <5>3. frame' = Append(frame, queue[1][2]) /\ UNCHANGED pc
          BY <1>3, <5>1, <5>2 DEF Send
        <5>4. QED
          BY <1>1, <2>1, <5>3
      <4>2. Pipe' = d \o (<<>> \o fx)
        BY <1>1, <2>1, <4>1 DEF Pipe, Unsent, Coded, Framed
      <4>3. QED
        BY <2>2, <4>2, Zenon
    <3>2. CASE ~ (Len(frame) + 1 < FrameLen)
      <4>1. encoded' = fx /\ frame' = <<>> /\ pc' = "store"
        BY <1>1, <1>3, <2>1, <3>2 DEF Send
      <4>2. Pipe' = d \o (fx \o <<>>)
        BY <1>1, <2>1, <4>1 DEF Pipe, Unsent, Coded, Framed
      <4>3. QED
        BY <2>2, <4>2, Zenon
    <3>3. QED
      BY <3>1, <3>2
  <2>5. QED
    BY <1>3, <2>1, <2>2, <2>3, <2>4, Zenon
<1>4. QED
  BY <1>2, <1>3

\* A new encoder begins with an empty frame.
LEMMA PipeDrops ==
  ASSUME VInv, Create
  PROVE  /\ Pipe = Pipe' \o frame /\ Pipe' \in Seq(Sample)
         /\ Pipe' = FlattenSeq(data)
<1>1. pc = "create" /\ ~ stopping /\ pc' = "idle" /\ ~ stopping' /\ data' = data /\ frame' = <<>>
  BY DEF Create, VInv, PcInv
<1>2. PICK d \in Seq(Sample), f \in Seq(Sample) : d = FlattenSeq(data) /\ f = frame
  BY PipeType
<1>3. <<>> \o f = f /\ d \o <<>> = d /\ <<>> \o <<>> = <<>>
  BY SampleNone
<1>4. Pipe = d \o (<<>> \o f) /\ Pipe' = d \o (<<>> \o <<>>)
  BY <1>1, <1>2 DEF Pipe, Unsent, Coded, Framed
<1>5. Pipe = d \o f /\ Pipe' = d
  BY <1>3, <1>4, Zenon
<1>6. QED
  BY <1>2, <1>5

\* The application and the engine's task leave it alone, unless a callback is
\* interrupted.
LEMMA PipeApart ==
  ASSUME VInv, \/ App \/ duer_voice_initialize
               \/ (duer_voice_finalize /\ "interrupted" \notin mishaps')
  PROVE  Pipe' = Pipe /\ sent' = sent
<1>1. CASE App
  <2>1. UNCHANGED <<pc, stopping, frame, encoded, data, sent>>
    <3>1. CASE duer_voice_start
      BY <3>1 DEF duer_voice_start, Call
    <3>2. CASE duer_voice_send
      BY <3>2 DEF duer_voice_send, Call
    <3>3. CASE duer_voice_stop
      BY <3>3 DEF duer_voice_stop, Call
    <3>4. QED
      BY <1>1, <3>1, <3>2, <3>3 DEF App
  <2>2. QED
    BY <2>1 DEF Pipe, Unsent, Coded, Framed
<1>2. CASE duer_voice_initialize
  BY <1>2 DEF duer_voice_initialize, Pipe, Unsent, Coded, Framed
<1>3. CASE duer_voice_finalize /\ "interrupted" \notin mishaps'
  <2>1. pc = "idle" /\ ~ stopping
    BY <1>3 DEF duer_voice_finalize, VInv, PcInv
  <2>2. QED
    BY <1>3, <2>1 DEF duer_voice_finalize, Pipe, Unsent, Coded, Framed
<1>4. QED
  BY <1>1, <1>2, <1>3

-----------------------------------------------------------------------------
(* What a report adds to the samples the cloud has, and to a topic. *)

LEMMA SegmentFrames ==
  ASSUME NEW segments \in Seq(Segments)
  PROVE  [i \in DOMAIN segments |-> segments[i].frames] \in Seq(Seq(Seq(Sample)))
<1>1. ASSUME NEW i \in 1 .. Len(segments) PROVE segments[i].frames \in Seq(Seq(Sample))
  <2>1. PICK g \in Segments : g = segments[i]
    OBVIOUS
  <2>2. g.frames \in Seq(Seq(Sample))
    BY DEF Segments
  <2>3. QED
    BY <2>1, <2>2
<1>2. DOMAIN segments = 1 .. Len(segments) /\ Len(segments) \in Nat
  OBVIOUS
<1>3. QED
  BY <1>1, <1>2

LEMMA SamplesType == ASSUME NEW segments \in Seq(Segments) PROVE Samples(segments) \in Seq(Sample)
BY SegmentFrames, FlattenType DEF Samples

LEMMA SamplesNone == Samples(<<>>) = <<>>
<1>1. [i \in DOMAIN <<>> |-> <<>>[i].frames] = <<>>
  OBVIOUS
<1>2. QED
  BY <1>1, FlattenNone DEF Samples

LEMMA SamplesAppend ==
  ASSUME NEW segments \in Seq(Segments), NEW g \in Segments
  PROVE  Samples(Append(segments, g)) = Samples(segments) \o FlattenSeq(g.frames)
<1>1. PICK s \in Seq(Seq(Seq(Sample))) : s = [i \in DOMAIN segments |-> segments[i].frames]
  BY SegmentFrames
<1>2. PICK x \in Seq(Seq(Sample)) : x = g.frames
  BY DEF Segments
<1>3. PICK a : a = Append(segments, g)
  OBVIOUS
<1>4. [i \in DOMAIN a |-> a[i].frames] = Append(s, x)
  <2>1. PICK n \in Nat : n = Len(segments)
    OBVIOUS
  <2>2. /\ DOMAIN a = 1 .. n + 1 /\ a[n + 1] = g
        /\ \A i \in 1 .. n : a[i] = segments[i]
    BY <1>3, <2>1
  <2>3. DOMAIN s = 1 .. n /\ Len(s) = n /\ \A i \in 1 .. n : s[i] = segments[i].frames
    BY <1>1, <2>1
  <2>4. PICK b : b = Append(s, x)
    OBVIOUS
  <2>5. /\ b \in Seq(Seq(Seq(Sample))) /\ Len(b) = n + 1 /\ b[n + 1] = x
        /\ \A i \in 1 .. n : b[i] = s[i]
    BY <2>3, <2>4, CatOne
  <2>6. ASSUME NEW i \in 1 .. n + 1 PROVE a[i].frames = b[i]
    <3>1. CASE i = n + 1
      BY <1>2, <2>2, <2>5, <3>1
    <3>2. CASE i \in 1 .. n
      BY <2>2, <2>3, <2>5, <3>2
    <3>3. QED
      BY <3>1, <3>2
  <2>7. b = [i \in 1 .. n + 1 |-> b[i]]
    BY <2>5
  <2>8. QED
    BY <2>2, <2>4, <2>6, <2>7
<1>5. FlattenSeq(Append(s, x)) = FlattenSeq(s) \o x
  BY FlattenAppend
<1>6. FlattenSeq(s) \in Seq(Seq(Sample))
  BY FlattenType
<1>7. FlattenSeq(FlattenSeq(s) \o x) = FlattenSeq(FlattenSeq(s)) \o FlattenSeq(x)
  BY <1>6, FlattenCat
<1>8. Samples(segments) = FlattenSeq(FlattenSeq(s))
  BY <1>1 DEF Samples
<1>9. Samples(a) = FlattenSeq(FlattenSeq(Append(s, x)))
  BY <1>4 DEF Samples
<1>10. QED
  BY <1>2, <1>3, <1>5, <1>7, <1>8, <1>9

\* What is reported and what is on its way: as long as no callback is interrupted,
\* the voice task takes from the one what it gives to the other.
Flow == Samples(sent) \o Pipe

LEMMA FlowType == ASSUME VInv PROVE Flow \in Seq(Sample) /\ Samples(sent) \in Seq(Sample)
<1>1. Samples(sent) \in Seq(Sample)
  BY SamplesType DEF VInv, TypeOK
<1>2. QED
  BY <1>1, PipeType, SampleCat DEF Flow

LEMMA ReportFlow ==
  ASSUME VInv, NEW frames \in Seq(Seq(Sample)), NEW eof \in BOOLEAN, Report(frames, eof)
  PROVE  Samples(sent)' = Samples(sent) \o FlattenSeq(frames)
<1>1. PICK g \in Segments : g = Segment(frames, eof) /\ sent' = Append(sent, g)
  BY ReportTypes
<1>2. g.frames = frames
  BY <1>1 DEF Segment
<1>3. sent \in Seq(Segments)
  BY DEF VInv, TypeOK
<1>4. Samples(Append(sent, g)) = Samples(sent) \o FlattenSeq(g.frames)
  BY <1>3, SamplesAppend
<1>5. Samples(sent)' = Samples(Append(sent, g))
  BY <1>1 DEF Samples
<1>6. QED
  BY <1>2, <1>4, <1>5

LEMMA FlowKept ==
  ASSUME VInv, \/ Start \/ Clear \/ Eof \/ Close \/ Stop \/ Store \/ Forget \/ Full \/ Rest
               \/ App \/ duer_voice_initialize
               \/ (duer_voice_finalize /\ "interrupted" \notin mishaps')
  PROVE  Flow' = Flow
<1>1. CASE Start \/ Clear \/ Close \/ Stop \/ Store \/ Forget
  <2>1. sent' = sent
    BY <1>1 DEF Start, Clear, Close, Stop, Store, Forget
  <2>2. Pipe' = Pipe
    BY <1>1, PipeKept
  <2>3. QED
    BY <2>1, <2>2 DEF Flow, Samples
<1>2. CASE Eof
  <2>1. Report(<<>>, TRUE) /\ <<>> \in Seq(Seq(Sample)) /\ TRUE \in BOOLEAN
    BY <1>2, NoSamples DEF Eof
  <2>2. Samples(sent)' = Samples(sent) \o <<>>
    BY <2>1, ReportFlow, FlattenNone
  <2>3. Pipe' = Pipe /\ Samples(sent) \o <<>> = Samples(sent)
    BY <1>2, PipeKept, FlowType, SampleNone
  <2>4. QED
    BY <2>2, <2>3 DEF Flow
<1>3. CASE Full \/ (Rest /\ data # <<>>)
  <2>1. Report(data, FALSE) /\ data \in Seq(Seq(Sample)) /\ FALSE \in BOOLEAN
    BY <1>3 DEF Full, Rest, VInv, TypeOK
  <2>2. PICK s \in Seq(Sample), d \in Seq(Sample), p \in Seq(Sample) :
            s = Samples(sent) /\ d = FlattenSeq(data) /\ p = Pipe' /\ Pipe = d \o p
    BY <1>3, FlowType, PipeType, PipeReports
  <2>3. Samples(sent)' = s \o d
    BY <2>1, <2>2, ReportFlow
  <2>4. (s \o d) \o p = s \o (d \o p)
    BY SampleAssoc
  <2>5. QED
    BY <2>2, <2>3, <2>4 DEF Flow
<1>4. CASE Rest /\ data = <<>>
  <2>1. sent' = sent /\ Pipe' = Pipe
    BY <1>4, PipeRests DEF Rest
  <2>2. QED
    BY <2>1 DEF Flow, Samples
<1>5. CASE \/ App \/ duer_voice_initialize
           \/ (duer_voice_finalize /\ "interrupted" \notin mishaps')
  <2>1. Pipe' = Pipe /\ sent' = sent
    BY <1>5, PipeApart
  <2>2. QED
    BY <2>1 DEF Flow, Samples
<1>6. QED
  BY <1>1, <1>2, <1>3, <1>4, <1>5

LEMMA FlowTakes ==
  ASSUME VInv, Send
  PROVE  IF speex = "none" THEN Flow' = Flow ELSE Flow' = Flow \o <<queue[1][2]>>
<1>1. PICK x \in Sample : x = queue[1][2]
  BY HeadCall, CallKinds DEF Send
<1>2. sent' = sent
  BY DEF Send
<1>3. PICK s \in Seq(Sample), p \in Seq(Sample), one \in Seq(Sample) :
          s = Samples(sent) /\ p = Pipe /\ one = <<x>>
  BY FlowType, PipeType, SampleOne
<1>4. (s \o p) \o one = s \o (p \o one)
  BY SampleAssoc
<1>5. Samples(sent)' = s
  BY <1>2, <1>3 DEF Samples
<1>6. IF speex = "none" THEN Pipe' = p ELSE Pipe' = p \o one
  BY <1>1, <1>3, PipeTakes
<1>7. QED
  BY <1>1, <1>3, <1>4, <1>5, <1>6, Zenon DEF Flow

LEMMA FlowDrops ==
  ASSUME VInv, Create
  PROVE  Flow = Flow' \o frame /\ Flow' \in Seq(Sample)
<1>1. sent' = sent
  BY DEF Create
<1>2. PICK s \in Seq(Sample), p \in Seq(Sample), f \in Seq(Sample) :
          s = Samples(sent) /\ p = Pipe' /\ f = frame /\ Pipe = p \o f
  BY FlowType, PipeType, PipeDrops
<1>3. (s \o p) \o f = s \o (p \o f) /\ s \o p \in Seq(Sample)
  BY SampleAssoc, SampleCat
<1>4. Samples(sent)' = s
  BY <1>1, <1>2 DEF Samples
<1>5. QED
  BY <1>2, <1>3, <1>4, Zenon DEF Flow

-----------------------------------------------------------------------------
(* Nothing is reported twice: the samples that are reported, on their way and    *)
(* queued come in the order the application sent them, whatever is missing.      *)

Ordered(s) == \A i, j \in 1 .. Len(s) : i < j => Before(s[i], s[j])
Behind(s, x) == \A i \in 1 .. Len(s) : Before(s[i], x)

\* Given to duer_voice_send by now.
Given(x, r, n) == x[1] < r \/ (x[1] = r /\ x[2] <= n)

QueueOrdered(q) ==
    \A i, j \in 1 .. Len(q) :
        i < j /\ q[i][1] = "send" /\ q[j][1] = "send" => Before(q[i][2], q[j][2])
QueueBehind(s, q) == \A i \in 1 .. Len(q) : q[i][1] = "send" => Behind(s, q[i][2])

FlowInv ==
    "interrupted" \notin mishaps =>
        /\ Ordered(Flow) /\ QueueOrdered(queue) /\ QueueBehind(Flow, queue)
        /\ \A i \in 1 .. Len(Flow) : Given(Flow[i], recording, samples)
        /\ \A i \in 1 .. Len(queue) :
               queue[i][1] = "send" => Given(queue[i][2], recording, samples)
        /\ speex = "freed" => pc \in {"create", "forget"}

LEMMA OrderedTakes ==
  ASSUME NEW s \in Seq(Sample), NEW x \in Sample, Ordered(s), Behind(s, x)
  PROVE  Ordered(s \o <<x>>)
<1>1. PICK n \in Nat : n = Len(s)
  OBVIOUS
<1>2. PICK a \in Seq(Sample) : a = s \o <<x>> /\ a = Append(s, x)
  BY SampleOne, SampleCat
<1>3. Len(a) = n + 1 /\ a[n + 1] = x /\ \A i \in 1 .. n : a[i] = s[i]
  BY <1>1, <1>2
<1>4. ASSUME NEW i \in 1 .. n + 1, NEW j \in 1 .. n + 1, i < j PROVE Before(a[i], a[j])
  <2>1. i \in 1 .. n
    BY <1>4
  <2>2. CASE j \in 1 .. n
    BY <1>1, <1>3, <1>4, <2>1, <2>2 DEF Ordered
  <2>3. CASE j = n + 1
    BY <1>1, <1>3, <2>1, <2>3 DEF Behind
  <2>4. QED
    BY <2>2, <2>3
<1>5. QED
  BY <1>2, <1>3, <1>4 DEF Ordered

\* A flow that only lost samples at its end is in order too, and what is queued is
\* behind it.
LEMMA OrderedDrops ==
  ASSUME NEW s \in Seq(Sample), NEW t \in Seq(Sample), NEW u \in Seq(Sample), u = s \o t,
         Ordered(u)
  PROVE  Ordered(s) /\ Len(s) <= Len(u) /\ \A i \in 1 .. Len(s) : s[i] = u[i]
<1>1. /\ Len(u) = Len(s) + Len(t) /\ Len(s) \in Nat /\ Len(t) \in Nat
      /\ \A i \in 1 .. Len(s) : u[i] = s[i]
  BY SampleCat
<1>2. Len(s) <= Len(u) /\ \A i \in 1 .. Len(s) : i \in 1 .. Len(u)
  BY <1>1
<1>3. Ordered(s)
  BY <1>1, <1>2 DEF Ordered
<1>4. QED
  BY <1>1, <1>2, <1>3

\* A step that takes nothing from a call: the flow is as it was or loses its end, the
\* queue is as it was or loses its head.
LEMMA FlowStill ==
  ASSUME VInv, FlowInv, "interrupted" \notin mishaps, NEW f \in Seq(Sample),
         Flow' \in Seq(Sample), Flow' = Flow \/ Flow = Flow' \o f,
         \/ queue' = queue
         \/ queue' = <<>>
         \/ queue # <<>> /\ queue' = Tail(queue),
         UNCHANGED <<recording, samples>>,
         speex' = "freed" => pc' \in {"create", "forget"}
  PROVE  FlowInv'
<1>1. PICK s \in Seq(Sample), u \in Seq(Sample) : s = Flow' /\ u = Flow
  BY FlowType
<1>2. Ordered(u)
  BY <1>1 DEF FlowInv
<1>3. Ordered(s) /\ Len(s) <= Len(u) /\ \A i \in 1 .. Len(s) : s[i] = u[i]
  <2>1. CASE s = u
    BY <1>2, <2>1
  <2>2. CASE u = s \o f
    BY <1>2, <2>2, OrderedDrops
  <2>3. QED
    BY <1>1, <2>1, <2>2
<1>4. \A i \in 1 .. Len(s) : i \in 1 .. Len(u)
  BY <1>3
<1>5. PICK q : q = queue'
  OBVIOUS
<1>6. PICK d \in {0, 1} : /\ Len(q) \in Nat
                          /\ \A i \in 1 .. Len(q) : i + d \in 1 .. Len(queue) /\ q[i] = queue[i + d]
  <2>1. CASE q = queue
    <3>1. \A i \in 1 .. Len(q) : i + 0 \in 1 .. Len(queue) /\ q[i] = queue[i + 0]
      BY <2>1
    <3>2. Len(q) \in Nat
      BY <2>1 DEF VInv, TypeOK
    <3>3. QED
      BY <3>1, <3>2
  <2>2. CASE q = <<>>
    BY <2>2
  <2>3. CASE queue # <<>> /\ q = Tail(queue)
    <3>1. /\ Len(queue) \in Nat /\ Len(q) = Len(queue) - 1 /\ Len(queue) > 0
          /\ \A i \in 1 .. Len(queue) - 1 : q[i] = queue[i + 1]
      BY <2>3, HeadCall DEF VInv, TypeOK
    <3>2. \A i \in 1 .. Len(q) : i + 1 \in 1 .. Len(queue) /\ q[i] = queue[i + 1]
      BY <3>1
    <3>3. QED
      BY <3>1, <3>2
  <2>4. QED
    BY <1>5, <2>1, <2>2, <2>3
<1>7. QueueOrdered(q)
  <2>1. SUFFICES ASSUME NEW i \in 1 .. Len(q), NEW j \in 1 .. Len(q), i < j,
                        q[i][1] = "send", q[j][1] = "send"
                 PROVE  Before(q[i][2], q[j][2])
    BY DEF QueueOrdered
  <2>2. PICK a \in 1 .. Len(queue), b \in 1 .. Len(queue) :
            a = i + d /\ b = j + d /\ q[i] = queue[a] /\ q[j] = queue[b]
    BY <1>6
  <2>3. a < b
    BY <1>6, <2>1, <2>2
  <2>4. QueueOrdered(queue)
    BY DEF FlowInv
  <2>5. QED
    BY <2>1, <2>2, <2>3, <2>4 DEF QueueOrdered
<1>8. QueueBehind(s, q)
  <2>1. SUFFICES ASSUME NEW i \in 1 .. Len(q), q[i][1] = "send", NEW k \in 1 .. Len(s)
                 PROVE  Before(s[k], q[i][2])
    BY DEF QueueBehind, Behind
  <2>2. PICK a \in 1 .. Len(queue) : q[i] = queue[a]
    BY <1>6
  <2>3. Behind(u, queue[a][2])
    BY <1>1, <2>1, <2>2 DEF FlowInv, QueueBehind
  <2>4. QED
    BY <1>3, <1>4, <2>2, <2>3 DEF Behind
<1>9. \A i \in 1 .. Len(s) : Given(s[i], recording', samples')
  <2>1. \A i \in 1 .. Len(u) : Given(u[i], recording, samples)
    BY <1>1 DEF FlowInv
  <2>2. QED
    BY <1>3, <1>4, <2>1
<1>10. \A i \in 1 .. Len(q) : q[i][1] = "send" => Given(q[i][2], recording', samples')
  <2>1. \A i \in 1 .. Len(queue) :
            queue[i][1] = "send" => Given(queue[i][2], recording, samples)
    BY DEF FlowInv
  <2>2. \A i \in 1 .. Len(q) : \E a \in 1 .. Len(queue) : q[i] = queue[a]
    BY <1>6
  <2>3. QED
    BY <2>1, <2>2
<1>11. QED
  BY <1>1, <1>3, <1>5, <1>7, <1>8, <1>9, <1>10, Zenon DEF FlowInv

\* A call that is queued comes after all that was given before.
LEMMA FlowCalled ==
  ASSUME VInv, FlowInv, "interrupted" \notin mishaps, NEW m \in Calls,
         Flow' = Flow, queue' = queue \/ queue' = Append(queue, m), UNCHANGED <<speex, pc>>,
         recording' \in Nat, samples' \in Nat,
         NEW r \in Nat, NEW n \in Nat, r = recording, n = samples,
         recording' > r \/ (recording' = r /\ samples' >= n),
         m[1] = "send" => /\ m[2] = <<recording', samples'>>
                          /\ recording' = r /\ samples' > n
  PROVE  FlowInv'
<1>1. \A x \in Sample : Given(x, r, n) => Given(x, recording', samples')
  BY DEF Given, Sample, Recordings
<1>2. m[1] = "send" => \A x \in Sample : Given(x, r, n) => Before(x, m[2])
  BY DEF Given, Before, Sample, Recordings
<1>3. m[1] = "send" => Given(m[2], recording', samples')
  BY DEF Given
<1>4. PICK u \in Seq(Sample) : u = Flow /\ u = Flow'
  BY FlowType
<1>5. \A i \in 1 .. Len(u) : u[i] \in Sample /\ Given(u[i], r, n)
  BY <1>4 DEF FlowInv
<1>6. \A i \in 1 .. Len(queue) :
          queue[i][1] = "send" => queue[i][2] \in Sample /\ Given(queue[i][2], r, n)
  <2>1. \A i \in 1 .. Len(queue) : queue[i] \in Calls
    BY DEF VInv, TypeOK
  <2>2. QED
    BY <2>1, CallKinds DEF FlowInv
<1>7. PICK q : q = queue'
  OBVIOUS
<1>8. Ordered(u) /\ QueueOrdered(queue) /\ QueueBehind(u, queue)
  BY <1>4 DEF FlowInv
<1>9. CASE q = queue
  <2>1. \A i \in 1 .. Len(q) : q[i][1] = "send" => Given(q[i][2], recording', samples')
    BY <1>1, <1>6, <1>9
  <2>2. \A i \in 1 .. Len(u) : Given(u[i], recording', samples')
    BY <1>1, <1>5
  <2>3. speex' = "freed" => pc' \in {"create", "forget"}
    BY DEF FlowInv
  <2>4. QED
    BY <1>4, <1>7, <1>8, <1>9, <2>1, <2>2, <2>3, Zenon DEF FlowInv
<1>10. CASE q = Append(queue, m)
  <2>1. PICK k \in Nat : k = Len(queue)
    BY DEF VInv, TypeOK
  <2>2. Len(q) = k + 1 /\ q[k + 1] = m /\ \A i \in 1 .. k : q[i] = queue[i]
    BY <1>10, <2>1 DEF VInv, TypeOK
  <2>3. QueueOrdered(q)
    <3>1. SUFFICES ASSUME NEW i \in 1 .. k + 1, NEW j \in 1 .. k + 1, i < j,
                          q[i][1] = "send", q[j][1] = "send"
                   PROVE  Before(q[i][2], q[j][2])
      BY <2>2 DEF QueueOrdered
    <3>2. i \in 1 .. k
      BY <3>1
    <3>3. CASE j \in 1 .. k
      BY <1>8, <2>1, <2>2, <3>1, <3>2, <3>3 DEF QueueOrdered
    <3>4. CASE j = k + 1
      BY <1>2, <1>6, <2>1, <2>2, <3>1, <3>2, <3>4
    <3>5. QED
      BY <3>3, <3>4
  <2>4. QueueBehind(u, q)
    <3>1. SUFFICES ASSUME NEW i \in 1 .. k + 1, q[i][1] = "send" PROVE Behind(u, q[i][2])
      BY <2>2 DEF QueueBehind
    <3>2. CASE i \in 1 .. k
      BY <1>8, <2>1, <2>2, <3>1, <3>2 DEF QueueBehind
    <3>3. CASE i = k + 1
      BY <1>2, <1>5, <2>2, <3>1, <3>3 DEF Behind
    <3>4. QED
      BY <3>2, <3>3
  <2>5. ASSUME NEW i \in 1 .. k + 1, q[i][1] = "send"
        PROVE  Given(q[i][2], recording', samples')
    <3>1. CASE i \in 1 .. k
      BY <1>1, <1>6, <2>1, <2>2, <2>5, <3>1
    <3>2. CASE i = k + 1
      BY <1>3, <2>2, <2>5, <3>2
    <3>3. QED
      BY <3>1, <3>2
  <2>6. \A i \in 1 .. Len(u) : Given(u[i], recording', samples')
    BY <1>1, <1>5
  <2>7. speex' = "freed" => pc' \in {"create", "forget"}
    BY DEF FlowInv
  <2>8. \A i \in 1 .. Len(q) : q[i][1] = "send" => Given(q[i][2], recording', samples')
    BY <2>2, <2>5
  <2>9. QED
    BY <1>4, <1>7, <1>8, <2>3, <2>4, <2>6, <2>7, <2>8, Zenon DEF FlowInv
<1>11. QED
  BY <1>7, <1>9, <1>10

LEMMA FlowApp == ASSUME VInv, FlowInv, App, "interrupted" \notin mishaps PROVE FlowInv'
<1>1. Flow' = Flow
  BY FlowKept
<1>2. recording \in Nat /\ samples \in Nat
  BY ConstType DEF VInv, TypeOK
<1>3. CASE duer_voice_start
  <2>1. recording' = recording + 1 /\ samples' = 0 /\ UNCHANGED <<speex, pc>>
    BY <1>3 DEF duer_voice_start, Call
  <2>2. recording' \in Recordings
    BY <1>3, <1>2, ConstType DEF duer_voice_start, Recordings
  <2>3. PICK m \in Calls : m = StartMsg(recording')
    BY <2>2 DEF Calls
  <2>4. m[1] # "send"
    BY <2>3 DEF StartMsg
  <2>5. queue' = queue \/ queue' = Append(queue, m)
    BY <1>3, <2>3 DEF duer_voice_start, Call
  <2>6. recording' > recording /\ recording' \in Nat /\ samples' \in Nat
    BY <1>2, <2>1
  <2>7. QED
    BY <1>1, <1>2, <2>1, <2>4, <2>5, <2>6, FlowCalled
<1>4. CASE duer_voice_send
  <2>1. samples' = samples + 1 /\ UNCHANGED <<recording, speex, pc>>
    BY <1>4 DEF duer_voice_send, Call
  <2>2. recording \in Recordings /\ samples' \in 1 .. MaxSamples
    BY <1>4, <1>2, ConstType DEF duer_voice_send, VInv, TypeOK, PcInv, Recordings
  <2>3. PICK m \in Calls : m = SendMsg(recording, samples')
    BY <2>2 DEF Calls
  <2>4. m[2] = <<recording', samples'>>
    BY <2>1, <2>3 DEF SendMsg
  <2>5. queue' = queue \/ queue' = Append(queue, m)
    BY <1>4, <2>3 DEF duer_voice_send, Call
  <2>6. /\ recording' = recording /\ samples' > samples /\ samples' >= samples
        /\ recording' \in Nat /\ samples' \in Nat
    BY <1>2, <2>1
  <2>7. QED
    BY <1>1, <1>2, <2>1, <2>4, <2>5, <2>6, FlowCalled
<1>5. CASE duer_voice_stop
  <2>1. UNCHANGED <<recording, samples, speex, pc>>
    BY <1>5 DEF duer_voice_stop, Call
  <2>2. PICK m \in Calls : m = StopMsg
    BY DEF Calls
  <2>3. m[1] # "send"
    BY <2>2 DEF StopMsg
  <2>4. queue' = queue \/ queue' = Append(queue, m)
    BY <1>5, <2>2 DEF duer_voice_stop, Call
  <2>5. recording' = recording /\ samples' >= samples /\ recording' \in Nat /\ samples' \in Nat
    BY <1>2, <2>1
  <2>6. QED
    BY <1>1, <1>2, <2>1, <2>3, <2>4, <2>5, FlowCalled
<1>6. QED
  BY <1>3, <1>4, <1>5 DEF App

LEMMA FlowSend == ASSUME VInv, FlowInv, Send, "interrupted" \notin mishaps PROVE FlowInv'
<1>1. /\ queue # <<>> /\ queue[1][1] = "send" /\ queue' = Tail(queue) /\ pc = "idle"
      /\ UNCHANGED <<speex, recording, samples, mishaps>>
  BY DEF Send
<1>2. PICK x \in Sample : x = queue[1][2]
  BY <1>1, HeadCall, CallKinds
<1>3. speex' # "freed"
  BY <1>1 DEF FlowInv
<1>4. PICK u \in Seq(Sample) : u = Flow
  BY FlowType
<1>5. CASE speex = "none"
  <2>1. Flow' = Flow
    BY <1>5, FlowTakes
  <2>2. QED
    BY <1>1, <1>3, <1>4, <2>1, FlowStill
<1>6. CASE speex # "none"
  <2>1. PICK a \in Seq(Sample) : a = u \o <<x>> /\ a = Append(u, x)
    BY SampleOne, SampleCat
  <2>2. Flow' = a
    BY <1>2, <1>4, <1>6, <2>1, FlowTakes
  <2>3. PICK n \in Nat : n = Len(u)
    OBVIOUS
  <2>4. Len(a) = n + 1 /\ a[n + 1] = x /\ \A i \in 1 .. n : a[i] = u[i]
    BY <2>1, <2>3
  <2>5. PICK q : q = queue'
    OBVIOUS
  <2>6. /\ Len(q) \in Nat /\ Len(queue) = Len(q) + 1
        /\ \A i \in 1 .. Len(q) : q[i] = queue[i + 1]
    BY <1>1, <2>5, HeadCall DEF VInv, TypeOK
  <2>7. 1 \in 1 .. Len(queue)
        /\ \A i \in 1 .. Len(q) : i + 1 \in 1 .. Len(queue) /\ 1 < i + 1
    BY <2>6
  <2>8. /\ Ordered(u) /\ QueueOrdered(queue) /\ QueueBehind(u, queue)
        /\ \A i \in 1 .. Len(u) : Given(u[i], recording, samples)
        /\ \A i \in 1 .. Len(queue) :
               queue[i][1] = "send" => Given(queue[i][2], recording, samples)
    BY <1>4 DEF FlowInv
  <2>9. Behind(u, x)
    BY <1>1, <1>2, <2>7, <2>8 DEF QueueBehind
  <2>10. Ordered(a)
    BY <2>1, <2>8, <2>9, OrderedTakes
  <2>11. QueueOrdered(q)
    <3>1. SUFFICES ASSUME NEW i \in 1 .. Len(q), NEW j \in 1 .. Len(q), i < j,
                          q[i][1] = "send", q[j][1] = "send"
                   PROVE  Before(q[i][2], q[j][2])
      BY DEF QueueOrdered
    <3>2. PICK b \in 1 .. Len(queue), c \in 1 .. Len(queue) :
              b = i + 1 /\ c = j + 1 /\ q[i] = queue[b] /\ q[j] = queue[c]
      BY <2>6, <2>7
    <3>3. b < c
      BY <3>1, <3>2
    <3>4. QED
      BY <2>8, <3>1, <3>2, <3>3 DEF QueueOrdered
  <2>12. QueueBehind(a, q)
    <3>1. SUFFICES ASSUME NEW i \in 1 .. Len(q), q[i][1] = "send", NEW k \in 1 .. n + 1
                   PROVE  Before(a[k], q[i][2])
      BY <2>4 DEF QueueBehind, Behind
    <3>2. PICK b \in 1 .. Len(queue) : q[i] = queue[b] /\ 1 < b
      BY <2>6, <2>7
    <3>3. CASE k \in 1 .. n
      <4>1. Behind(u, queue[b][2])
        BY <2>8, <3>1, <3>2 DEF QueueBehind
      <4>2. QED
        BY <2>3, <2>4, <3>2, <3>3, <4>1 DEF Behind
    <3>4. CASE k = n + 1
      <4>1. Before(queue[1][2], queue[b][2])
        BY <1>1, <2>7, <2>8, <3>1, <3>2 DEF QueueOrdered
      <4>2. QED
        BY <1>2, <2>4, <3>2, <3>4, <4>1
    <3>5. QED
      BY <3>3, <3>4
  <2>13. ASSUME NEW i \in 1 .. n + 1 PROVE Given(a[i], recording, samples)
    <3>1. CASE i \in 1 .. n
      BY <2>3, <2>4, <2>8, <3>1
    <3>2. CASE i = n + 1
      BY <1>1, <1>2, <2>4, <2>7, <2>8, <3>2
    <3>3. QED
      BY <3>1, <3>2
  <2>14. \A i \in 1 .. Len(a) : Given(a[i], recording', samples')
    BY <1>1, <2>4, <2>13
  <2>15. \A i \in 1 .. Len(q) : q[i][1] = "send" => Given(q[i][2], recording', samples')
    BY <1>1, <2>6, <2>7, <2>8
  <2>16. QED
    BY <1>3, <2>2, <2>5, <2>10, <2>11, <2>12, <2>14, <2>15, Zenon DEF FlowInv
<1>7. QED
  BY <1>5, <1>6

LEMMA FlowNext == ASSUME VInv, FlowInv, [Next]_vars PROVE FlowInv'
<1>1. CASE "interrupted" \in mishaps'
  BY <1>1 DEF FlowInv
<1>2. CASE "interrupted" \notin mishaps'
  <2>1. "interrupted" \notin mishaps
    <3>1. CASE App
      BY <1>2, <3>1 DEF App, duer_voice_start, duer_voice_send, duer_voice_stop, Call
    <3>2. CASE duer_voice_initialize \/ duer_voice_finalize
      BY <1>2, <3>2 DEF duer_voice_initialize, duer_voice_finalize
    <3>3. CASE Task
      BY <1>2, <3>3 DEF Task, Start, Create, Send, Stop, Full, Clear, Store, Rest, Eof, Close, Forget
    <3>4. CASE UNCHANGED vars
      BY <1>2, <3>4 DEF vars
    <3>5. QED
      BY <3>1, <3>2, <3>3, <3>4 DEF Next
  <2>2. CASE App
    BY <2>1, <2>2, FlowApp
  <2>3. CASE Send
    BY <2>1, <2>3, FlowSend
  <2>4. CASE Create
    <3>1. Flow = Flow' \o frame /\ Flow' \in Seq(Sample) /\ frame \in Seq(Sample)
      BY <2>4, FlowDrops, PipeType
    <3>2. /\ queue # <<>> /\ queue' = Tail(queue) /\ UNCHANGED <<recording, samples>>
          /\ speex' = "live"
      BY <2>4 DEF Create, VInv, PcInv
    <3>3. QED
      BY <2>1, <3>1, <3>2, FlowStill
  <2>5. CASE duer_voice_initialize \/ duer_voice_finalize
    <3>1. Flow' = Flow /\ Flow \in Seq(Sample)
      BY <1>2, <2>5, FlowKept, FlowType
    <3>2. (queue' = queue \/ queue' = <<>>) /\ UNCHANGED <<recording, samples, speex>>
      BY <2>5 DEF duer_voice_initialize, duer_voice_finalize
    <3>3. speex = "freed" => pc' \in {"create", "forget"}
      BY <1>2, <2>1, <2>5 DEF FlowInv, duer_voice_initialize, duer_voice_finalize
    <3>4. QED
      BY <2>1, <3>1, <3>2, <3>3, FlowStill
  <2>6. CASE Start \/ Stop \/ Full \/ Clear \/ Store \/ Rest \/ Eof \/ Close \/ Forget
    <3>1. Flow' = Flow /\ Flow \in Seq(Sample)
      BY <2>6, FlowKept, FlowType
    <3>2. queue' = queue \/ (queue # <<>> /\ queue' = Tail(queue))
      <4>1. CASE Stop
        BY <4>1 DEF Stop
      <4>2. CASE Forget
        BY <4>2 DEF Forget, VInv, PcInv
      <4>3. CASE Start \/ Full \/ Clear \/ Store \/ Rest \/ Eof \/ Close
        BY <4>3 DEF Start, Full, Clear, Store, Rest, Eof, Close
      <4>4. QED
        BY <2>6, <4>1, <4>2, <4>3
    <3>3. UNCHANGED <<recording, samples>>
      BY <2>6 DEF Start, Stop, Full, Clear, Store, Rest, Eof, Close, Forget
    <3>4. speex' = "freed" => pc' \in {"create", "forget"}
      <4>1. speex = "freed" => pc \in {"create", "forget"}
        BY <2>1 DEF FlowInv
      <4>2. CASE Start
        BY <4>2 DEF Start
      <4>3. CASE Close \/ Forget
        BY <4>3 DEF Close, Forget
      <4>4. CASE Stop \/ Full \/ Clear \/ Store \/ Rest \/ Eof
        BY <4>1, <4>4 DEF Stop, Full, Clear, Store, Rest, Eof
      <4>5. QED
        BY <2>6, <4>2, <4>3, <4>4
    <3>5. QED
      BY <2>1, <3>1, <3>2, <3>3, <3>4, FlowStill
  <2>7. CASE UNCHANGED vars
    <3>1. Flow' = Flow
      BY <2>7 DEF vars, Flow, Samples, Pipe, Unsent, Coded, Framed
    <3>2. QED
      BY <2>7, <3>1 DEF vars, FlowInv
  <2>8. QED
    BY <2>2, <2>3, <2>4, <2>5, <2>6, <2>7 DEF Next, Task
<1>3. QED
  BY <1>1, <1>2

LEMMA FlowStart == ASSUME Init PROVE FlowInv
<1>1. Samples(sent) = <<>>
  BY SamplesNone DEF Init
<1>2. Pipe = <<>> \o (<<>> \o <<>>)
  BY FlattenNone DEF Init, Pipe, Unsent, Coded, Framed
<1>3. Flow = <<>>
  <2>1. <<>> \o <<>> = <<>>
    OBVIOUS
  <2>2. QED
    BY <1>1, <1>2, <2>1, Zenon DEF Flow
<1>4. Len(<<>>) = 0
  OBVIOUS
<1>5. QED
  BY <1>3, <1>4 DEF Init, FlowInv, Ordered, QueueOrdered, QueueBehind

\* No sample is reported twice or before an earlier one, though calls are lost, come out
\* of turn, or are cut by the end of the connection between two callbacks, and the
\* encoder is not left destroyed for the next call (duer_speex_encoded_callback,
\* duer_voice_stop_internal, duer_voice_start_internal).
THEOREM VoiceNothingTwice == Spec => []NothingTwice
<1> DEFINE Inv == VInv /\ FlowInv
<1>1. Init => Inv
  BY TypesStart, FlowStart
<1>2. Inv /\ [Next]_vars => Inv'
  BY TypesNext, FlowNext
<1>3. Inv => NothingTwice
  <2>1. SUFFICES ASSUME Inv, "interrupted" \notin mishaps
                 PROVE  /\ \A i \in 1 .. Len(Samples(sent)) - 1 :
                               Before(Samples(sent)[i], Samples(sent)[i + 1])
                        /\ speex = "freed" => pc \in {"create", "forget"}
    BY DEF NothingTwice
  <2>2. PICK s \in Seq(Sample), p \in Seq(Sample), u \in Seq(Sample) :
            s = Samples(sent) /\ p = Pipe /\ u = s \o p /\ u = Flow
    <3>1. Samples(sent) \in Seq(Sample) /\ Flow \in Seq(Sample) /\ Pipe \in Seq(Sample)
      BY <2>1, FlowType, PipeType
    <3>2. Flow = Samples(sent) \o Pipe
      BY DEF Flow
    <3>3. QED
      BY <3>1, <3>2
  <2>3. Ordered(u)
    BY <2>1, <2>2 DEF FlowInv
  <2>4. Ordered(s)
    BY <2>2, <2>3, OrderedDrops
  <2>5. \A i \in 1 .. Len(s) - 1 : i \in 1 .. Len(s) /\ i + 1 \in 1 .. Len(s) /\ i < i + 1
    BY <2>2
  <2>6. \A i \in 1 .. Len(s) - 1 : Before(s[i], s[i + 1])
    BY <2>4, <2>5 DEF Ordered
  <2>7. QED
    BY <2>1, <2>2, <2>6 DEF FlowInv
<1>4. QED
  <2> HIDE DEF Inv
  <2>1. QED
    BY <1>1, <1>2, <1>3, PTL DEF Spec

-----------------------------------------------------------------------------
(* A topic is its recording: the calls that are queued lead from where the voice   *)
(* task is in the recordings to where the application is.                          *)

\* A recording, the samples of it so far, and whether it is not stopped yet.
Cursor == Nat \X Nat \X BOOLEAN

Step(c, m, d) ==
    \/ m = StartMsg(c[1] + 1) /\ ~ c[3] /\ d = <<c[1] + 1, 0, TRUE>>
    \/ m = SendMsg(c[1], c[2] + 1) /\ c[3] /\ d = <<c[1], c[2] + 1, TRUE>>
    \/ m = StopMsg /\ c[3] /\ d = <<c[1], c[2], FALSE>>

Along(q, p) == \A k \in 1 .. Len(q) : Step(p[k - 1], q[k], p[k])
Path(q, c, d) ==
    \E p \in [0 .. Len(q) -> Cursor] : p[0] = c /\ p[Len(q)] = d /\ Along(q, p)

LEMMA PathNone == ASSUME NEW c \in Cursor, NEW d \in Cursor PROVE Path(<<>>, c, d) <=> c = d
<1>1. Len(<<>>) = 0
  OBVIOUS
<1>2. ASSUME Path(<<>>, c, d) PROVE c = d
  BY <1>1, <1>2 DEF Path
<1>3. ASSUME c = d PROVE Path(<<>>, c, d)
  <2>1. PICK p : p = [k \in 0 .. 0 |-> c]
    OBVIOUS
  <2>2. p \in [0 .. 0 -> Cursor] /\ p[0] = c
    BY <2>1
  <2>3. Along(<<>>, p)
    BY <1>1 DEF Along
  <2>4. QED
    BY <1>1, <1>3, <2>2, <2>3 DEF Path
<1>4. QED
  BY <1>2, <1>3

LEMMA PathAppend ==
  ASSUME NEW q \in Seq(Calls), NEW c \in Cursor, NEW d \in Cursor, NEW e \in Cursor,
         NEW m \in Calls, Path(q, c, d), Step(d, m, e)
  PROVE  Path(Append(q, m), c, e)
<1>1. PICK n \in Nat, a \in {Append(q, m)} : n = Len(q) /\ a = Append(q, m)
  <2>1. Len(q) \in Nat
    OBVIOUS
  <2>2. QED
    BY <2>1
<1>2. Len(a) = n + 1 /\ a[n + 1] = m /\ \A k \in 1 .. n : a[k] = q[k]
  BY <1>1
<1>3. PICK p \in [0 .. n -> Cursor] : p[0] = c /\ p[n] = d /\ Along(q, p)
  BY <1>1 DEF Path
<1>4. PICK f : f = [k \in 0 .. n + 1 |-> IF k = n + 1 THEN e ELSE p[k]]
  OBVIOUS
<1>5. /\ f \in [0 .. n + 1 -> Cursor] /\ f[n + 1] = e
      /\ \A k \in 0 .. n : f[k] = p[k]
  BY <1>4
<1>6. f[0] = c /\ f[n] = d
  BY <1>3, <1>5
<1>7. ASSUME NEW k \in 1 .. n + 1 PROVE Step(f[k - 1], a[k], f[k])
  <2>1. CASE k = n + 1
    <3>1. k - 1 = n
      BY <2>1
    <3>2. QED
      BY <1>2, <1>5, <1>6, <2>1, <3>1
  <2>2. CASE k \in 1 .. n
    <3>1. k - 1 \in 0 .. n /\ k \in 0 .. n
      BY <2>2
    <3>2. Step(p[k - 1], q[k], p[k])
      BY <1>1, <1>3, <2>2 DEF Along
    <3>3. QED
      BY <1>2, <1>5, <2>2, <3>1, <3>2
  <2>3. QED
    BY <2>1, <2>2
<1>8. Along(a, f)
  BY <1>2, <1>7 DEF Along
<1>9. QED
  BY <1>1, <1>2, <1>5, <1>6, <1>8 DEF Path

LEMMA PathTail ==
  ASSUME NEW q \in Seq(Calls), NEW c \in Cursor, NEW d \in Cursor, q # <<>>, Path(q, c, d)
  PROVE  \E e \in Cursor : Step(c, q[1], e) /\ Path(Tail(q), e, d)
<1>1. PICK n \in Nat, t \in {Tail(q)} : t = Tail(q) /\ Len(q) = n + 1 /\ Len(t) = n
  <2>1. Len(q) \in Nat /\ Len(q) > 0 /\ Len(Tail(q)) = Len(q) - 1
    OBVIOUS
  <2>2. Len(q) - 1 \in Nat /\ Len(q) = (Len(q) - 1) + 1
    BY <2>1
  <2>3. QED
    BY <2>1, <2>2
<1>2. \A k \in 1 .. n : t[k] = q[k + 1]
  BY <1>1
<1>3. PICK p \in [0 .. n + 1 -> Cursor] : p[0] = c /\ p[n + 1] = d /\ Along(q, p)
  BY <1>1 DEF Path
<1>4. PICK f : f = [k \in 0 .. n |-> p[k + 1]]
  OBVIOUS
<1>5. /\ f \in [0 .. n -> Cursor] /\ \A k \in 0 .. n : f[k] = p[k + 1]
  BY <1>4
<1>6. f[n] = d /\ f[0] \in Cursor /\ f[0] = p[1]
  BY <1>3, <1>5
<1>7. Step(c, q[1], f[0])
  <2>1. 1 \in 1 .. Len(q) /\ 1 - 1 = 0
    BY <1>1
  <2>2. Step(p[1 - 1], q[1], p[1])
    BY <1>3, <2>1 DEF Along
  <2>3. QED
    BY <1>3, <1>6, <2>1, <2>2
<1>8. ASSUME NEW k \in 1 .. n PROVE Step(f[k - 1], t[k], f[k])
  <2>1. /\ k + 1 \in 1 .. Len(q) /\ (k + 1) - 1 = k /\ (k - 1) + 1 = k
        /\ k - 1 \in 0 .. n /\ k \in 0 .. n
    BY <1>1
  <2>2. Step(p[(k + 1) - 1], q[k + 1], p[k + 1])
    BY <1>3, <2>1 DEF Along
  <2>3. QED
    BY <1>2, <1>5, <2>1, <2>2
<1>9. Path(t, f[0], d)
  <2>1. Along(t, f)
    BY <1>1, <1>8 DEF Along
  <2>2. QED
    BY <1>1, <1>5, <1>6, <2>1 DEF Path
<1>10. QED
  BY <1>1, <1>6, <1>7, <1>9

\* The recordings only go forward: behind a recording that was stopped there is a
\* later one, or nothing.
LEMMA PathForward ==
  ASSUME NEW q \in Seq(Calls), NEW c \in Cursor, NEW d \in Cursor, Path(q, c, d)
  PROVE  c[1] <= d[1] /\ (~ c[3] /\ c[1] = d[1] => q = <<>>)
<1>1. PICK n \in Nat : n = Len(q)
  OBVIOUS
<1>2. PICK p \in [0 .. n -> Cursor] : p[0] = c /\ p[n] = d /\ Along(q, p)
  BY <1>1 DEF Path
<1> DEFINE Later(k) == c[1] <= p[k][1] /\ (~ c[3] => c[1] < p[k][1])
           S == {k \in Nat : k \in 1 .. n => Later(k)}
<1>3. \A k \in 0 .. n : p[k] \in Cursor /\ p[k][1] \in Nat
  BY DEF Cursor
<1>4. 0 \in S
  OBVIOUS
<1>5. ASSUME NEW k \in Nat, k \in S PROVE k + 1 \in S
  <2>1. SUFFICES ASSUME k + 1 \in 1 .. n PROVE Later(k + 1)
    OBVIOUS
  <2>2. (k + 1) - 1 = k /\ k \in 0 .. n /\ k + 1 \in 0 .. n
    BY <2>1
  <2>3. Step(p[k], q[k + 1], p[k + 1])
    <3>1. Step(p[(k + 1) - 1], q[k + 1], p[k + 1])
      BY <1>1, <1>2, <2>1 DEF Along
    <3>2. QED
      BY <2>2, <3>1
  <2>4. PICK x \in Cursor, y \in Cursor, m \in {q[k + 1]} : x = p[k] /\ y = p[k + 1] /\ m = q[k + 1]
    BY <1>3, <2>2
  <2>5. x[1] \in Nat /\ y[1] \in Nat /\ x[1] <= y[1] /\ (~ x[3] => x[1] < y[1])
    <3>1. PICK i \in Nat : i = x[1]
      BY DEF Cursor
    <3>2. \/ ~ x[3] /\ y = <<i + 1, 0, TRUE>>
          \/ x[3] /\ y = <<i, x[2] + 1, TRUE>>
          \/ x[3] /\ y = <<i, x[2], FALSE>>
      BY <2>3, <2>4, <3>1 DEF Step
    <3>3. (~ x[3] /\ y[1] = i + 1) \/ (x[3] /\ y[1] = i)
      <4>1. ASSUME y = <<i + 1, 0, TRUE>> PROVE y[1] = i + 1
        BY <4>1
      <4>2. ASSUME NEW v, NEW w, y = <<i, v, w>> PROVE y[1] = i
        BY <4>2
      <4>3. QED
        BY <3>2, <4>1, <4>2, Zenon
    <3>4. QED
      BY <3>1, <3>3
  <2>6. CASE k = 0
    <3>1. x = c
      BY <1>2, <2>4, <2>6
    <3>2. QED
      BY <2>4, <2>5, <3>1
  <2>7. CASE k # 0
    <3>1. Later(k)
      BY <1>5, <2>2, <2>7
    <3>2. c[1] \in Nat
      BY DEF Cursor
    <3>3. QED
      BY <2>4, <2>5, <3>1, <3>2
  <2>8. QED
    BY <2>6, <2>7
<1>6. \A k \in Nat : k \in S
  <2> HIDE DEF S
  <2>1. QED
    BY <1>4, <1>5, SetInduction
<1>7. CASE n = 0
  <2>1. q = <<>> /\ c = d
    BY <1>1, <1>2, <1>7
  <2>2. c[1] \in Nat
    BY DEF Cursor
  <2>3. QED
    BY <2>1, <2>2
<1>8. CASE n # 0
  <2>1. Later(n)
    BY <1>6, <1>8
  <2>2. QED
    BY <1>2, <1>3, <2>1
<1>9. QED
  BY <1>7, <1>8

\* The segments of a topic, among those of s.
TopicOf(s, t) == FlattenSeq([i \in DOMAIN s |-> IF s[i].topic = t THEN <<s[i]>> ELSE <<>>])

LEMMA TopicOfPieces ==
  ASSUME NEW s \in Seq(Segments), NEW t
  PROVE  [i \in DOMAIN s |-> IF s[i].topic = t THEN <<s[i]>> ELSE <<>>] \in Seq(Seq(Segments))
<1>1. ASSUME NEW i \in 1 .. Len(s)
      PROVE  (IF s[i].topic = t THEN <<s[i]>> ELSE <<>>) \in Seq(Segments)
  <2>1. PICK g \in Segments : g = s[i]
    OBVIOUS
  <2>2. <<g>> \in Seq(Segments) /\ <<>> \in Seq(Segments)
    OBVIOUS
  <2>3. QED
    BY <2>1, <2>2
<1>2. DOMAIN s = 1 .. Len(s) /\ Len(s) \in Nat
  OBVIOUS
<1>3. QED
  BY <1>1, <1>2

LEMMA TopicOfType ==
  ASSUME NEW s \in Seq(Segments), NEW t
  PROVE  TopicOf(s, t) \in Seq(Segments)
BY TopicOfPieces, FlattenType DEF TopicOf

LEMMA TopicOfNone == ASSUME NEW t PROVE TopicOf(<<>>, t) = <<>>
<1>1. [i \in DOMAIN <<>> |-> IF <<>>[i].topic = t THEN <<<<>>[i]>> ELSE <<>>] = <<>>
  OBVIOUS
<1>2. QED
  BY <1>1, FlattenNone DEF TopicOf

LEMMA TopicOfAppend ==
  ASSUME NEW s \in Seq(Segments), NEW g \in Segments, NEW t
  PROVE  TopicOf(Append(s, g), t) = IF g.topic = t THEN Append(TopicOf(s, t), g)
                                                   ELSE TopicOf(s, t)
<1>1. PICK m \in Seq(Seq(Segments)) :
          m = [i \in DOMAIN s |-> IF s[i].topic = t THEN <<s[i]>> ELSE <<>>]
  BY TopicOfPieces
<1>2. PICK x \in Seq(Segments) : x = IF g.topic = t THEN <<g>> ELSE <<>>
  <2>1. <<g>> \in Seq(Segments) /\ <<>> \in Seq(Segments)
    OBVIOUS
  <2>2. QED
    BY <2>1
<1>3. PICK a : a = Append(s, g)
  OBVIOUS
<1>4. [i \in DOMAIN a |-> IF a[i].topic = t THEN <<a[i]>> ELSE <<>>] = Append(m, x)
  <2>1. PICK n \in Nat : n = Len(s)
    OBVIOUS
  <2>2. /\ DOMAIN a = 1 .. n + 1 /\ a[n + 1] = g
        /\ \A i \in 1 .. n : a[i] = s[i]
    BY <1>3, <2>1
  <2>3. /\ DOMAIN m = 1 .. n /\ Len(m) = n
        /\ \A i \in 1 .. n : m[i] = IF s[i].topic = t THEN <<s[i]>> ELSE <<>>
    BY <1>1, <2>1
  <2>4. PICK b : b = Append(m, x)
    OBVIOUS
  <2>5. /\ b \in Seq(Seq(Segments)) /\ Len(b) = n + 1 /\ b[n + 1] = x
        /\ \A i \in 1 .. n : b[i] = m[i]
    BY <2>3, <2>4, CatOne
  <2>6. ASSUME NEW i \in 1 .. n + 1
        PROVE  (IF a[i].topic = t THEN <<a[i]>> ELSE <<>>) = b[i]
    <3>1. CASE i = n + 1
      BY <1>2, <2>2, <2>5, <3>1
    <3>2. CASE i \in 1 .. n
      BY <2>2, <2>3, <2>5, <3>2
    <3>3. QED
      BY <3>1, <3>2
  <2>7. b = [i \in 1 .. n + 1 |-> b[i]]
    BY <2>5
  <2>8. QED
    BY <2>2, <2>4, <2>6, <2>7
<1>5. FlattenSeq(Append(m, x)) = FlattenSeq(m) \o x
  BY FlattenAppend
<1>6. PICK f \in Seq(Segments) : f = TopicOf(s, t) /\ f = FlattenSeq(m)
  BY <1>1, TopicOfType DEF TopicOf
<1>7. f \o <<g>> = Append(f, g) /\ f \o <<>> = f
  BY CatOne, CatNone
<1>8. TopicOf(a, t) = FlattenSeq(Append(m, x))
  BY <1>4 DEF TopicOf
<1>9. TopicOf(a, t) = f \o x
  BY <1>5, <1>6, <1>8
<1>10. CASE g.topic = t
  BY <1>2, <1>3, <1>6, <1>7, <1>9, <1>10
<1>11. CASE g.topic # t
  BY <1>2, <1>3, <1>6, <1>7, <1>9, <1>11
<1>12. QED
  BY <1>10, <1>11

\* The segments of a recording under way are counted from 0 and none is the last; when
\* it is closed the last one, and only it, says so.
Counted(S) == \A i \in 1 .. Len(S) : S[i].sid = i - 1
NoEnd(S) == \A i \in 1 .. Len(S) : ~ S[i].eof
Closed(S) == Len(S) > 0 /\ S[Len(S)].eof /\ \A i \in 1 .. Len(S) - 1 : ~ S[i].eof
Filed(S, r) == Counted(S) /\ Closed(S) /\ \A i \in 1 .. Len(Samples(S)) : Samples(S)[i] = <<r, i>>
Whole(s, r, n) == Len(s) = n /\ \A i \in 1 .. n : s[i] = <<r, i>>

LEMMA CountedAppend ==
  ASSUME NEW S \in Seq(Segments), NEW g \in Segments, Counted(S), NoEnd(S), g.sid = Len(S)
  PROVE  /\ Counted(Append(S, g)) /\ Len(Append(S, g)) = Len(S) + 1
         /\ IF g.eof THEN Closed(Append(S, g)) ELSE NoEnd(Append(S, g))
<1>1. PICK n \in Nat, a \in Seq(Segments) : n = Len(S) /\ a = Append(S, g)
  <2>1. Len(S) \in Nat /\ Append(S, g) \in Seq(Segments)
    OBVIOUS
  <2>2. QED
    BY <2>1
<1>2. Len(a) = n + 1 /\ a[n + 1] = g /\ \A i \in 1 .. n : a[i] = S[i]
  BY <1>1
<1>3. \A i \in 1 .. n : S[i].sid = i - 1 /\ ~ S[i].eof
  BY <1>1 DEF Counted, NoEnd
<1>4. ASSUME NEW i \in 1 .. n + 1 PROVE a[i].sid = i - 1 /\ (i # n + 1 => ~ a[i].eof)
  <2>1. CASE i = n + 1
    <3>1. i - 1 = n
      BY <2>1
    <3>2. QED
      BY <1>1, <1>2, <2>1, <3>1
  <2>2. CASE i \in 1 .. n
    BY <1>2, <1>3, <2>2
  <2>3. QED
    BY <2>1, <2>2
<1>5. Counted(a)
  BY <1>2, <1>4 DEF Counted
<1>6. CASE g.eof
  <2>1. \A i \in 1 .. Len(a) - 1 : i \in 1 .. n + 1 /\ i # n + 1
    BY <1>2
  <2>2. Closed(a)
    BY <1>2, <1>4, <1>6, <2>1 DEF Closed
  <2>3. QED
    BY <1>1, <1>2, <1>5, <1>6, <2>2
<1>7. CASE ~ g.eof
  <2>1. NoEnd(a)
    BY <1>2, <1>4, <1>7 DEF NoEnd
  <2>2. QED
    BY <1>1, <1>2, <1>5, <1>7, <2>1
<1>8. QED
  BY <1>6, <1>7

LEMMA WholeTakes ==
  ASSUME NEW s \in Seq(Sample), NEW r, NEW n \in Nat, NEW x \in Sample, x = <<r, n + 1>>,
         Whole(s, r, n)
  PROVE  Whole(s \o <<x>>, r, n + 1)
<1>1. PICK a \in Seq(Sample) : a = s \o <<x>> /\ a = Append(s, x)
  BY SampleOne, SampleCat
<1>2. Len(s) = n /\ \A i \in 1 .. n : s[i] = <<r, i>>
  BY DEF Whole
<1>3. Len(a) = n + 1 /\ a[n + 1] = x /\ \A i \in 1 .. n : a[i] = s[i]
  <2>1. PICK k \in Nat : k = Len(s)
    OBVIOUS
  <2>2. Len(a) = k + 1 /\ a[k + 1] = x /\ \A i \in 1 .. k : a[i] = s[i]
    BY <1>1, <2>1
  <2>3. k = n
    BY <1>2, <2>1
  <2>4. QED
    BY <2>2, <2>3
<1>4. ASSUME NEW i \in 1 .. n + 1 PROVE a[i] = <<r, i>>
  <2>1. CASE i = n + 1
    BY <1>3, <2>1
  <2>2. CASE i \in 1 .. n
    BY <1>2, <1>3, <2>2
  <2>3. QED
    BY <2>1, <2>2
<1>5. QED
  BY <1>1, <1>3, <1>4 DEF Whole

\* Where the voice task is: recording r, of which n samples were taken, and which is
\* stopped when o is FALSE; the last topic is closed once the end was reported.
Ended(o) == ~ o \/ pc \in {"close", "forget"}
Phase(o) ==
    /\ ~ o => pc \in {"idle", "create"} /\ speex = "none" /\ data = <<>>
    /\ o => pc # "create" /\ (pc # "forget" => speex = "live")
    /\ Ended(o) => sid = 0
Future == \A t \in Nat : t > topic_id => TopicOf(sent, t) = <<>>
Past(r) == \A t \in 1 .. topic_id - 1 : owner[t] < r /\ Filed(TopicOf(sent, t), owner[t])
Current(r, n, ended) ==
    topic_id > 0 =>
        /\ owner[topic_id] = r /\ Counted(TopicOf(sent, topic_id))
        /\ Whole(Samples(TopicOf(sent, topic_id)) \o Pipe, r, n)
        /\ IF ended THEN Closed(TopicOf(sent, topic_id))
           ELSE NoEnd(TopicOf(sent, topic_id)) /\ sid = Len(TopicOf(sent, topic_id))

WholeAt(r, n, o) ==
    /\ Path(queue, <<r, n, o>>, <<recording, samples, open>>)
    /\ connects = 0 => topic_id = 0
    /\ Phase(o) /\ Future /\ Past(r) /\ Current(r, n, Ended(o))
WholeInv == mishaps = {} => \E r \in Nat, n \in Nat, o \in BOOLEAN : WholeAt(r, n, o)

LEMMA AppCursor ==
  ASSUME VInv
  PROVE  <<recording, samples, open>> \in Cursor
<1>1. recording \in Nat /\ samples \in Nat /\ open \in BOOLEAN
  BY ConstType DEF VInv, TypeOK
<1>2. QED
  BY <1>1 DEF Cursor

\* What a step that reports nothing and moves nothing leaves of the topics.
LEMMA TopicsStill ==
  ASSUME VInv, NEW r \in Nat, NEW n \in Nat, NEW e \in BOOLEAN,
         Future, Past(r), Current(r, n, e),
         UNCHANGED <<topic_id, owner, sent>>, Pipe' = Pipe, ~ e => sid' = sid
  PROVE  Future' /\ Past(r)' /\ Current(r, n, e)'
<1>1. Future'
  BY DEF Future
<1>2. Past(r)'
  BY DEF Past
<1>3. Current(r, n, e)'
  BY DEF Current
<1>4. QED
  BY <1>1, <1>2, <1>3

\* The application's calls lead on from where it was.
LEMMA WholeApp == ASSUME VInv, WholeInv, App, mishaps = {}, mishaps' = {} PROVE WholeInv'
<1>1. PICK r \in Nat, n \in Nat, o \in BOOLEAN : WholeAt(r, n, o)
  BY DEF WholeInv
<1>2. <<r, n, o>> \in Cursor /\ <<recording, samples, open>> \in Cursor
  BY AppCursor DEF Cursor
<1>3. VInv'
  BY AppTypes
<1>4. <<recording', samples', open'>> \in Cursor
  <2>1. recording' \in Nat /\ samples' \in Nat /\ open' \in BOOLEAN
    BY <1>3, ConstType DEF VInv, TypeOK
  <2>2. QED
    BY <2>1 DEF Cursor
<1>5. PICK m \in Calls : /\ queue' = Append(queue, m)
                         /\ Step(<<recording, samples, open>>, m, <<recording', samples', open'>>)
  <2>1. recording \in Nat /\ samples \in Nat
    BY ConstType DEF VInv, TypeOK
  <2>2. CASE duer_voice_start
    <3>1. recording' = recording + 1 /\ samples' = 0 /\ open' = TRUE
      BY <2>2 DEF duer_voice_start
    <3>2. recording' \in Recordings
      BY <2>1, <2>2, ConstType DEF duer_voice_start, Recordings
    <3>3. PICK m \in Calls : m = StartMsg(recording + 1)
      BY <3>1, <3>2 DEF Calls
    <3>4. PICK why : why = IF open THEN {"unstopped"} ELSE {}
      OBVIOUS
    <3>5. Call(m, why)
      BY <2>2, <3>1, <3>3, <3>4 DEF duer_voice_start
    <3>6. queue' = Append(queue, m) /\ why = {}
      <4>1. mishaps' = mishaps \cup why \cup {"dropped"} \/
            (mishaps' = mishaps \cup why \cup {} /\ queue' = Append(queue, m))
        BY <3>5 DEF Call
      <4>2. QED
        BY <4>1
    <3>7. ~ open
      BY <3>4, <3>6
    <3>8. Step(<<recording, samples, open>>, m, <<recording', samples', open'>>)
      BY <3>1, <3>3, <3>7 DEF Step
    <3>9. QED
      BY <3>6, <3>8
  <2>3. CASE duer_voice_send
    <3>1. recording' = recording /\ samples' = samples + 1 /\ open' = TRUE /\ open
      BY <2>3 DEF duer_voice_send, VInv, TypeOK
    <3>2. recording \in Recordings /\ samples' \in 1 .. MaxSamples
      BY <2>1, <2>3, ConstType DEF duer_voice_send, VInv, TypeOK, PcInv, Recordings
    <3>3. PICK m \in Calls : m = SendMsg(recording, samples + 1)
      BY <3>1, <3>2 DEF Calls
    <3>4. Call(m, {})
      BY <2>3, <3>1, <3>3 DEF duer_voice_send
    <3>5. queue' = Append(queue, m)
      <4>1. mishaps' = mishaps \cup {} \cup {"dropped"} \/ queue' = Append(queue, m)
        BY <3>4 DEF Call
      <4>2. QED
        BY <4>1
    <3>6. Step(<<recording, samples, open>>, m, <<recording', samples', open'>>)
      BY <3>1, <3>3 DEF Step
    <3>7. QED
      BY <3>5, <3>6
  <2>4. CASE duer_voice_stop
    <3>1. recording' = recording /\ samples' = samples /\ open' = FALSE /\ open
      BY <2>4 DEF duer_voice_stop
    <3>2. PICK m \in Calls : m = StopMsg
      BY DEF Calls
    <3>3. Call(m, {})
      BY <2>4, <3>2 DEF duer_voice_stop
    <3>4. queue' = Append(queue, m)
      <4>1. mishaps' = mishaps \cup {} \cup {"dropped"} \/ queue' = Append(queue, m)
        BY <3>3 DEF Call
      <4>2. QED
        BY <4>1
    <3>5. Step(<<recording, samples, open>>, m, <<recording', samples', open'>>)
      BY <3>1, <3>2 DEF Step
    <3>6. QED
      BY <3>4, <3>5
  <2>5. QED
    BY <2>2, <2>3, <2>4 DEF App
<1>6. Path(queue, <<r, n, o>>, <<recording, samples, open>>)
  BY <1>1 DEF WholeAt
<1>7. Path(queue', <<r, n, o>>, <<recording', samples', open'>>)
  <2>1. queue \in Seq(Calls)
    BY DEF VInv, TypeOK
  <2>2. QED
    BY <1>2, <1>4, <1>5, <1>6, <2>1, PathAppend
<1>8. UNCHANGED <<pc, speex, data, sid, topic_id, owner, sent, connects>>
  <2>1. CASE duer_voice_start
    BY <2>1 DEF duer_voice_start, Call
  <2>2. CASE duer_voice_send
    BY <2>2 DEF duer_voice_send, Call
  <2>3. CASE duer_voice_stop
    BY <2>3 DEF duer_voice_stop, Call
  <2>4. QED
    BY <2>1, <2>2, <2>3 DEF App
<1>9. Phase(o)' /\ Ended(o)' = Ended(o) /\ Ended(o) \in BOOLEAN
  BY <1>1, <1>8 DEF WholeAt, Phase, Ended
<1>10. Future' /\ Past(r)' /\ Current(r, n, Ended(o))'
  <2>1. PICK e \in BOOLEAN : e = Ended(o)
    BY <1>9
  <2>2. Future /\ Past(r) /\ Current(r, n, e)
    BY <1>1, <2>1 DEF WholeAt
  <2>3. Pipe' = Pipe
    BY PipeApart
  <2>4. Future' /\ Past(r)' /\ Current(r, n, e)'
    BY <1>8, <2>2, <2>3, TopicsStill
  <2>5. Current(r, n, Ended(o))' = Current(r, n, e)'
    BY <1>9, <2>1 DEF Current
  <2>6. QED
    BY <2>4, <2>5
<1>11. connects' = 0 => topic_id' = 0
  BY <1>1, <1>8 DEF WholeAt
<1>12. WholeAt(r, n, o)'
  BY <1>7, <1>9, <1>10, <1>11 DEF WholeAt
<1>13. QED
  BY <1>12 DEF WholeInv

\* The engine's task: the loop goes when nothing is under way, if nothing was cut.
LEMMA WholeLoop ==
  ASSUME VInv, WholeInv, duer_voice_initialize \/ duer_voice_finalize,
         mishaps = {}, mishaps' = {}
  PROVE  WholeInv'
<1>1. PICK r \in Nat, n \in Nat, o \in BOOLEAN : WholeAt(r, n, o)
  BY DEF WholeInv
<1>2. PICK e \in BOOLEAN : e = Ended(o)
  BY DEF Ended
<1>3. Path(queue, <<r, n, o>>, <<recording, samples, open>>)
      /\ (connects = 0 => topic_id = 0)
      /\ Phase(o) /\ Future /\ Past(r) /\ Current(r, n, e)
  BY <1>1, <1>2 DEF WholeAt
<1>4. /\ UNCHANGED <<queue, pc, speex, data, sid, topic_id, owner, sent, appVars>>
      /\ connects' = 0 => connects = 0
  <2>1. CASE duer_voice_initialize
    <3>1. UNCHANGED <<queue, pc, speex, data, sid, topic_id, owner, sent, appVars>>
          /\ connects' = connects + 1
      BY <2>1 DEF duer_voice_initialize
    <3>2. connects \in Nat
      BY ConstType DEF VInv, TypeOK
    <3>3. QED
      BY <3>1, <3>2
  <2>2. CASE duer_voice_finalize
    <3>1. pc = "idle" /\ queue = <<>>
      BY <2>2 DEF duer_voice_finalize
    <3>2. QED
      BY <2>2, <3>1 DEF duer_voice_finalize
  <2>3. QED
    BY <2>1, <2>2
<1>5. Pipe' = Pipe
  <2>1. "interrupted" \notin mishaps'
    OBVIOUS
  <2>2. QED
    BY <2>1, PipeApart
<1>6. Future' /\ Past(r)' /\ Current(r, n, e)'
  BY <1>3, <1>4, <1>5, TopicsStill
<1>7. Phase(o)' /\ Ended(o)' = e
  BY <1>2, <1>3, <1>4 DEF Phase, Ended
<1>8. Current(r, n, Ended(o))'
  BY <1>6, <1>7 DEF Current
<1>9. WholeAt(r, n, o)'
  BY <1>3, <1>4, <1>6, <1>7, <1>8 DEF WholeAt
<1>10. QED
  BY <1>9 DEF WholeInv

\* The next call is the one that comes after what the task has taken.
LEMMA HeadStep ==
  ASSUME VInv, NEW r \in Nat, NEW n \in Nat, NEW o \in BOOLEAN, queue # <<>>,
         Path(queue, <<r, n, o>>, <<recording, samples, open>>)
  PROVE  /\ queue[1][1] = "start" =>
                /\ ~ o /\ queue[1][2] = r + 1
                /\ Path(Tail(queue), <<r + 1, 0, TRUE>>, <<recording, samples, open>>)
         /\ queue[1][1] = "send" =>
                /\ o /\ queue[1][2] = <<r, n + 1>>
                /\ Path(Tail(queue), <<r, n + 1, TRUE>>, <<recording, samples, open>>)
         /\ queue[1][1] = "stop" =>
                /\ o
                /\ Path(Tail(queue), <<r, n, FALSE>>, <<recording, samples, open>>)
<1>1. PICK c \in Cursor, d \in Cursor : c = <<r, n, o>> /\ d = <<recording, samples, open>>
  BY AppCursor DEF Cursor
<1>2. queue \in Seq(Calls)
  BY DEF VInv, TypeOK
<1>3. PICK e \in Cursor : Step(c, queue[1], e) /\ Path(Tail(queue), e, d)
  BY <1>1, <1>2, PathTail
<1>4. PICK m : m = queue[1]
  OBVIOUS
<1>5. c[1] = r /\ c[2] = n /\ c[3] = o
  BY <1>1
<1>6. \/ m = StartMsg(r + 1) /\ ~ o /\ e = <<r + 1, 0, TRUE>>
      \/ m = SendMsg(r, n + 1) /\ o /\ e = <<r, n + 1, TRUE>>
      \/ m = StopMsg /\ o /\ e = <<r, n, FALSE>>
  BY <1>3, <1>4, <1>5, Zenon DEF Step
<1>7. CASE m = StartMsg(r + 1) /\ ~ o /\ e = <<r + 1, 0, TRUE>>
  <2>1. m[1] = "start" /\ m[2] = r + 1
    BY <1>7 DEF StartMsg
  <2>2. QED
    BY <1>1, <1>3, <1>4, <1>7, <2>1
<1>8. CASE m = SendMsg(r, n + 1) /\ o /\ e = <<r, n + 1, TRUE>>
  <2>1. m[1] = "send" /\ m[2] = <<r, n + 1>>
    BY <1>8 DEF SendMsg
  <2>2. QED
    BY <1>1, <1>3, <1>4, <1>8, <2>1
<1>9. CASE m = StopMsg /\ o /\ e = <<r, n, FALSE>>
  <2>1. m[1] = "stop"
    BY <1>9 DEF StopMsg
  <2>2. QED
    BY <1>1, <1>3, <1>4, <1>9, <2>1
<1>10. QED
  BY <1>6, <1>7, <1>8, <1>9

\* Steps of the task that neither take a sample nor report.
LEMMA WholeMoves ==
  ASSUME VInv, WholeInv, Start \/ Stop \/ Clear \/ Store \/ Close \/ Forget, mishaps = {}
  PROVE  WholeInv'
<1>1. PICK r \in Nat, n \in Nat, o \in BOOLEAN : WholeAt(r, n, o)
  BY DEF WholeInv
<1>2. PICK e \in BOOLEAN : e = Ended(o)
  BY DEF Ended
<1>3. Path(queue, <<r, n, o>>, <<recording, samples, open>>)
      /\ (connects = 0 => topic_id = 0)
      /\ Phase(o) /\ Future /\ Past(r) /\ Current(r, n, e)
  BY <1>1, <1>2 DEF WholeAt
<1>4. UNCHANGED <<sid, topic_id, owner, sent, connects, recording, samples, open>>
  BY DEF Start, Stop, Clear, Store, Close, Forget
<1>5. Pipe' = Pipe
  BY PipeKept
<1>6. Future' /\ Past(r)' /\ Current(r, n, e)'
  BY <1>3, <1>4, <1>5, TopicsStill
<1>7. CASE Start \/ Stop \/ Clear \/ Store \/ Close
  <2>1. queue' = queue /\ Phase(o)' /\ Ended(o)' = e
    <3>1. CASE Start
      <4>1. ~ o
        BY <1>3, <3>1, HeadStep DEF Start
      <4>2. QED
        BY <1>2, <1>3, <1>4, <3>1, <4>1 DEF Start, Phase, Ended
    <3>2. CASE Stop
      <4>1. o
        BY <1>3, <3>2, HeadStep DEF Stop
      <4>2. speex = "live" /\ pc = "idle"
        BY <1>3, <3>2, <4>1 DEF Stop, Phase
      <4>3. queue' = queue /\ speex' = "live" /\ pc' \in {"rest", "store"}
        BY <3>2, <4>2 DEF Stop
      <4>4. QED
        BY <1>2, <1>4, <4>1, <4>2, <4>3 DEF Phase, Ended
    <3>3. CASE Clear \/ Store
      <4>1. /\ pc \in {"clear", "store"} /\ pc' \in {"store", "rest", "idle"}
            /\ queue' = queue /\ speex' = speex
        BY <3>3 DEF Clear, Store
      <4>2. o
        BY <1>3, <4>1 DEF Phase
      <4>3. QED
        BY <1>2, <1>3, <1>4, <4>1, <4>2 DEF Phase, Ended
    <3>4. CASE Close
      <4>1. /\ pc = "close" /\ pc' = "forget"
            /\ queue' = queue
        BY <3>4 DEF Close
      <4>2. o
        BY <1>3, <4>1 DEF Phase
      <4>3. QED
        BY <1>2, <1>3, <1>4, <4>1, <4>2 DEF Phase, Ended
    <3>5. QED
      BY <1>7, <3>1, <3>2, <3>3, <3>4
  <2>2. Current(r, n, Ended(o))'
    BY <1>6, <2>1 DEF Current
  <2>3. WholeAt(r, n, o)'
    BY <1>3, <1>4, <1>6, <2>1, <2>2 DEF WholeAt
  <2>4. QED
    BY <2>3 DEF WholeInv
<1>8. CASE Forget
  <2>1. /\ pc = "forget" /\ pc' = "idle" /\ speex' = "none" /\ queue' = Tail(queue)
        /\ data' = data
    BY <1>8 DEF Forget
  <2>2. stopping /\ queue # <<>> /\ queue[1][1] = "stop" /\ data = <<>>
    BY <2>1 DEF VInv, PcInv
  <2>3. Path(queue', <<r, n, FALSE>>, <<recording', samples', open'>>)
    BY <1>3, <1>4, <2>1, <2>2, HeadStep
  <2>4. Phase(FALSE)' /\ Ended(FALSE)' = e
    BY <1>2, <1>3, <1>4, <2>1, <2>2 DEF Phase, Ended
  <2>5. Current(r, n, Ended(FALSE))'
    BY <1>6, <2>4 DEF Current
  <2>6. WholeAt(r, n, FALSE)'
    BY <1>3, <1>4, <1>6, <2>3, <2>4, <2>5 DEF WholeAt
  <2>7. QED
    BY <2>6 DEF WholeInv
<1>9. QED
  BY <1>7, <1>8

\* A report takes frames from what is on its way to the last topic, and closes it when
\* it says so.
LEMMA ReportTopics ==
  ASSUME VInv, NEW r \in Nat, NEW n \in Nat, NEW frames \in Seq(Seq(Sample)),
         NEW eof \in BOOLEAN, Report(frames, eof), Future, Past(r), Current(r, n, FALSE),
         Pipe' \in Seq(Sample), Pipe = FlattenSeq(frames) \o Pipe'
  PROVE  Future' /\ Past(r)' /\ Current(r, n, eof)'
<1>1. PICK g \in Segments : /\ g = Segment(frames, eof) /\ sent' = Append(sent, g)
                            /\ UNCHANGED <<topic_id, owner>>
  BY ReportTypes
<1>2. g.topic = topic_id /\ g.sid = sid /\ g.eof = eof /\ g.frames = frames
  BY <1>1 DEF Segment
<1>3. sent \in Seq(Segments) /\ topic_id \in Nat
  BY DEF VInv, TypeOK
<1>4. \A t : t # topic_id => TopicOf(sent', t) = TopicOf(sent, t)
  BY <1>1, <1>2, <1>3, TopicOfAppend
<1>5. Future'
  <2>1. \A t \in Nat : t > topic_id => t # topic_id
    BY <1>3
  <2>2. QED
    BY <1>1, <1>4, <2>1 DEF Future
<1>6. Past(r)'
  <2>1. \A t \in 1 .. topic_id - 1 : t # topic_id
    BY <1>3
  <2>2. QED
    BY <1>1, <1>4, <2>1 DEF Past
<1>7. ASSUME topic_id > 0 PROVE Current(r, n, eof)'
  <2>1. PICK S \in Seq(Segments) : S = TopicOf(sent, topic_id)
    BY <1>3, TopicOfType
  <2>2. PICK a \in Seq(Segments) : a = Append(S, g)
    BY <1>1, CatOne
  <2>3. TopicOf(sent', topic_id') = a
    <3>1. TopicOf(Append(sent, g), topic_id) = a
      BY <1>2, <1>3, <2>1, <2>2, TopicOfAppend
    <3>2. QED
      BY <1>1, <3>1
  <2>4. /\ owner[topic_id] = r /\ Counted(S) /\ NoEnd(S) /\ sid = Len(S)
        /\ Whole(Samples(S) \o Pipe, r, n)
    BY <1>7, <2>1 DEF Current
  <2>5. Counted(a) /\ Len(a) = Len(S) + 1 /\ (IF eof THEN Closed(a) ELSE NoEnd(a))
    BY <1>2, <2>2, <2>4, CountedAppend
  <2>6. sid' = IF eof THEN 0 ELSE sid + 1
    BY DEF Report
  <2>7. PICK s \in Seq(Sample), d \in Seq(Sample), p \in Seq(Sample) :
            s = Samples(S) /\ d = FlattenSeq(frames) /\ p = Pipe'
    BY SamplesType, FlattenType
  <2>8. Samples(a) = s \o d
    BY <1>2, <2>2, <2>7, SamplesAppend
  <2>9. (s \o d) \o p = s \o (d \o p)
    BY SampleAssoc
  <2>10. Samples(a) \o Pipe' = Samples(S) \o Pipe
    BY <2>7, <2>8, <2>9, Zenon
  <2>11. Whole(Samples(a) \o Pipe', r, n)
    BY <2>4, <2>10, Zenon
  <2>12. IF eof THEN Closed(a) ELSE NoEnd(a) /\ sid' = Len(a)
    BY <2>4, <2>5, <2>6
  <2>13. owner'[topic_id'] = r
    BY <1>1, <2>4
  <2>14. QED
    BY <2>3, <2>5, <2>11, <2>12, <2>13, Zenon DEF Current
<1>8. ASSUME ~ (topic_id > 0) PROVE Current(r, n, eof)'
  BY <1>1, <1>8 DEF Current
<1>9. QED
  BY <1>5, <1>6, <1>7, <1>8

LEMMA WholeReports ==
  ASSUME VInv, WholeInv, Full \/ Rest \/ Eof, mishaps = {}
  PROVE  WholeInv'
<1>1. PICK r \in Nat, n \in Nat, o \in BOOLEAN : WholeAt(r, n, o)
  BY DEF WholeInv
<1>2. /\ pc \in {"store", "rest", "eof"}
      /\ UNCHANGED <<queue, speex, data, topic_id, connects, recording, samples, open>>
  <2>1. CASE Full
    <3>1. data \in Seq(Seq(Sample)) /\ FALSE \in BOOLEAN /\ Report(data, FALSE)
      BY <2>1 DEF Full, VInv, TypeOK
    <3>2. UNCHANGED topic_id
      BY <3>1, ReportTypes
    <3>3. QED
      BY <2>1, <3>2 DEF Full
  <2>2. CASE Rest
    BY <2>2 DEF Rest, Report
  <2>3. CASE Eof
    BY <2>3 DEF Eof, Report
  <2>4. QED
    BY <2>1, <2>2, <2>3
<1>3. o /\ Ended(o) = FALSE
  BY <1>1, <1>2 DEF WholeAt, Phase, Ended
<1>4. Path(queue, <<r, n, o>>, <<recording, samples, open>>)
      /\ (connects = 0 => topic_id = 0)
      /\ Phase(o) /\ Future /\ Past(r) /\ Current(r, n, FALSE)
  <2>1. Current(r, n, Ended(o))
    BY <1>1 DEF WholeAt
  <2>2. Current(r, n, FALSE)
    BY <1>3, <2>1 DEF Current
  <2>3. QED
    BY <1>1, <2>2 DEF WholeAt
<1>5. CASE Full \/ (Rest /\ data # <<>>)
  <2>1. Report(data, FALSE) /\ data \in Seq(Seq(Sample)) /\ FALSE \in BOOLEAN
    BY <1>5 DEF Full, Rest, VInv, TypeOK
  <2>2. Pipe = FlattenSeq(data) \o Pipe' /\ Pipe' \in Seq(Sample)
    BY <1>5, PipeReports
  <2>3. Future' /\ Past(r)' /\ Current(r, n, FALSE)'
    BY <1>4, <2>1, <2>2, ReportTopics
  <2>4. pc' \in {"clear", "eof"}
    BY <1>5 DEF Full, Rest
  <2>5. Phase(o)' /\ Ended(o)' = FALSE
    BY <1>2, <1>3, <1>4, <2>4 DEF Phase, Ended
  <2>6. Current(r, n, Ended(o))'
    BY <2>3, <2>5 DEF Current
  <2>7. WholeAt(r, n, o)'
    BY <1>2, <1>4, <2>3, <2>5, <2>6 DEF WholeAt
  <2>8. QED
    BY <2>7 DEF WholeInv
<1>6. CASE Rest /\ data = <<>>
  <2>1. UNCHANGED <<sid, topic_id, owner, sent>> /\ pc' = "eof"
    BY <1>6 DEF Rest
  <2>2. Pipe' = Pipe
    BY <1>6, PipeRests
  <2>3. Future' /\ Past(r)' /\ Current(r, n, FALSE)'
    BY <1>4, <2>1, <2>2, TopicsStill
  <2>4. Phase(o)' /\ Ended(o)' = FALSE
    BY <1>2, <1>3, <1>4, <2>1 DEF Phase, Ended
  <2>5. Current(r, n, Ended(o))'
    BY <2>3, <2>4 DEF Current
  <2>6. WholeAt(r, n, o)'
    BY <1>2, <1>4, <2>3, <2>4, <2>5 DEF WholeAt
  <2>7. QED
    BY <2>6 DEF WholeInv
<1>7. CASE Eof
  <2>1. Report(<<>>, TRUE)
    BY <1>7 DEF Eof
  <2>2. Pipe' = Pipe /\ Pipe' \in Seq(Sample) /\ FlattenSeq(<<>>) = <<>>
    BY <1>7, PipeKept, PipeType, FlattenNone
  <2>3. Pipe = FlattenSeq(<<>>) \o Pipe'
    BY <2>2, SampleNone
  <2>4. Future' /\ Past(r)' /\ Current(r, n, TRUE)'
    BY <1>4, <2>1, <2>2, <2>3, NoSamples, ReportTopics
  <2>5. pc' = "close" /\ sid' = 0
    BY <1>7, <2>1 DEF Eof, Report
  <2>6. Phase(o)' /\ Ended(o)' = TRUE
    BY <1>2, <1>3, <1>4, <2>5 DEF Phase, Ended
  <2>7. Current(r, n, Ended(o))'
    BY <2>4, <2>6 DEF Current
  <2>8. WholeAt(r, n, o)'
    BY <1>2, <1>4, <2>4, <2>6, <2>7 DEF WholeAt
  <2>9. QED
    BY <2>8 DEF WholeInv
<1>8. QED
  BY <1>5, <1>6, <1>7

\* Nothing is on its way between two recordings.
LEMMA PipeEnded ==
  ASSUME VInv, NEW o \in BOOLEAN, Phase(o), Ended(o)
  PROVE  Pipe = <<>>
<1>1. Unsent = <<>> /\ Coded = <<>> /\ Framed = <<>>
  <2>1. CASE ~ o
    <3>1. pc \in {"idle", "create"} /\ data = <<>> /\ frame = <<>>
      BY <2>1 DEF Phase, VInv, PcInv
    <3>2. QED
      BY <3>1, FlattenNone DEF Unsent, Coded, Framed
  <2>2. CASE pc \in {"close", "forget"}
    <3>1. stopping /\ (pc = "forget" => data = <<>>)
      BY <2>2 DEF VInv, PcInv
    <3>2. QED
      BY <2>2, <3>1, FlattenNone DEF Unsent, Coded, Framed
  <2>3. QED
    BY <2>1, <2>2 DEF Ended
<1>2. <<>> \o <<>> = <<>>
  OBVIOUS
<1>3. QED
  BY <1>1, <1>2, Zenon DEF Pipe

\* A sample is taken.
LEMMA WholeSend == ASSUME VInv, WholeInv, Send, mishaps = {} PROVE WholeInv'
<1>1. PICK r \in Nat, n \in Nat, o \in BOOLEAN : WholeAt(r, n, o)
  BY DEF WholeInv
<1>2. /\ pc = "idle" /\ queue # <<>> /\ queue[1][1] = "send" /\ queue' = Tail(queue)
      /\ UNCHANGED <<speex, data, sid, topic_id, owner, sent, connects, recording, samples, open>>
      /\ pc' \in {"idle", "store"}
  BY DEF Send
<1>3. o /\ queue[1][2] = <<r, n + 1>>
      /\ Path(queue', <<r, n + 1, TRUE>>, <<recording', samples', open'>>)
  BY <1>1, <1>2, HeadStep DEF WholeAt
<1>4. speex = "live" /\ Ended(o) = FALSE
  BY <1>1, <1>2, <1>3 DEF WholeAt, Phase, Ended
<1>5. PICK x \in Sample : x = queue[1][2] /\ x = <<r, n + 1>>
  BY <1>2, <1>3, HeadCall, CallKinds
<1>6. Pipe' = Pipe \o <<x>>
  BY <1>4, <1>5, PipeTakes
<1>7. Future' /\ Past(r)'
  BY <1>1, <1>2 DEF WholeAt, Future, Past
<1>8. Current(r, n + 1, FALSE)'
  <2>1. CASE ~ (topic_id > 0)
    BY <1>2, <2>1 DEF Current
  <2>2. CASE topic_id > 0
    <3>1. PICK S \in Seq(Segments) : S = TopicOf(sent, topic_id)
      BY TopicOfType DEF VInv, TypeOK
    <3>2. /\ owner[topic_id] = r /\ Counted(S) /\ NoEnd(S) /\ sid = Len(S)
          /\ Whole(Samples(S) \o Pipe, r, n)
      BY <1>1, <1>4, <2>2, <3>1 DEF WholeAt, Current
    <3>3. PICK s \in Seq(Sample), p \in Seq(Sample), one \in Seq(Sample), sp \in Seq(Sample) :
              s = Samples(S) /\ p = Pipe /\ one = <<x>> /\ sp = s \o p
      <4>1. PICK s \in Seq(Sample), p \in Seq(Sample) : s = Samples(S) /\ p = Pipe
        BY SamplesType, PipeType
      <4>2. s \o p \in Seq(Sample) /\ <<x>> \in Seq(Sample)
        BY SampleOne, SampleCat
      <4>3. QED
        BY <4>1, <4>2
    <3>4. (s \o p) \o one = s \o (p \o one)
      BY SampleAssoc
    <3>5. Whole(sp \o <<x>>, r, n + 1)
      BY <1>5, <3>2, <3>3, WholeTakes
    <3>6. Samples(S) \o Pipe' = sp \o <<x>>
      BY <1>6, <3>3, <3>4, Zenon
    <3>7. Whole(Samples(S) \o Pipe', r, n + 1)
      BY <3>5, <3>6, Zenon
    <3>8. TopicOf(sent', topic_id') = S /\ owner'[topic_id'] = r /\ sid' = Len(S)
      BY <1>2, <3>1, <3>2
    <3>9. QED
      BY <3>2, <3>7, <3>8, Zenon DEF Current
  <2>3. QED
    BY <2>1, <2>2
<1>9. Phase(TRUE)' /\ Ended(TRUE)' = FALSE
  BY <1>2, <1>4 DEF Phase, Ended
<1>10. Current(r, n + 1, Ended(TRUE))'
  BY <1>8, <1>9 DEF Current
<1>11. connects' = 0 => topic_id' = 0
  BY <1>1, <1>2 DEF WholeAt
<1>12. WholeAt(r, n + 1, TRUE)'
  BY <1>3, <1>7, <1>9, <1>10, <1>11 DEF WholeAt
<1>13. n + 1 \in Nat
  OBVIOUS
<1>14. QED
  BY <1>12, <1>13 DEF WholeInv

\* A recording begins: the last topic is filed, and the next has nothing yet.
LEMMA WholeCreate == ASSUME VInv, WholeInv, Create, mishaps = {} PROVE WholeInv'
<1>1. PICK r \in Nat, n \in Nat, o \in BOOLEAN : WholeAt(r, n, o)
  BY DEF WholeInv
<1>2. /\ pc = "create" /\ pc' = "idle" /\ queue # <<>> /\ queue[1][1] = "start"
      /\ queue' = Tail(queue) /\ speex' = "live" /\ frame' = <<>>
      /\ UNCHANGED <<data, sid, sent, connects, recording, samples, open>>
  BY DEF Create, VInv, PcInv
<1>3. ~ o /\ queue[1][2] = r + 1
      /\ Path(queue', <<r + 1, 0, TRUE>>, <<recording', samples', open'>>)
  BY <1>1, <1>2, HeadStep DEF WholeAt
<1>4. data = <<>> /\ sid = 0 /\ Ended(o) = TRUE /\ Pipe = <<>>
  <2>1. data = <<>> /\ sid = 0 /\ Ended(o) = TRUE
    BY <1>1, <1>3 DEF WholeAt, Phase, Ended
  <2>2. Pipe = <<>>
    BY <1>1, <2>1, PipeEnded DEF WholeAt
  <2>3. QED
    BY <2>1, <2>2
<1>5. Pipe' = <<>>
  BY <1>4, PipeDrops, FlattenNone
<1>6. Phase(TRUE)' /\ Ended(TRUE)' = FALSE
  BY <1>2 DEF Phase, Ended
<1>7. r + 1 \in Nat /\ 0 \in Nat /\ r < r + 1
  OBVIOUS
<1>8. Future /\ Past(r) /\ Current(r, n, TRUE) /\ (connects = 0 => topic_id = 0)
  <2>1. Current(r, n, Ended(o))
    BY <1>1 DEF WholeAt
  <2>2. Current(r, n, TRUE)
    BY <1>4, <2>1 DEF Current
  <2>3. QED
    BY <1>1, <2>2 DEF WholeAt
<1>9. (connects' = 0 => topic_id' = 0) /\ Future' /\ Past(r + 1)' /\ Current(r + 1, 0, FALSE)'
  <2>1. CASE connects = 0
    <3>1. UNCHANGED <<topic_id, owner>> /\ topic_id = 0
      BY <1>8, <2>1 DEF Create
    <3>2. QED
      BY <1>2, <1>8, <3>1 DEF Future, Past, Current
  <2>2. CASE connects # 0
    <3>1. PICK k \in Nat : k = topic_id /\ topic_id' = k + 1
      BY <2>2 DEF Create, VInv, TypeOK
    <3>2. /\ owner'[k + 1] = r + 1 /\ \A t \in 1 .. k : owner'[t] = owner[t]
          /\ \A t \in 1 .. k : owner[t] \in Nat
      <4>1. PICK x \in Recordings : x = queue[1][2] /\ x = r + 1
        BY <1>2, <1>3, HeadCall, CallKinds
      <4>2. owner' = Append(owner, x)
        BY <2>2, <4>1 DEF Create
      <4>3. owner \in Seq(Recordings) /\ Len(owner) = k
        BY <3>1 DEF VInv, TypeOK
      <4>4. Recordings \subseteq Nat
        BY ConstType DEF Recordings
      <4>5. owner'[k + 1] = x /\ \A t \in 1 .. k : owner'[t] = owner[t]
        BY <4>2, <4>3, CatOne
      <4>6. \A t \in 1 .. k : owner[t] \in Nat
        <5>1. \A t \in 1 .. k : owner[t] \in Recordings
          BY <4>3
        <5>2. QED
          BY <4>4, <5>1
      <4>7. QED
        BY <4>1, <4>5, <4>6
    <3>3. Future'
      <4>1. \A t \in Nat : t > k + 1 => t > k
        BY <3>1
      <4>2. QED
        BY <1>2, <1>8, <3>1, <4>1 DEF Future
    <3>4. ASSUME NEW t \in 1 .. k PROVE owner'[t] < r + 1 /\ Filed(TopicOf(sent, t), owner[t])
      <4>1. CASE t \in 1 .. k - 1
        <5>1. owner[t] < r /\ Filed(TopicOf(sent, t), owner[t])
          BY <1>8, <3>1, <4>1 DEF Past
        <5>2. owner[t] < r + 1
          BY <3>2, <5>1
        <5>3. QED
          BY <3>2, <5>1, <5>2
      <4>2. CASE t = k
        <5>1. PICK S \in Seq(Segments) : S = TopicOf(sent, k)
          BY TopicOfType DEF VInv, TypeOK
        <5>2. topic_id > 0
          BY <3>1, <4>2
        <5>3. /\ owner[k] = r /\ Counted(S) /\ Closed(S)
              /\ Whole(Samples(S) \o <<>>, r, n)
          BY <1>4, <1>8, <3>1, <5>1, <5>2 DEF Current
        <5>4. Samples(S) \o <<>> = Samples(S)
          BY SamplesType, SampleNone
        <5>5. \A i \in 1 .. Len(Samples(S)) : Samples(S)[i] = <<r, i>>
          BY <5>3, <5>4 DEF Whole
        <5>6. Filed(S, r)
          BY <5>3, <5>5 DEF Filed
        <5>7. QED
          BY <1>7, <3>2, <4>2, <5>1, <5>3, <5>6
      <4>3. QED
        BY <3>1, <4>1, <4>2
    <3>5. Past(r + 1)'
      <4>1. topic_id' - 1 = k
        BY <3>1
      <4>2. QED
        BY <1>2, <3>2, <3>4, <4>1 DEF Past
    <3>6. Current(r + 1, 0, FALSE)'
      <4>1. TopicOf(sent, k + 1) = <<>>
        <5>1. k + 1 \in Nat /\ k + 1 > k
          BY <3>1
        <5>2. QED
          BY <1>8, <3>1, <5>1 DEF Future
      <4>2. Counted(<<>>) /\ NoEnd(<<>>) /\ Len(<<>>) = 0
        BY DEF Counted, NoEnd
      <4>3. Samples(<<>>) \o <<>> = <<>>
        BY SamplesNone
      <4>4. Whole(<<>>, r + 1, 0)
        BY DEF Whole
      <4>5. sid' = 0 /\ TopicOf(sent', topic_id') = <<>> /\ owner'[topic_id'] = r + 1
        BY <1>2, <1>4, <3>1, <3>2, <4>1
      <4>6. Whole(Samples(<<>>) \o Pipe', r + 1, 0)
        BY <1>5, <4>3, <4>4, Zenon
      <4>7. QED
        BY <4>2, <4>5, <4>6, Zenon DEF Current
    <3>7. connects' = 0 => topic_id' = 0
      BY <1>2, <2>2
    <3>8. QED
      BY <3>3, <3>5, <3>6, <3>7
  <2>3. QED
    BY <2>1, <2>2
<1>10. Current(r + 1, 0, Ended(TRUE))'
  BY <1>6, <1>9 DEF Current
<1>11. WholeAt(r + 1, 0, TRUE)'
  BY <1>3, <1>6, <1>9, <1>10 DEF WholeAt
<1>12. QED
  BY <1>7, <1>11 DEF WholeInv

LEMMA WholeNext == ASSUME VInv, WholeInv, [Next]_vars PROVE WholeInv'
<1>1. CASE mishaps' # {}
  BY <1>1 DEF WholeInv
<1>2. CASE mishaps' = {}
  <2>1. mishaps = {}
    <3>1. mishaps \subseteq mishaps'
      <4>1. CASE App
        <5>1. CASE duer_voice_start
          BY <5>1 DEF duer_voice_start, Call
        <5>2. CASE duer_voice_send
          BY <5>2 DEF duer_voice_send, Call
        <5>3. CASE duer_voice_stop
          BY <5>3 DEF duer_voice_stop, Call
        <5>4. QED
          BY <4>1, <5>1, <5>2, <5>3 DEF App
      <4>2. CASE duer_voice_initialize \/ duer_voice_finalize
        BY <4>2 DEF duer_voice_initialize, duer_voice_finalize
      <4>3. CASE Task
        BY <4>3 DEF Task, Start, Create, Send, Stop, Full, Clear, Store, Rest, Eof, Close, Forget
      <4>4. CASE UNCHANGED vars
        BY <4>4 DEF vars
      <4>5. QED
        BY <4>1, <4>2, <4>3, <4>4 DEF Next
    <3>2. QED
      BY <1>2, <3>1
  <2>2. CASE UNCHANGED vars
    <3>1. Pipe' = Pipe
      BY <2>2 DEF vars, Pipe, Unsent, Coded, Framed
    <3>2. PICK r \in Nat, n \in Nat, o \in BOOLEAN : WholeAt(r, n, o)
      BY <2>1 DEF WholeInv
    <3>3. Phase(o)' /\ Ended(o)' = Ended(o) /\ Future' /\ Past(r)'
      BY <2>2, <3>2 DEF vars, WholeAt, Phase, Ended, Future, Past
    <3>4. Current(r, n, Ended(o))'
      BY <2>2, <3>1, <3>2, <3>3 DEF vars, WholeAt, Current
    <3>5. WholeAt(r, n, o)'
      BY <2>2, <3>2, <3>3, <3>4 DEF vars, WholeAt
    <3>6. QED
      BY <3>5 DEF WholeInv
  <2>3. QED
    BY <1>2, <2>1, <2>2, WholeApp, WholeLoop, WholeMoves, WholeReports, WholeSend, WholeCreate
       DEF Next, Task
<1>3. QED
  BY <1>1, <1>2

LEMMA WholeStart == ASSUME Init PROVE WholeInv
<1>1. Path(queue, <<0, 0, FALSE>>, <<recording, samples, open>>)
  <2>1. PICK c \in Cursor : c = <<0, 0, FALSE>>
    BY DEF Cursor
  <2>2. Path(<<>>, c, c)
    BY PathNone
  <2>3. queue = <<>> /\ <<recording, samples, open>> = c
    BY <2>1 DEF Init
  <2>4. QED
    BY <2>1, <2>2, <2>3
<1>2. Phase(FALSE) /\ (connects = 0 => topic_id = 0) /\ Past(0) /\ Current(0, 0, Ended(FALSE))
  BY DEF Init, Phase, Ended, Past, Current
<1>3. Future
  BY TopicOfNone DEF Init, Future
<1>4. WholeAt(0, 0, FALSE)
  BY <1>1, <1>2, <1>3 DEF WholeAt
<1>5. QED
  BY <1>4 DEF WholeInv

\* What the cloud has of a topic is the recording the topic was started for.
LEMMA WholeShows == ASSUME VInv, WholeInv PROVE TopicsWhole
<1>1. SUFFICES ASSUME mishaps = {}, NEW t \in 1 .. topic_id
               PROVE  LET segments == Topic(t)
                          heard == Samples(segments)
                          last == Len(segments)
                      IN  /\ \A i \in 1 .. last : segments[i].sid = i - 1
                          /\ \A i \in 1 .. last - 1 : ~ segments[i].eof
                          /\ \A i \in DOMAIN heard : heard[i] = <<owner[t], i>>
                          /\ last > 0 /\ segments[last].eof /\ owner[t] = recording =>
                                 Len(heard) = samples
  BY DEF TopicsWhole
<1>2. PICK r \in Nat, n \in Nat, o \in BOOLEAN : WholeAt(r, n, o)
  BY <1>1 DEF WholeInv
<1>3. PICK k \in Nat : k = topic_id
  BY DEF VInv, TypeOK
<1>4. PICK S \in Seq(Segments) : S = Topic(t) /\ S = TopicOf(sent, t)
  BY TopicOfType DEF VInv, TypeOK, TopicOf, Topic
<1>5. PICK h \in Seq(Sample) : h = Samples(S)
  BY SamplesType
<1>6. PICK c \in Cursor, d \in Cursor : c = <<r, n, o>> /\ d = <<recording, samples, open>>
  BY AppCursor DEF Cursor
<1>7. Path(queue, c, d)
  BY <1>2, <1>6 DEF WholeAt
<1>8. queue \in Seq(Calls)
  BY DEF VInv, TypeOK
<1>9. r <= recording
  <2>1. c[1] <= d[1]
    BY <1>7, <1>8, PathForward
  <2>2. QED
    BY <1>6, <2>1
<1>10. CASE t \in 1 .. k - 1
  <2>1. owner[t] < r /\ Filed(S, owner[t])
    BY <1>2, <1>3, <1>4, <1>10 DEF WholeAt, Past
  <2>2. owner[t] # recording
    <3>1. owner[t] \in Nat /\ recording \in Nat
      <4>1. owner \in Seq(Recordings) /\ Len(owner) = k /\ Recordings \subseteq Nat
        BY <1>3, ConstType DEF VInv, TypeOK, Recordings
      <4>2. QED
        <5>1. owner[t] \in Recordings
          BY <1>1, <1>3, <4>1
        <5>2. recording \in Nat
          BY ConstType DEF VInv, TypeOK
        <5>3. QED
          BY <4>1, <5>1, <5>2
    <3>2. QED
      BY <1>9, <2>1, <3>1
  <2>3. DOMAIN h = 1 .. Len(h)
    OBVIOUS
  <2>4. QED
    BY <1>4, <1>5, <2>1, <2>2, <2>3 DEF Filed, Counted, Closed
<1>11. CASE t = k
  <2>1. PICK p \in Seq(Sample), hp \in Seq(Sample) : p = Pipe /\ hp = h \o p
    <3>1. h \o Pipe \in Seq(Sample) /\ Pipe \in Seq(Sample)
      BY PipeType, SampleCat
    <3>2. QED
      BY <3>1
  <2>2. PICK e \in BOOLEAN : e = Ended(o)
    BY DEF Ended
  <2>3. /\ owner[t] = r /\ Counted(S) /\ Whole(hp, r, n)
        /\ IF e THEN Closed(S) ELSE NoEnd(S)
    <3>1. topic_id > 0
      BY <1>1, <1>3, <1>11
    <3>2. Current(r, n, e)
      BY <1>2, <2>2 DEF WholeAt
    <3>3. QED
      BY <1>3, <1>4, <1>5, <1>11, <2>1, <3>1, <3>2 DEF Current
  <2>4. \A i \in DOMAIN h : h[i] = <<r, i>>
    <3>1. /\ DOMAIN h = 1 .. Len(h) /\ Len(hp) = Len(h) + Len(p)
          /\ Len(h) \in Nat /\ Len(p) \in Nat
          /\ \A i \in 1 .. Len(h) : hp[i] = h[i]
      BY <2>1, SampleCat
    <3>2. \A i \in 1 .. Len(h) : i \in 1 .. n
      BY <2>3, <3>1 DEF Whole
    <3>3. QED
      BY <2>3, <3>1, <3>2 DEF Whole
  <2>5. \A i \in 1 .. Len(S) : S[i].sid = i - 1
    BY <2>3 DEF Counted
  <2>6. \A i \in 1 .. Len(S) - 1 : ~ S[i].eof
    <3>1. \A i \in 1 .. Len(S) - 1 : i \in 1 .. Len(S)
      OBVIOUS
    <3>2. QED
      BY <2>3, <3>1 DEF Closed, NoEnd
  <2>7. ASSUME Len(S) > 0, S[Len(S)].eof, owner[t] = recording PROVE Len(h) = samples
    <3>1. Ended(o)
      <4>1. Len(S) \in 1 .. Len(S)
        BY <2>7
      <4>2. ~ NoEnd(S)
        BY <2>7, <4>1 DEF NoEnd
      <4>3. QED
        BY <2>2, <2>3, <4>2
    <3>2. Pipe = <<>>
      BY <1>2, <3>1, PipeEnded DEF WholeAt
    <3>3. Len(h) = n
      <4>1. h \o <<>> = h
        BY SampleNone
      <4>2. QED
        BY <2>1, <2>3, <3>2, <4>1 DEF Whole
    <3>4. r = recording
      BY <2>3, <2>7
    <3>5. CASE ~ o
      <4>1. queue = <<>>
        <5>1. c[1] = d[1] /\ ~ c[3]
          BY <1>6, <3>4, <3>5
        <5>2. QED
          BY <1>7, <1>8, <5>1, PathForward
      <4>2. c = d
        BY <1>7, <4>1, PathNone
      <4>3. QED
        BY <1>6, <3>3, <4>2
    <3>6. CASE pc \in {"close", "forget"}
      <4>1. queue # <<>> /\ queue[1][1] = "stop"
        BY <3>6 DEF VInv, PcInv
      <4>2. PICK b \in Cursor, q \in Seq(Calls) : b = <<r, n, FALSE>> /\ q = Tail(queue)
        BY <4>1, HeadCall DEF Cursor
      <4>3. Path(q, b, d)
        BY <1>2, <1>6, <4>1, <4>2, HeadStep DEF WholeAt
      <4>4. b[1] = d[1] /\ ~ b[3]
        BY <1>6, <3>4, <4>2
      <4>5. q = <<>>
        BY <4>3, <4>4, PathForward
      <4>6. b = d
        BY <4>3, <4>5, PathNone
      <4>7. QED
        BY <1>6, <3>3, <4>2, <4>6
    <3>7. QED
      BY <3>1, <3>5, <3>6 DEF Ended
  <2>8. QED
    BY <1>4, <1>5, <2>3, <2>4, <2>5, <2>6, <2>7
<1>12. QED
  BY <1>1, <1>3, <1>10, <1>11

\* The cloud can put every recording together from its topic: the segments are counted,
\* the last and only the last says so, and they hold the samples from the first to the
\* last, in order; if no call was lost or came out of turn and no connection stopped in
\* a recording (duer_voice_start_internal, duer_speex_encoded_callback,
\* duer_voice_stop_internal, duer_send_content).
THEOREM VoiceTopicsWhole == Spec => []TopicsWhole
<1> DEFINE Inv == VInv /\ WholeInv
<1>1. Init => Inv
  BY TypesStart, WholeStart
<1>2. Inv /\ [Next]_vars => Inv'
  BY TypesNext, WholeNext
<1>3. Inv => TopicsWhole
  BY WholeShows
<1>4. QED
  <2> HIDE DEF Inv
  <2>1. QED
    BY <1>1, <1>2, <1>3, PTL DEF Spec

=============================================================================
