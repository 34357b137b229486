-------------------------- MODULE OtaUpdaterProofs --------------------------
(***************************************************************************)
(* The OTA updater and its HTTP client, for any number of commands, any    *)
(* resource and any sizes of the buffers: the client hands on a beginning  *)
(* of the resource, an image that is booted is whole, what the cloud is    *)
(* told is true, and what the two tasks share is not used after one of     *)
(* them has freed it.                                                      *)
(***************************************************************************)
EXTENDS OtaUpdater, SequenceTheorems, WellFoundedInduction, TLAPS

-----------------------------------------------------------------------------
(* Data.  The library's induction theorems take an operator; with the set of  *)
(* the numbers that have the property in its place, its theorem about the     *)
(* well-founded < gives induction for a set.                                  *)

LEMMA SetInduction ==
  ASSUME NEW S, 0 \in S, \A n \in Nat : n \in S => n + 1 \in S
  PROVE  \A n \in Nat : n \in S
<1> DEFINE T == Nat \ S
           R == OpToRel(<, Nat)
<1>1. \A m, n \in Nat : m < n => <<m, n>> \in R
  BY DEF OpToRel
<1>2. IsWellFoundedOn(R, Nat)
  BY NatLessThanWellFounded
<1> HIDE DEF R
<1>3. SUFFICES ASSUME T # {} PROVE FALSE
  OBVIOUS
<1>4. PICK n \in T : \A m \in T : ~ (<<m, n>> \in R)
  BY <1>2, <1>3, WFMin
<1>5. n \in Nat /\ n - 1 \in Nat /\ n - 1 < n /\ n - 1 \in T
  OBVIOUS
<1>6. QED
  BY <1>1, <1>4, <1>5

\* What goes over the connection, and the pieces of the resource from i on, up to
\* the one before j.
Item == {"data", "size", "crlf", "junk"} \X Nat
Run(i, j) == [k \in 1 .. j - i |-> Data(i + k - 1)]
Past == N + 1

LEMMA ItemType == /\ \A n \in Nat : Data(n) \in Item /\ Size(n) \in Item
                  /\ CrLf \in Item /\ Junk \in Item
BY DEF Item, Data, Size, CrLf, Junk

LEMMA RunType ==
  ASSUME NEW i \in Nat, NEW j \in Nat, j >= i
  PROVE  /\ Run(i, j) \in Seq(Item) /\ Len(Run(i, j)) = j - i
         /\ \A k \in 1 .. j - i : Run(i, j)[k] = Data(i + k - 1)
BY ItemType DEF Run

LEMMA ItemCat ==
  ASSUME NEW s \in Seq(Item), NEW t \in Seq(Item)
  PROVE  /\ s \o t \in Seq(Item) /\ Len(s \o t) = Len(s) + Len(t)
         /\ \A i \in 1 .. Len(s) : (s \o t)[i] = s[i]
         /\ \A i \in 1 .. Len(t) : (s \o t)[Len(s) + i] = t[i]
OBVIOUS

LEMMA ItemAssoc ==
  ASSUME NEW s \in Seq(Item), NEW t \in Seq(Item), NEW u \in Seq(Item)
  PROVE  (s \o t) \o u = s \o (t \o u)
OBVIOUS

LEMMA PastType ==
    /\ Past \in Nat \ {0} /\ Past = N + 1
    /\ \A i \in Int : Resource(i) = Run(i, Past)
<1>1. N \in Nat
  BY HttpAssumption
<1>2. \A i \in Int : N - i + 1 = Past - i
  BY <1>1 DEF Past
<1>3. QED
  BY <1>1, <1>2 DEF Past, Resource, Run

\* A chunk has an end.
LEMMA ChunkEndsAtType ==
  ASSUME NEW j \in 1 .. N, NEW ends
  PROVE  ChunkEndsAt(j, ends) \in j .. N
<1> USE HttpAssumption
<1> DEFINE S == {k \in Nat : j + k <= N /\ \A d \in j .. j + k : d \notin ends \cup {N}}
<1>1. ~ \A k \in Nat : k \in S
  <2>1. N - j + 1 \in Nat /\ N - j + 1 \notin S
    OBVIOUS
  <2>2. QED
    BY <2>1
<1>2. CASE 0 \notin S
  <2>1. j \in ends \cup {N} /\ \A d \in j .. j - 1 : d \notin ends
    BY <1>2
  <2>2. QED
    BY <2>1 DEF ChunkEndsAt
<1>3. CASE 0 \in S
  <2>1. PICK k \in Nat : k \in S /\ k + 1 \notin S
    <3> HIDE DEF S
    <3>1. QED
      BY <1>1, <1>3, SetInduction
  <2>2. /\ j + k + 1 \in j .. N /\ j + k + 1 \in ends \cup {N}
        /\ \A d \in j .. j + k + 1 - 1 : d \notin ends
    BY <2>1
  <2>3. QED
    BY <2>2 DEF ChunkEndsAt
<1>4. QED
  BY <1>2, <1>3

\* The recursive function of Chunked exists, and is what its equation says.
LEMMA ChunkedUnfolds ==
  ASSUME NEW ends, NEW j \in 1 .. N + 1
  PROVE  /\ j = N + 1 => Chunked(j, ends) = <<Size(0), CrLf>>
         /\ j # N + 1 => LET e == ChunkEndsAt(j, ends)
                         IN  Chunked(j, ends) = <<Size(e - j + 1)>>
                                 \o SubSeq(Resource(j), 1, e - j + 1) \o <<CrLf>>
                                 \o Chunked(e + 1, ends)
<1> USE HttpAssumption
<1> DEFINE Ending == <<Size(0), CrLf>>
           Chunk(i) == <<Size(ChunkEndsAt(i, ends) - i + 1)>>
                           \o SubSeq(Resource(i), 1, ChunkEndsAt(i, ends) - i + 1) \o <<CrLf>>
           Follow(i) == ChunkEndsAt(i, ends) + 1
           Body(i, f) == IF i = N + 1 THEN Ending ELSE Chunk(i) \o f[Follow(i)]
           Fn(f, lo) == [i \in lo .. N + 1 |-> Body(i, f)]
           S == {k \in Nat : k <= N => \E f : f = Fn(f, N + 1 - k)}
<1>1. \A i \in 1 .. N : Follow(i) \in i + 1 .. N + 1
  BY ChunkEndsAtType
<1> DEFINE From == CHOOSE f : f = Fn(f, 1)
<1>2. \A i : Chunked(i, ends) = From[i]
  BY DEF Chunked
<1> HIDE DEF Ending, Chunk, Follow
<1>3. 0 \in S
  <2> DEFINE f == [i \in N + 1 .. N + 1 |-> Ending]
  <2>1. \A i \in N + 1 .. N + 1 : f[i] = Body(i, f)
    OBVIOUS
  <2>2. f = Fn(f, N + 1)
    BY <2>1
  <2> HIDE DEF f, Fn
  <2>3. QED
    BY <2>2
<1>4. ASSUME NEW k \in Nat, k \in S PROVE k + 1 \in S
  <2>1. SUFFICES ASSUME k + 1 <= N PROVE \E f : f = Fn(f, N - k)
    <3> HIDE DEF Fn
    <3>1. k + 1 <= N => N + 1 - (k + 1) = N - k
      OBVIOUS
    <3>2. QED
      BY <3>1
  <2>2. PICK g : g = Fn(g, N + 1 - k)
    BY <1>4, <2>1
  <2> DEFINE f == [i \in N - k .. N + 1 |-> IF i = N - k THEN Chunk(i) \o g[Follow(i)] ELSE g[i]]
  <2>3. \A i \in N + 1 - k .. N + 1 : g[i] = Body(i, g)
    BY <2>2, Zenon
  <2>4. \A i \in N - k .. N : f[Follow(i)] = g[Follow(i)]
    BY <1>1, <2>1
  <2>5. \A i \in N - k .. N + 1 : f[i] = Body(i, f)
    <3>0. N - k # N + 1 /\ N - k \in N - k .. N + 1 /\ N - k \in N - k .. N
      BY <2>1
    <3>1. f[N - k] = Chunk(N - k) \o g[Follow(N - k)]
      BY <3>0, Zenon
    <3>2. \A i \in N + 1 - k .. N + 1 : f[i] = g[i] /\ i \in N - k .. N + 1
      BY <2>1
    <3> HIDE DEF f
    <3>3. \A i \in N + 1 - k .. N + 1 : f[i] = Body(i, f)
      BY <2>3, <2>4, <3>2
    <3>4. f[N - k] = Body(N - k, f)
      BY <2>4, <3>0, <3>1, Zenon
    <3>5. QED
      BY <3>3, <3>4
  <2>6. f = Fn(f, N - k)
    BY <2>5
  <2> HIDE DEF f, Fn
  <2>7. QED
    BY <2>6
<1> HIDE DEF Fn
<1>5. N \in S
  <2> HIDE DEF S
  <2>1. QED
    BY <1>3, <1>4, SetInduction
<1>6. N + 1 - N = 1
  OBVIOUS
<1>7. From = Fn(From, 1)
  BY <1>5, <1>6
<1> HIDE DEF From
<1>8. From[j] = Body(j, From)
  BY <1>7, Zenon DEF Fn
<1>9. Chunked(j, ends) = Body(j, From)
  BY <1>2, <1>8
<1>10. QED
  BY <1>2, <1>9 DEF Ending, Chunk, Follow

\* A chunked answer begins with a size line; that of size zero is the last.
LEMMA ChunkedShape ==
  ASSUME NEW ends, NEW j \in 1 .. Past
  PROVE  /\ Chunked(j, ends) \in Seq(Item) /\ Chunked(j, ends) # <<>>
         /\ \/ j = Past /\ Chunked(j, ends)[1] = Size(0)
            \/ \E e \in j + 1 .. Past :
                  /\ Chunked(e, ends) \in Seq(Item)
                  /\ Chunked(j, ends) = <<Size(e - j)>>
                         \o (Run(j, e) \o (<<CrLf>> \o Chunked(e, ends)))
                  /\ Chunked(j, ends)[1] = Size(e - j)
<1>1. N \in Nat \ {0} /\ Past = N + 1
  BY HttpAssumption, PastType
<1>2. Chunked(Past, ends) = <<Size(0), CrLf>>
  <2>1. N + 1 \in 1 .. N + 1
    BY <1>1
  <2>2. QED
    BY <1>1, <2>1, ChunkedUnfolds, Zenon
<1>3. /\ Chunked(Past, ends) \in Seq(Item) /\ Chunked(Past, ends) # <<>>
      /\ Chunked(Past, ends)[1] = Size(0)
  BY <1>2, ItemType
<1> DEFINE Shape(i) == \E e \in i + 1 .. Past :
               /\ Chunked(i, ends) = <<Size(e - i)>>
                      \o SubSeq(Resource(i), 1, e - i) \o <<CrLf>> \o Chunked(e, ends)
<1>4. ASSUME NEW i \in 1 .. Past, i # Past PROVE Shape(i)
  <2> DEFINE last == ChunkEndsAt(i, ends)
             e == last + 1
  <2>1. i \in 1 .. N /\ i # N + 1 /\ i \in 1 .. N + 1
    BY <1>1, <1>4
  <2>2. last \in i .. N
    BY <2>1, ChunkEndsAtType
  <2>3. Chunked(i, ends) = <<Size(last - i + 1)>> \o SubSeq(Resource(i), 1, last - i + 1)
                              \o <<CrLf>> \o Chunked(last + 1, ends)
    BY <2>1, ChunkedUnfolds, Zenon
  <2> HIDE DEF last
  <2>4. e - i = last - i + 1 /\ e \in i + 1 .. Past
    BY <1>1, <2>1, <2>2
  <2>5. Chunked(i, ends) = <<Size(e - i)>> \o SubSeq(Resource(i), 1, e - i)
                              \o <<CrLf>> \o Chunked(e, ends)
    BY <2>3, <2>4, Zenon
  <2>6. QED
    BY <2>4, <2>5, Zenon
<1>5. ASSUME NEW i \in 1 .. Past, NEW e \in i + 1 .. Past, Chunked(e, ends) \in Seq(Item),
             Chunked(i, ends) = <<Size(e - i)>> \o SubSeq(Resource(i), 1, e - i)
                                    \o <<CrLf>> \o Chunked(e, ends)
      PROVE  /\ Chunked(i, ends) \in Seq(Item) /\ Chunked(i, ends) # <<>>
             /\ Chunked(i, ends) = <<Size(e - i)>> \o (Run(i, e) \o (<<CrLf>> \o Chunked(e, ends)))
             /\ Chunked(i, ends)[1] = Size(e - i)
  <2> DEFINE line == <<Size(e - i)>>
             run == Run(i, e)
             end == <<CrLf>>
             rest == Chunked(e, ends)
  <2>1. line \in Seq(Item) /\ Len(line) = 1 /\ line[1] = Size(e - i) /\ end \in Seq(Item)
    BY <1>1, ItemType
  <2>2. run \in Seq(Item)
    BY <1>1, RunType
  <2>3. SubSeq(Resource(i), 1, e - i) = run
    <3>1. Resource(i) = Run(i, Past) /\ Past \in Nat
      BY <1>1, PastType
    <3>2. SubSeq(Run(i, Past), 1, e - i) = Run(i, e)
      BY <1>1, ItemType DEF Run
    <3>3. QED
      BY <3>1, <3>2
  <2>4. Chunked(i, ends) = line \o run \o end \o rest
    BY <1>5, <2>3, Zenon
  <2> HIDE DEF line, run, end, rest
  <2>5. rest \in Seq(Item)
    BY <1>5 DEF rest
  <2>6. end \o rest \in Seq(Item) /\ run \o (end \o rest) \in Seq(Item)
    BY <2>1, <2>2, <2>5, ItemCat
  <2>7. line \o run \o end \o rest = line \o (run \o (end \o rest))
    <3>1. line \o run \in Seq(Item)
      BY <2>1, <2>2, ItemCat
    <3>2. line \o run \o end \o rest = (line \o run) \o (end \o rest)
      BY <2>1, <2>5, <3>1, ItemAssoc
    <3>3. (line \o run) \o (end \o rest) = line \o (run \o (end \o rest))
      BY <2>1, <2>2, <2>6, ItemAssoc
    <3>4. QED
      BY <3>2, <3>3
  <2>8. Chunked(i, ends) = line \o (run \o (end \o rest))
    BY <2>4, <2>7
  <2>9. /\ line \o (run \o (end \o rest)) \in Seq(Item)
        /\ line \o (run \o (end \o rest)) # <<>>
        /\ (line \o (run \o (end \o rest)))[1] = line[1]
    <3> DEFINE tail == run \o (end \o rest)
    <3>1. tail \in Seq(Item)
      BY <2>6
    <3> HIDE DEF tail
    <3>2. /\ line \o tail \in Seq(Item) /\ Len(line \o tail) = Len(line) + Len(tail)
          /\ \A n \in 1 .. Len(line) : (line \o tail)[n] = line[n]
      BY <2>1, <3>1, ItemCat
    <3>3. (line \o tail)[1] = line[1] /\ line \o tail # <<>>
      BY <2>1, <3>1, <3>2
    <3>4. QED
      BY <3>2, <3>3 DEF tail
  <2>10. QED
    BY <2>1, <2>8, <2>9 DEF line, run, end, rest
<1> HIDE DEF Shape
<1> DEFINE S == {k \in Nat : k < Past => \A i \in Past - k .. Past : Chunked(i, ends) \in Seq(Item)}
<1>6. 0 \in S
  <2>1. \A i \in Past - 0 .. Past : i = Past
    BY <1>1
  <2>2. QED
    BY <1>3, <2>1
<1>7. ASSUME NEW k \in Nat, k \in S PROVE k + 1 \in S
  <2>1. SUFFICES ASSUME k + 1 < Past, NEW i \in Past - (k + 1) .. Past
                 PROVE  Chunked(i, ends) \in Seq(Item)
    OBVIOUS
  <2>2. i \in 1 .. Past
    BY <1>1, <2>1
  <2>3. CASE i = Past
    BY <1>3, <2>3
  <2>4. CASE i # Past
    <3>1. PICK e \in i + 1 .. Past : Chunked(i, ends) = <<Size(e - i)>>
                 \o SubSeq(Resource(i), 1, e - i) \o <<CrLf>> \o Chunked(e, ends)
      BY <1>4, <2>2, <2>4 DEF Shape
    <3>2. e \in Past - k .. Past /\ k < Past
      BY <1>1, <2>1, <2>2
    <3>3. Chunked(e, ends) \in Seq(Item)
      BY <1>7, <3>2
    <3>4. QED
      BY <1>5, <2>2, <3>1, <3>3
  <2>5. QED
    BY <2>3, <2>4
<1>8. \A i \in 1 .. Past : Chunked(i, ends) \in Seq(Item)
  <2>1. \A k \in Nat : k \in S
    <3> HIDE DEF S
    <3>1. QED
      BY <1>6, <1>7, SetInduction
  <2>2. N \in S /\ N < Past /\ Past - N = 1
    BY <1>1, <2>1
  <2>3. QED
    BY <2>2
<1>9. CASE j = Past
  BY <1>3, <1>9
<1>10. CASE j # Past
  <2>1. PICK e \in j + 1 .. Past : Chunked(j, ends) = <<Size(e - j)>>
               \o SubSeq(Resource(j), 1, e - j) \o <<CrLf>> \o Chunked(e, ends)
    BY <1>4, <1>10 DEF Shape
  <2>2. e \in 1 .. Past /\ Chunked(e, ends) \in Seq(Item)
    BY <1>1, <1>8
  <2>3. QED
    BY <1>5, <2>1, <2>2
<1>11. QED
  BY <1>9, <1>10

LEMMA CancelLeft ==
  ASSUME NEW s \in Seq(Item), NEW t \in Seq(Item), NEW u \in Seq(Item), s \o t = s \o u
  PROVE  t = u
<1>1. Len(t) = Len(u)
  BY ItemCat
<1>2. \A i \in 1 .. Len(t) : t[i] = u[i]
  BY <1>1, ItemCat
<1>3. QED
  BY <1>1, <1>2, SeqEqual

\* What is read is cut off the front of what was to come: u is s and w, t is w and v.
Cut(s, t, u, v) == \E w \in Seq(Item) : u = s \o w /\ t = w \o v /\ Len(w) = Len(u) - Len(s)

LEMMA Split ==
  ASSUME NEW s \in Seq(Item), NEW t \in Seq(Item), NEW u \in Seq(Item), NEW v \in Seq(Item),
         s \o t = u \o v, Len(s) <= Len(u)
  PROVE  Cut(s, t, u, v)
<1> DEFINE w == SubSeq(u, Len(s) + 1, Len(u))
<1>1. w \in Seq(Item) /\ Len(w) = Len(u) - Len(s)
      /\ \A i \in 1 .. Len(w) : w[i] = u[Len(s) + i]
  OBVIOUS
<1> HIDE DEF w
<1>2. u = s \o w
  <2>1. \A i \in 1 .. Len(s) : s[i] = u[i]
    BY ItemCat
  <2>2. s \o w \in Seq(Item) /\ Len(s \o w) = Len(u)
    BY <1>1, ItemCat
  <2>3. ASSUME NEW i \in 1 .. Len(u) PROVE (s \o w)[i] = u[i]
    <3>1. CASE i <= Len(s)
      BY <1>1, <2>1, <3>1, ItemCat
    <3>2. CASE i > Len(s)
      <4>1. PICK k : k = i - Len(s)
        OBVIOUS
      <4>2. k \in 1 .. Len(w) /\ i = Len(s) + k
        BY <1>1, <3>2, <4>1
      <4>3. (s \o w)[Len(s) + k] = w[k] /\ w[k] = u[Len(s) + k]
        BY <1>1, <4>2, ItemCat
      <4>4. QED
        BY <4>2, <4>3, Zenon
    <3>3. i <= Len(s) \/ i > Len(s)
      OBVIOUS
    <3>4. QED
      BY <3>1, <3>2, <3>3, Zenon
  <2>4. QED
    BY <2>2, <2>3, SeqEqual
<1>3. s \o t = s \o (w \o v)
  BY <1>1, <1>2, ItemAssoc, ZenonT(30)
<1>4. t = w \o v
  <2>1. w \o v \in Seq(Item)
    BY <1>1, ItemCat
  <2>2. QED
    BY <1>3, <2>1, CancelLeft
<1>5. QED
  BY <1>1, <1>2, <1>4 DEF Cut

LEMMA RunCat ==
  ASSUME NEW i \in Nat, NEW j \in Nat, NEW k \in Nat, i <= j, j <= k
  PROVE  Run(i, j) \o Run(j, k) = Run(i, k)
<1> DEFINE s == Run(i, j)
           t == Run(j, k)
           u == Run(i, k)
<1>1. i <= k
  OBVIOUS
<1>2. /\ s \in Seq(Item) /\ t \in Seq(Item) /\ u \in Seq(Item)
      /\ Len(s) = j - i /\ Len(t) = k - j /\ Len(u) = k - i
  BY <1>1, RunType
<1>3. /\ \A n \in 1 .. j - i : s[n] = Data(i + n - 1)
      /\ \A n \in 1 .. k - j : t[n] = Data(j + n - 1)
      /\ \A n \in 1 .. k - i : u[n] = Data(i + n - 1)
  BY <1>1 DEF Run
<1> HIDE DEF s, t, u
<1>4. s \o t \in Seq(Item) /\ Len(s \o t) = Len(u)
  BY <1>2, ItemCat
<1>5. ASSUME NEW n \in 1 .. Len(u) PROVE (s \o t)[n] = u[n]
  <2>1. CASE n <= j - i
    BY <1>2, <1>3, <2>1, ItemCat
  <2>2. CASE n > j - i
    <3>1. PICK m : m = n - (j - i)
      OBVIOUS
    <3>2. m \in 1 .. k - j /\ m \in 1 .. Len(t) /\ n = Len(s) + m /\ j + m - 1 = i + n - 1
      BY <1>2, <2>2, <3>1
    <3>3. (s \o t)[n] = t[m]
      BY <1>2, <3>2, ItemCat
    <3>4. QED
      BY <1>2, <1>3, <3>2, <3>3
  <2>3. QED
    BY <1>2, <2>1, <2>2
<1>6. s \o t = u
  BY <1>2, <1>4, <1>5, SeqEqual
<1>7. QED
  BY <1>6 DEF s, t, u

\* The front and the rest of a run of pieces.
Parts(s, t, i, k) == \E j \in i .. k : j = i + Len(s) /\ s = Run(i, j) /\ t = Run(j, k)

LEMMA RunSplit ==
  ASSUME NEW i \in Nat, NEW k \in Nat, i <= k,
         NEW s \in Seq(Item), NEW t \in Seq(Item), s \o t = Run(i, k)
  PROVE  Parts(s, t, i, k)
<1>1. PICK j : j = i + Len(s)
  OBVIOUS
<1>2. Len(Run(i, k)) = k - i /\ Len(s \o t) = Len(s) + Len(t)
  BY RunType, ItemCat
<1>3. j \in Nat /\ i <= j /\ j <= k
  BY <1>1, <1>2
<1>4. Run(i, j) \in Seq(Item) /\ Len(Run(i, j)) = j - i /\ Run(j, k) \in Seq(Item)
  BY <1>3, RunType
<1>5. s \o t = Run(i, j) \o Run(j, k)
  BY <1>3, RunCat
<1> DEFINE r == Run(i, j)
           u == Run(j, k)
<1>6. r \in Seq(Item) /\ u \in Seq(Item) /\ Len(r) = Len(s) /\ s \o t = r \o u
  BY <1>1, <1>4, <1>5
<1> HIDE DEF r, u
<1>7. PICK w \in Seq(Item) : r = s \o w /\ t = w \o u /\ Len(w) = Len(r) - Len(s)
  <2>1. Len(s) <= Len(r)
    BY <1>6
  <2>2. Cut(s, t, r, u)
    BY <1>6, <2>1, Split
  <2>3. QED
    BY <2>2 DEF Cut
<1>8. w = <<>>
  BY <1>6, <1>7
<1>9. r = s /\ t = u
  BY <1>6, <1>7, <1>8
<1>10. QED
  BY <1>1, <1>3, <1>9 DEF r, u, Parts

-----------------------------------------------------------------------------
(* The HTTP client: what is handed on is the resource from its beginning. *)

\* The server heeded the Range header, and no answer of a redirect was taken for
\* content.
InOrder == spoiled \cap {"range", "redirect"} = {}

\* p has been put into p_chunk_buf and g handed on: all pieces before j.
PlaceOf(g, p, j) == g \o p = Run(1, j)
Place(j) == InOrder => PlaceOf(got, p_chunk_buf, j)

\* b has been read and s is to come on a connection in state p; together they are
\* x, of which only a beginning will come when the connection is closed.
RawOf(b, s, p, x) == \E t \in Seq(Item) : x = b \o t /\ s = IF p = "open" THEN t ELSE <<>>
Raw(x) == RawOf(buf, stream, peer, x)

LenKnown == spoiled = {} => n_http_content_len = N

Resting == {"idle", "connect", "done", "crashed"}

HTyped ==
    /\ HttpTypeOK
    /\ stream \in Seq(Item) /\ buf \in Seq(Item)
    /\ p_chunk_buf \in Seq(Item) /\ got \in Seq(Item)
    /\ get \notin Resting => peer # "none"
    /\ get \notin {"idle", "done"} => resume_retry_count <= MaxResume
    /\ get \in Resting => p_chunk_buf = <<>>

GotInv == InOrder => \E j \in 1 .. Past : got = Run(1, j)
OkInv == get = "done" /\ result = "ok" /\ spoiled = {} => got = Run(1, Past)

\* The head of an answer: its body is to come.
HeadInv ==
    get = "head" /\ peer = "open" =>
        /\ buf = <<>> /\ p_chunk_buf = <<>>
        /\ \E j \in 1 .. N :
              /\ Place(j)
              /\ \/ stream = Run(j, Past) /\ LenKnown
                 \/ \E ends : stream = Chunked(j, ends)

ContentInv ==
    get = "content" =>
        /\ p_chunk_buf = <<>> /\ LenKnown
        /\ \E j \in 1 .. Past : Place(j) /\ Raw(Run(j, Past))

SizeInv ==
    get = "size" => \E j \in 1 .. Past : \E ends : Place(j) /\ Raw(Chunked(j, ends))

\* In a chunk, e is the piece after it; need_to_read counts what is to come.
ChunkInv ==
    get \in {"small", "large", "crlf"} =>
        \E j \in 1 .. Past, e \in 1 .. Past : \E ends :
            /\ j <= e /\ Place(j)
            /\ Raw(Run(j, e) \o (<<CrLf>> \o Chunked(e, ends)))
            /\ get = "small" => need_to_read = e - j /\ e - j < Room
            /\ get # "small" => need_to_read = e - j - Len(buf)
            /\ get = "crlf" => buf = <<>> /\ need_to_read = 0

HInv == /\ HTyped /\ GotInv /\ OkInv
        /\ HeadInv /\ ContentInv /\ SizeInv /\ ChunkInv

\* What is read moves from the stream to the buffer.
LeftOver(r) == IF r.peer = "open" THEN SubSeq(stream, r.k + 1, Len(stream)) ELSE <<>>

LEMMA ReadType ==
  ASSUME stream \in Seq(Item), peer \in {"open", "closed"},
         NEW n \in Nat, NEW r \in Reads(n)
  PROVE  /\ r.k \in Nat /\ r.k <= n /\ r.k <= Len(stream)
         /\ r.res \in {"ok", "conn"} /\ r.peer \in {"open", "closed"}
         /\ r.peer = "open" => peer = "open"
         /\ Received(r) \in Seq(Item) /\ Len(Received(r)) = r.k
         /\ LeftOver(r) \in Seq(Item)
         /\ AfterRead(r) => stream' = LeftOver(r) /\ peer' = r.peer
<1>1. /\ r.k \in Nat /\ r.k <= n /\ r.k <= Len(stream)
      /\ r.res \in {"ok", "conn"} /\ r.peer \in {"open", "closed"}
      /\ r.peer = "open" => peer = "open"
  <2>1. CASE n = 0
    BY <2>1 DEF Reads
  <2>2. CASE n > 0 /\ peer = "closed"
    BY <2>2 DEF Reads
  <2>3. CASE n > 0 /\ peer = "open"
    BY <2>3 DEF Reads, Least
  <2>4. QED
    BY <2>1, <2>2, <2>3
<1>2. Received(r) \in Seq(Item) /\ Len(Received(r)) = r.k
  BY <1>1 DEF Received
<1>3. LeftOver(r) \in Seq(Item)
  BY <1>1 DEF LeftOver
<1>4. QED
  BY <1>1, <1>2, <1>3 DEF AfterRead, LeftOver

LEMMA SubSeqCut ==
  ASSUME NEW s \in Seq(Item), NEW k \in Nat, k <= Len(s)
  PROVE  /\ SubSeq(s, 1, k) \in Seq(Item) /\ Len(SubSeq(s, 1, k)) = k
         /\ SubSeq(s, k + 1, Len(s)) \in Seq(Item)
         /\ Len(SubSeq(s, k + 1, Len(s))) = Len(s) - k
         /\ s = SubSeq(s, 1, k) \o SubSeq(s, k + 1, Len(s))
<1> DEFINE u == SubSeq(s, 1, k)
           w == SubSeq(s, k + 1, Len(s))
<1>1. /\ u \in Seq(Item) /\ Len(u) = k /\ w \in Seq(Item) /\ Len(w) = Len(s) - k
      /\ \A i \in 1 .. Len(u) : u[i] = s[i]
      /\ \A i \in 1 .. Len(w) : w[i] = s[k + i]
  BY SMTT(30)
<1> HIDE DEF u, w
<1>2. u \o w \in Seq(Item) /\ Len(u \o w) = Len(s)
  <2>1. u \o w \in Seq(Item) /\ Len(u \o w) = Len(u) + Len(w)
    BY <1>1, ItemCat
  <2>2. Len(u) + Len(w) = Len(s)
    BY <1>1
  <2>3. QED
    BY <2>1, <2>2
<1>3. ASSUME NEW i \in 1 .. Len(s) PROVE (u \o w)[i] = s[i]
  <2>1. CASE i <= k
    BY <1>1, <2>1, ItemCat
  <2>2. CASE i > k
    <3>1. PICK m : m = i - k
      OBVIOUS
    <3>2. m \in 1 .. Len(w) /\ i = k + m
      BY <1>1, <2>2, <3>1
    <3>3. (u \o w)[Len(u) + m] = w[m]
      BY <1>1, <3>2, ItemCat
    <3>4. QED
      BY <1>1, <3>2, <3>3
  <2>3. i <= k \/ i > k
    OBVIOUS
  <2>4. QED
    BY <2>1, <2>2, <2>3, Zenon
<1>4. u \o w = s
  BY <1>2, <1>3, SeqEqual
<1>5. QED
  BY <1>1, <1>4 DEF u, w

LEMMA RawRead ==
  ASSUME stream \in Seq(Item), buf \in Seq(Item), peer \in {"open", "closed"},
         NEW n \in Nat, NEW r \in Reads(n), NEW x \in Seq(Item), Raw(x)
  PROVE  RawOf(buf \o Received(r), LeftOver(r), r.peer, x)
<1>1. PICK t \in Seq(Item) : x = buf \o t /\ stream = IF peer = "open" THEN t ELSE <<>>
  BY DEF Raw, RawOf
<1>2. /\ r.k \in Nat /\ r.k <= Len(stream) /\ r.peer \in {"open", "closed"}
      /\ r.peer = "open" => peer = "open"
      /\ Received(r) \in Seq(Item) /\ Len(Received(r)) = r.k
  BY ReadType
<1>3. CASE peer = "open"
  <2> DEFINE s == Received(r)
             rest == SubSeq(stream, r.k + 1, Len(stream))
  <2>1. s \in Seq(Item) /\ rest \in Seq(Item) /\ stream = s \o rest
    BY <1>2, SubSeqCut DEF Received
  <2>2. LeftOver(r) = IF r.peer = "open" THEN rest ELSE <<>>
    BY DEF LeftOver
  <2> HIDE DEF s, rest
  <2>3. x = (buf \o s) \o rest
    <3>1. (buf \o s) \o rest = buf \o (s \o rest)
      <4>1. PICK b \in Seq(Item), u \in Seq(Item), v \in Seq(Item) :
                b = buf /\ u = s /\ v = rest
        BY <2>1
      <4>2. (b \o u) \o v = b \o (u \o v)
        BY SMTT(30)
      <4>3. QED
        BY <4>1, <4>2, Zenon
    <3>2. stream = t
      BY <1>1, <1>3
    <3>3. QED
      BY <1>1, <2>1, <3>1, <3>2, Zenon
  <2>4. RawOf(buf \o s, LeftOver(r), r.peer, x)
    BY <2>1, <2>2, <2>3 DEF RawOf
  <2>5. QED
    BY <2>4 DEF s
<1>4. CASE peer = "closed"
  <2>1. r.k = 0 /\ r.peer = "closed"
    BY <1>1, <1>2, <1>4
  <2>2. Received(r) = <<>> /\ LeftOver(r) = <<>>
    BY <1>2, <2>1 DEF LeftOver
  <2>3. buf \o Received(r) = buf
    BY <2>2
  <2>4. QED
    BY <1>1, <1>4, <2>1, <2>2, <2>3 DEF RawOf
<1>5. QED
  BY <1>3, <1>4

\* What has been read begins with u,
LEMMA RawCut ==
  ASSUME NEW b \in Seq(Item), NEW s \in Seq(Item), NEW p,
         NEW u \in Seq(Item), NEW v \in Seq(Item), RawOf(b, s, p, u \o v), Len(u) <= Len(b)
  PROVE  /\ u = SubSeq(b, 1, Len(u))
         /\ RawOf(SubSeq(b, Len(u) + 1, Len(b)), s, p, v)
<1>1. PICK t \in Seq(Item) : u \o v = b \o t /\ s = IF p = "open" THEN t ELSE <<>>
  BY DEF RawOf
<1>2. PICK w \in Seq(Item) : b = u \o w /\ v = w \o t /\ Len(w) = Len(b) - Len(u)
  <2>1. Cut(u, v, b, t)
    BY <1>1, Split
  <2>2. QED
    BY <2>1 DEF Cut
<1>3. /\ \A i \in 1 .. Len(u) : b[i] = u[i]
      /\ \A i \in 1 .. Len(w) : b[Len(u) + i] = w[i]
  BY <1>2, ItemCat
<1>4. u = SubSeq(b, 1, Len(u))
  BY <1>3
<1>5. w = SubSeq(b, Len(u) + 1, Len(b))
  BY <1>2, <1>3
<1>6. RawOf(w, s, p, v)
  BY <1>1, <1>2 DEF RawOf
<1>7. QED
  BY <1>4, <1>5, <1>6

\* or is the beginning of u.
Taken(b, s, p, u, v) == \E w \in Seq(Item) : u = b \o w /\ RawOf(<<>>, s, p, w \o v)

LEMMA RawTake ==
  ASSUME NEW b \in Seq(Item), NEW s \in Seq(Item), NEW p,
         NEW u \in Seq(Item), NEW v \in Seq(Item), RawOf(b, s, p, u \o v), Len(b) <= Len(u)
  PROVE  Taken(b, s, p, u, v)
<1>1. PICK t \in Seq(Item) : u \o v = b \o t /\ s = IF p = "open" THEN t ELSE <<>>
  BY DEF RawOf
<1>2. PICK w \in Seq(Item) : u = b \o w /\ t = w \o v
  <2>1. Cut(b, t, u, v)
    BY <1>1, Split
  <2>2. QED
    BY <2>1 DEF Cut
<1>3. w \o v = <<>> \o t
  BY <1>2
<1>4. QED
  BY <1>1, <1>2, <1>3 DEF RawOf, Taken

LEMMA PlaceFront ==
  ASSUME NEW g \in Seq(Item), NEW p \in Seq(Item), NEW m \in Nat, 1 <= m, PlaceOf(g, p, m)
  PROVE  \E i \in 1 .. m : g = Run(1, i)
<1>1. g \o p = Run(1, m)
  BY DEF PlaceOf
<1>2. Parts(g, p, 1, m)
  BY <1>1, RunSplit
<1>3. QED
  BY <1>2 DEF Parts

\* What a step of the client leaves of its history.
Progress ==
    /\ got \in Seq(Item) /\ n_http_content_len \in Nat /\ recv_size = Len(got)
    /\ spoiled \subseteq {"range", "length", "total", "redirect"}
    /\ GotInv

\* What a redirect may make of the total.
LEMMA TotalsType ==
  ASSUME HInv, NEW total \in Totals
  PROVE  total \in Nat /\ MissingOf(total) \in Nat
<1>1. n_http_content_len \in Nat /\ recv_size \in Nat
  BY DEF HInv, HTyped, HttpTypeOK
<1>2. total \in Nat
  BY <1>1, HttpAssumption DEF Totals
<1>3. QED
  BY <1>1, <1>2, HttpAssumption DEF MissingOf

LEMMA TotalKept ==
  ASSUME HInv, n_http_content_len' \in Totals, UNCHANGED <<recv_size, got, spoiled>>
  PROVE  Progress'
<1>1. n_http_content_len' \in Nat
  BY TotalsType
<1>2. QED
  BY <1>1 DEF HInv, HTyped, HttpTypeOK, GotInv, InOrder, Progress

LEMMA ProgressKept == ASSUME HInv, UNCHANGED <<progressVars, spoiled>> PROVE Progress'
BY DEF HInv, HTyped, HttpTypeOK, GotInv, InOrder, Progress, progressVars

\* A step that ends an attempt or the call.
LEMMA Stops ==
  ASSUME HInv, get \notin {"idle", "done"}, Progress',
         Resume \/ End("failed") \/ (End("ok") /\ (spoiled' = {} => got' = Run(1, Past)))
  PROVE  HInv'
<1> USE HttpAssumption
<1>1. /\ get' \in {"connect", "done"} /\ Drop
      /\ resume_retry_count' \in 0 .. MaxResume + 1
      /\ get' = "connect" => resume_retry_count' <= MaxResume
      /\ redirect_count' \in 0 .. MaxRedirect
      /\ result' \in {"none", "ok", "failed", "conn"}
      /\ OkInv'
  <2>1. CASE Resume
    BY <2>1 DEF HInv, HTyped, HttpTypeOK, Resume, OkInv
  <2>2. CASE End("failed")
    BY <2>2 DEF HInv, HTyped, HttpTypeOK, End, OkInv
  <2>3. CASE End("ok") /\ (spoiled' = {} => got' = Run(1, Past))
    BY <2>3 DEF HInv, HTyped, HttpTypeOK, End, OkInv
  <2>4. QED
    BY <2>1, <2>2, <2>3
<1>2. /\ stream' = <<>> /\ buf' = <<>> /\ p_chunk_buf' = <<>> /\ need_to_read' = 0
      /\ peer' = "none"
  BY <1>1 DEF Drop
<1>3. HTyped'
  BY <1>1, <1>2 DEF HTyped, HttpTypeOK, Progress, Resting
<1>4. (HeadInv /\ ContentInv /\ SizeInv /\ ChunkInv)'
  BY <1>1 DEF HeadInv, ContentInv, SizeInv, ChunkInv
<1>5. QED
  BY <1>1, <1>3, <1>4 DEF HInv, Progress

\* Pieces that follow those handed on and those in p_chunk_buf.
LEMMA StoreKeeps ==
  ASSUME HInv, NEW j \in 1 .. Past, NEW m \in j .. Past, Place(j), m - j <= Room,
         Store(Run(j, m)), UNCHANGED spoiled
  PROVE  /\ Progress' /\ Place(m)' /\ p_chunk_buf' \in Seq(Item)
         /\ Len(p_chunk_buf') < Room
<1> USE HttpAssumption
<1> DEFINE d == Run(j, m)
           fill == Room - Len(p_chunk_buf)
           u == SubSeq(d, 1, fill)
           w == SubSeq(d, fill + 1, Len(d))
<1>0. Past \in Nat /\ j \in Nat /\ m \in Nat /\ 1 <= j /\ j <= m /\ m <= Past
  BY PastType
<1>1. d \in Seq(Item) /\ Len(d) = m - j
  BY <1>0, RunType
<1>2. /\ got \in Seq(Item) /\ p_chunk_buf \in Seq(Item) /\ Len(p_chunk_buf) < Room
      /\ recv_size = Len(got) /\ recv_size \in Nat /\ n_http_content_len \in Nat
      /\ spoiled \subseteq {"range", "length", "total", "redirect"}
  BY DEF HInv, HTyped, HttpTypeOK
<1>3. fill \in Nat /\ fill > 0
  BY <1>2
<1>4. /\ got' \in Seq(Item) /\ recv_size' = Len(got')
      /\ n_http_content_len' = n_http_content_len
      /\ p_chunk_buf' \in Seq(Item) /\ Len(p_chunk_buf') < Room
      /\ got' \o p_chunk_buf' = (got \o p_chunk_buf) \o d
  <2>1. CASE Len(d) >= fill
    <3>1. /\ got' = got \o (p_chunk_buf \o u) /\ recv_size' = recv_size + Len(p_chunk_buf \o u)
          /\ n_http_content_len' = n_http_content_len /\ p_chunk_buf' = w
      BY <2>1 DEF Store, Hand
    <3>2. /\ u \in Seq(Item) /\ w \in Seq(Item) /\ Len(w) = Len(d) - fill /\ d = u \o w
      BY <1>1, <1>3, <2>1, SubSeqCut
    <3>3. Len(w) < Room
      BY <1>1, <1>2, <3>2
    <3> HIDE DEF d, fill, u, w
    <3>4. p_chunk_buf \o u \in Seq(Item)
      BY <1>2, <3>2, ItemCat
    <3>5. got' \in Seq(Item) /\ Len(got') = Len(got) + Len(p_chunk_buf \o u)
      BY <1>2, <3>1, <3>4, ItemCat
    <3>6. (got \o (p_chunk_buf \o u)) \o w = (got \o p_chunk_buf) \o (u \o w)
      <4> DEFINE a == p_chunk_buf \o u
      <4>1. a \o w = p_chunk_buf \o (u \o w)
        BY <1>2, <3>2, ItemAssoc
      <4>2. a \in Seq(Item) /\ u \o w \in Seq(Item)
        BY <3>2, <3>4, ItemCat
      <4> HIDE DEF a
      <4>3. (got \o a) \o w = got \o (a \o w)
        BY <1>2, <3>2, <4>2, ItemAssoc, ZenonT(30)
      <4>4. got \o (p_chunk_buf \o (u \o w)) = (got \o p_chunk_buf) \o (u \o w)
        BY <1>2, <4>2, ItemAssoc
      <4>5. QED
        BY <4>1, <4>3, <4>4, Zenon DEF a
    <3>7. QED
      BY <1>2, <3>1, <3>2, <3>3, <3>5, <3>6
  <2>2. CASE Len(d) < fill
    <3>1. UNCHANGED progressVars /\ p_chunk_buf' = p_chunk_buf \o d
      BY <1>1, <1>3, <2>2 DEF Store
    <3>2. Len(p_chunk_buf) + Len(d) < Room
      BY <1>1, <1>2, <2>2
    <3> HIDE DEF d, fill
    <3>3. p_chunk_buf' \in Seq(Item) /\ Len(p_chunk_buf') = Len(p_chunk_buf) + Len(d)
      BY <1>1, <1>2, <3>1, ItemCat
    <3>4. got \o (p_chunk_buf \o d) = (got \o p_chunk_buf) \o d
      BY <1>1, <1>2, ItemAssoc
    <3>5. QED
      BY <1>2, <3>1, <3>2, <3>3, <3>4 DEF progressVars
  <2>3. Len(d) >= fill \/ Len(d) < fill
    BY <1>0, <1>1, <1>3
  <2>4. QED
    BY <2>1, <2>2, <2>3, Zenon
<1>5. Place(m)'
  <2>1. SUFFICES ASSUME InOrder PROVE got' \o p_chunk_buf' = Run(1, m)
    BY DEF Place, PlaceOf, InOrder
  <2>2. got \o p_chunk_buf = Run(1, j)
    BY <2>1 DEF Place, PlaceOf
  <2>3. Run(1, j) \o d = Run(1, m)
    BY <1>0, RunCat
  <2>4. QED
    BY <1>4, <2>2, <2>3
<1>6. GotInv'
  <2>1. SUFFICES ASSUME InOrder' PROVE \E i \in 1 .. Past : got' = Run(1, i)
    BY DEF GotInv
  <2>2. PlaceOf(got', p_chunk_buf', m)
    BY <1>5, <2>1 DEF Place
  <2>3. \E i \in 1 .. m : got' = Run(1, i)
    BY <1>0, <1>4, <2>2, PlaceFront
  <2>4. QED
    BY <1>0, <2>3
<1>7. Progress'
  BY <1>2, <1>4, <1>6 DEF Progress
<1>8. QED
  BY <1>4, <1>5, <1>7

LEMMA ConnectKeeps == ASSUME HInv, Connect PROVE HInv'
<1> USE HttpAssumption
<1>1. get = "connect" /\ get \notin {"idle", "done"}
  BY DEF Connect, ConnectFails, Refused, Answered, Redirected, RedirectedToPath, RedirectedTooOften
<1>2. CASE ConnectFails \/ Refused
  BY <1>1, <1>2, TotalKept, ProgressKept, Stops DEF ConnectFails, Refused
<1>3. CASE Redirected \/ RedirectedToPath
  <2>1. /\ UNCHANGED <<connVars, recv_size, got, resume_retry_count, result, spoiled>>
        /\ n_http_content_len' \in Totals
        /\ redirect_count' \in 0 .. MaxRedirect /\ get' \in {"connect", "crashed"}
    BY <1>1, <1>3 DEF Redirected, RedirectedToPath, HInv, HTyped, HttpTypeOK
  <2>2. n_http_content_len' \in Nat
    BY <2>1, TotalsType
  <2>3. HTyped' /\ GotInv'
    BY <1>1, <2>1, <2>2 DEF HInv, HTyped, HttpTypeOK, GotInv, InOrder, Resting, connVars
  <2>4. QED
    BY <2>1, <2>3 DEF HInv, OkInv, HeadInv, ContentInv, SizeInv, ChunkInv
<1>4. CASE RedirectedTooOften
  <2>1. PICK total \in Totals, head \in {<<>>, <<Junk>>} :
          /\ n_http_content_len' = total
          /\ \/ End("failed") /\ UNCHANGED <<recv_size, got>>
             \/ /\ got' = got \o head /\ recv_size' = recv_size + Len(head)
                /\ Resume \/ End("ok")
    BY <1>4 DEF RedirectedTooOften
  <2>2. spoiled' = spoiled \cup {"redirect"}
    BY <1>4 DEF RedirectedTooOften
  <2>3. Progress'
    <3>1. /\ got \in Seq(Item) /\ recv_size = Len(got)
          /\ spoiled \subseteq {"range", "length", "total", "redirect"}
      BY DEF HInv, HTyped, HttpTypeOK
    <3>2. ~InOrder'
      BY <2>2 DEF InOrder
    <3>3. head \in Seq(Item)
      <4>1. Junk \in Item
        BY ItemType
      <4>2. <<>> \in Seq(Item) /\ \A x \in Item : <<x>> \in Seq(Item)
        OBVIOUS
      <4>3. QED
        BY <4>1, <4>2
    <3>4. n_http_content_len' \in Nat
      BY <2>1, TotalsType
    <3>5. got' \in Seq(Item) /\ recv_size' = Len(got')
      <4>1. got \o head \in Seq(Item) /\ Len(got \o head) = Len(got) + Len(head)
        BY <3>1, <3>3, ItemCat
      <4>2. QED
        BY <2>1, <3>1, <4>1
    <3>6. QED
      BY <2>2, <3>1, <3>2, <3>4, <3>5 DEF Progress, GotInv
  <2>4. Resume \/ End("failed") \/ End("ok")
    BY <2>1
  <2>5. spoiled' # {}
    BY <2>2
  <2>6. QED
    BY <1>1, <2>3, <2>4, <2>5, Stops
<1>5. CASE Answered
  <2> DEFINE First(ignored) == IF ignored \/ recv_size >= N THEN 1 ELSE recv_size + 1
  <2>0. PICK ignored \in IF recv_size > 0 THEN BOOLEAN ELSE {FALSE},
             framing \in {"length", "none", "chunked"}, ends \in SUBSET (1 .. N - 1) :
          /\ stream' = IF framing = "chunked" THEN Chunked(First(ignored), ends)
                                              ELSE Resource(First(ignored))
          /\ n_http_content_len' = IF framing = "length" THEN N - First(ignored) + 1 + recv_size
                                                         ELSE n_http_content_len
          /\ spoiled' = spoiled
                 \cup (IF First(ignored) # recv_size + 1 THEN {"range"} ELSE {})
                 \cup (CASE framing # "none" \/ n_http_content_len = N -> {}
                         [] framing = "none" /\ n_http_content_len = 0 -> {"length"}
                         [] OTHER -> {"total"})
    BY <1>5 DEF Answered
  <2>1. PICK first :
          /\ first = First(ignored)
          /\ stream' = IF framing = "chunked" THEN Chunked(first, ends) ELSE Resource(first)
          /\ n_http_content_len' = IF framing = "length" THEN N - first + 1 + recv_size
                                                         ELSE n_http_content_len
          /\ spoiled' = spoiled
                 \cup (IF first # recv_size + 1 THEN {"range"} ELSE {})
                 \cup (CASE framing # "none" \/ n_http_content_len = N -> {}
                         [] framing = "none" /\ n_http_content_len = 0 -> {"length"}
                         [] OTHER -> {"total"})
    BY <2>0
  <2>2. /\ get' = "head" /\ peer' = "open" /\ buf' = <<>>
        /\ UNCHANGED <<p_chunk_buf, need_to_read, recv_size, got, resume_retry_count,
                       redirect_count, result>>
    BY <1>5 DEF Answered
  <2>3. /\ p_chunk_buf = <<>> /\ got \in Seq(Item) /\ recv_size = Len(got) /\ recv_size \in Nat
        /\ n_http_content_len \in Nat /\ GotInv
        /\ resume_retry_count <= MaxResume
    BY <1>1 DEF HInv, HTyped, HttpTypeOK, Resting
  <2>4. first \in 1 .. N /\ first \in 1 .. Past /\ first \in Nat
    BY <2>1, <2>3, PastType
  <2>5. stream' \in Seq(Item) /\ (framing # "chunked" => stream' = Run(first, Past))
    <3>1. Resource(first) = Run(first, Past) /\ Run(first, Past) \in Seq(Item)
      BY <2>4, PastType, RunType
    <3>2. Chunked(first, ends) \in Seq(Item)
      BY <2>4, ChunkedShape
    <3>3. QED
      BY <2>1, <3>1, <3>2
  <2>6. InOrder' => InOrder /\ first = recv_size + 1
    BY <2>1, <2>3 DEF InOrder
  <2>7. spoiled' = {} => /\ spoiled = {} /\ first = recv_size + 1
                         /\ framing = "none" => n_http_content_len = N
    BY <2>1
  <2>8. /\ n_http_content_len' \in Nat
        /\ framing = "length" /\ first = recv_size + 1 => n_http_content_len' = N
        /\ framing # "length" => n_http_content_len' = n_http_content_len
        /\ spoiled' \subseteq spoiled \cup {"range", "length", "total"}
    <3>1. PICK total : total = N - first + 1 + recv_size
      OBVIOUS
    <3>2. total \in Nat /\ (first = recv_size + 1 => total = N)
      BY <2>3, <2>4, <3>1
    <3>3. n_http_content_len' = IF framing = "length" THEN total ELSE n_http_content_len
      BY <2>1, <3>1, Zenon
    <3>4. spoiled' \subseteq spoiled \cup {"range", "length", "total"}
      BY <2>1, Zenon
    <3>5. n_http_content_len \in Nat
      BY <2>3
    <3>6. QED
      BY <3>2, <3>3, <3>4, <3>5, Zenon
  <2>9. HTyped' /\ GotInv'
    <3>1. HTyped'
      BY <2>2, <2>3, <2>4, <2>5, <2>8 DEF HInv, HTyped, HttpTypeOK, Resting
    <3>2. GotInv'
      BY <2>2, <2>3, <2>6 DEF GotInv
    <3>3. QED
      BY <3>1, <3>2
  <2>10. framing # "chunked" => LenKnown'
    <3>1. framing \in {"length", "none", "chunked"}
      OBVIOUS
    <3>2. QED
      BY <2>7, <2>8, <3>1 DEF LenKnown
  <2>11. Place(first)'
    <3>1. SUFFICES ASSUME InOrder, first = recv_size + 1 PROVE got \o <<>> = Run(1, first)
      BY <2>2, <2>3, <2>6 DEF Place, PlaceOf
    <3>2. PICK j \in 1 .. Past : got = Run(1, j)
      BY <2>3, <3>1 DEF GotInv
    <3>3. Len(got) = j - 1
      <4>1. j \in Nat /\ 1 <= j
        BY PastType
      <4>2. QED
        BY <3>2, <4>1, RunType
    <3>4. j = first
      BY <2>3, <3>1, <3>3
    <3>5. QED
      BY <2>3, <3>2, <3>4
  <2>12. HeadInv'
    BY <2>1, <2>2, <2>3, <2>4, <2>5, <2>10, <2>11 DEF HeadInv
  <2>13. QED
    BY <2>2, <2>9, <2>12 DEF HInv, OkInv, ContentInv, SizeInv, ChunkInv
<1>6. QED
  BY <1>2, <1>3, <1>4, <1>5 DEF Connect

LEMMA HeadKeeps == ASSUME HInv, HeadRead \/ HeadBroken \/ HeadCut PROVE HInv'
<1> USE HttpAssumption
<1>1. get = "head" /\ peer = "open"
  BY DEF HeadRead, HeadBroken, HeadCut
<1>2. CASE HeadBroken
  BY <1>1, <1>2, ProgressKept, Stops DEF HeadBroken
<1>3. CASE HeadCut
  <2>1. /\ peer' = "closed" /\ stream' = <<>> /\ get' = "head"
        /\ UNCHANGED <<buf, p_chunk_buf, need_to_read, progressVars, resume_retry_count,
                       redirect_count, result, spoiled>>
    BY <1>1, <1>3 DEF HeadCut
  <2>2. HTyped' /\ GotInv'
    BY <1>1, <2>1 DEF HInv, HTyped, HttpTypeOK, GotInv, InOrder, Resting, progressVars
  <2>3. QED
    BY <2>1, <2>2 DEF HInv, OkInv, HeadInv, ContentInv, SizeInv, ChunkInv
<1>4. CASE HeadRead
  <2>1. PICK k \in 0 .. Least(HeadRoom, Len(stream)) :
          /\ buf' = SubSeq(stream, 1, k)
          /\ \/ peer' = "open" /\ stream' = SubSeq(stream, k + 1, Len(stream))
             \/ peer' = "closed" /\ stream' = <<>>
    BY <1>4 DEF HeadRead
  <2>2. /\ get' = IF stream[1][1] = "size" THEN "size" ELSE "content"
        /\ p_chunk_buf' = <<>> /\ need_to_read' = 0
        /\ UNCHANGED <<progressVars, resume_retry_count, redirect_count, result, spoiled>>
    BY <1>4 DEF HeadRead
  <2>3. stream \in Seq(Item) /\ p_chunk_buf = <<>>
    BY <1>1 DEF HInv, HTyped, HeadInv
  <2>4. PICK j \in 1 .. N : /\ Place(j)
                            /\ \/ stream = Run(j, Past) /\ LenKnown
                               \/ \E ends : stream = Chunked(j, ends)
    BY <1>1 DEF HInv, HeadInv
  <2>5. j \in Nat /\ j \in 1 .. Past /\ j < Past /\ j <= Past /\ Past \in Nat
    BY PastType
  <2>6. k \in Nat /\ k <= Len(stream) /\ k <= Room
    BY <2>1, <2>3 DEF Least
  <2>7. /\ buf' \in Seq(Item) /\ Len(buf') = k /\ stream' \in Seq(Item)
        /\ RawOf(buf', stream', peer', stream)
    <3> DEFINE rest == SubSeq(stream, k + 1, Len(stream))
    <3>1. SubSeq(stream, 1, k) \in Seq(Item) /\ Len(SubSeq(stream, 1, k)) = k
          /\ rest \in Seq(Item) /\ stream = SubSeq(stream, 1, k) \o rest
      BY <2>3, <2>6, SubSeqCut
    <3> HIDE DEF rest
    <3>2. buf' \in Seq(Item) /\ Len(buf') = k /\ stream = buf' \o rest
      BY <2>1, <3>1
    <3>3. stream' = IF peer' = "open" THEN rest ELSE <<>>
      BY <2>1 DEF rest
    <3>4. stream' \in Seq(Item)
      BY <3>1, <3>3
    <3>5. QED
      BY <3>1, <3>2, <3>3, <3>4 DEF RawOf
  <2>8. HTyped' /\ GotInv'
    BY <1>1, <2>1, <2>2, <2>6, <2>7 DEF HInv, HTyped, HttpTypeOK, GotInv, InOrder, Resting,
                                   progressVars
  <2>9. Place(j)'
    BY <2>2, <2>3, <2>4 DEF Place, PlaceOf, InOrder, progressVars
  <2>10. CASE stream = Run(j, Past) /\ LenKnown
    <3>1. stream[1] = Data(j)
      <4>1. \A n \in 1 .. Past - j : stream[n] = Data(j + n - 1)
        BY <2>5, <2>10, RunType
      <4>2. 1 \in 1 .. Past - j /\ j + 1 - 1 = j
        BY <2>5
      <4>3. QED
        BY <4>1, <4>2
    <3>2. get' = "content"
      BY <2>2, <3>1 DEF Data
    <3>3. Raw(Run(j, Past))'
      BY <2>7, <2>10 DEF Raw
    <3>4. LenKnown'
      BY <2>2, <2>10 DEF LenKnown, progressVars
    <3>5. QED
      BY <2>2, <2>5, <2>8, <2>9, <3>2, <3>3, <3>4
         DEF HInv, OkInv, HeadInv, ContentInv, SizeInv, ChunkInv
  <2>11. ASSUME NEW ends, stream = Chunked(j, ends) PROVE HInv'
    <3>1. \E n : stream[1] = Size(n)
      BY <2>5, <2>11, ChunkedShape
    <3>2. get' = "size"
      BY <2>2, <3>1 DEF Size
    <3>3. Raw(Chunked(j, ends))'
      BY <2>7, <2>11 DEF Raw
    <3>4. SizeInv'
      BY <2>5, <2>9, <3>3 DEF SizeInv
    <3>5. QED
      BY <2>2, <2>8, <3>2, <3>4 DEF HInv, OkInv, HeadInv, ContentInv, ChunkInv
  <2>12. QED
    BY <2>4, <2>10, <2>11
<1>5. QED
  BY <1>2, <1>3, <1>4

LEMMA ContentKeeps == ASSUME HInv, ContentTooLong \/ Content PROVE HInv'
<1> USE HttpAssumption
<1>1. get = "content" /\ get \notin {"idle", "done"}
  BY DEF ContentTooLong, Content
<1>2. CASE ContentTooLong
  BY <1>1, <1>2, ProgressKept, Stops DEF ContentTooLong
<1>3. CASE Content
  <2>1. /\ stream \in Seq(Item) /\ buf \in Seq(Item) /\ got \in Seq(Item) /\ p_chunk_buf = <<>>
        /\ recv_size = Len(got) /\ recv_size \in Nat /\ n_http_content_len \in Nat
        /\ peer \in {"open", "closed"} /\ Len(buf) <= Room /\ LenKnown
        /\ spoiled \subseteq {"range", "length", "total", "redirect"}
    BY <1>1 DEF HInv, HTyped, HttpTypeOK, ContentInv, Resting
  <2>2. PICK j \in 1 .. Past : Place(j) /\ Raw(Run(j, Past))
    BY <1>1 DEF HInv, ContentInv
  <2>3. j \in Nat /\ 1 <= j /\ j <= Past /\ Past \in Nat /\ Past = N + 1
    BY PastType
  <2>4. Run(j, Past) \in Seq(Item)
    BY <2>3, RunType
  <2>5. Missing \in Nat /\ Len(buf) <= Missing
    <3>1. n_http_content_len \in Totals
      BY DEF Totals
    <3>2. QED
      BY <1>3, <3>1, TotalsType DEF Content, Missing
  <2>6. PICK n : n = Least(Room, Missing) - Len(buf)
    OBVIOUS
  <2>7. n \in Nat
    BY <2>1, <2>5, <2>6 DEF Least
  <2>8. PICK r \in Reads(n) :
           /\ Hand(buf \o Received(r))
           /\ \/ Resume
              \/ End("ok") /\ Len(buf \o Received(r)) = Missing
              \/ End("failed")
              \/ /\ AfterRead(r) /\ buf' = <<>>
                 /\ UNCHANGED <<get, p_chunk_buf, need_to_read, resume_retry_count,
                                redirect_count, result>>
    BY <1>3, <2>6 DEF Content
  <2>9. UNCHANGED spoiled
    BY <1>3 DEF Content
  <2> DEFINE data == buf \o Received(r)
  <2>10. /\ LeftOver(r) \in Seq(Item) /\ r.peer \in {"open", "closed"}
         /\ AfterRead(r) => stream' = LeftOver(r) /\ peer' = r.peer
         /\ data \in Seq(Item)
    BY <2>1, <2>7, ReadType, ItemCat
  <2>11. RawOf(data, LeftOver(r), r.peer, Run(j, Past))
    BY <2>1, <2>2, <2>4, <2>7, RawRead
  <2> HIDE DEF data
  <2>12. PICK t \in Seq(Item) : Run(j, Past) = data \o t
                            /\ LeftOver(r) = IF r.peer = "open" THEN t ELSE <<>>
    BY <2>11 DEF RawOf
  <2>13. Parts(data, t, j, Past)
    BY <2>3, <2>10, <2>12, RunSplit
  <2>14. PICK m \in j .. Past : m = j + Len(data) /\ data = Run(j, m) /\ t = Run(m, Past)
    BY <2>13 DEF Parts
  <2>15. m \in Nat /\ m \in 1 .. Past /\ j <= m
    BY <2>3
  <2>16. /\ got' = got \o data /\ recv_size' = recv_size + Len(data)
         /\ n_http_content_len' = n_http_content_len
    BY <2>8 DEF Hand, data
  <2>17. got' \in Seq(Item) /\ recv_size' = Len(got')
    BY <2>1, <2>10, <2>16, ItemCat
  <2>18. InOrder => got = Run(1, j)
    BY <2>1, <2>2 DEF Place, PlaceOf
  <2>19. InOrder => got' = Run(1, m)
    <3>1. Run(1, j) \o Run(j, m) = Run(1, m)
      BY <2>3, <2>15, RunCat
    <3>2. QED
      BY <2>14, <2>16, <2>18, <3>1
  <2>20. Progress'
    BY <2>1, <2>9, <2>15, <2>16, <2>17, <2>19 DEF Progress, GotInv, InOrder
  <2>21. CASE Resume \/ End("failed")
    BY <1>1, <2>20, <2>21, Stops
  <2>22. CASE End("ok") /\ Len(data) = Missing
    <3>1. ASSUME spoiled' = {} PROVE got' = Run(1, Past)
      <4>1. InOrder /\ n_http_content_len = N
        BY <2>1, <2>9, <3>1 DEF InOrder, LenKnown
      <4>2. Len(got) = j - 1
        BY <2>3, <2>18, <4>1, RunType
      <4>3. Missing = N - (j - 1)
        BY <2>1, <2>3, <4>1, <4>2 DEF Missing, MissingOf
      <4>4. m = Past
        BY <2>3, <2>14, <2>22, <4>3
      <4>5. QED
        BY <2>19, <4>1, <4>4
    <3>2. QED
      BY <1>1, <2>20, <2>22, <3>1, Stops
  <2>23. CASE /\ AfterRead(r) /\ buf' = <<>>
              /\ UNCHANGED <<get, p_chunk_buf, need_to_read, resume_retry_count,
                             redirect_count, result>>
    <3>1. stream' = LeftOver(r) /\ peer' = r.peer /\ buf' = <<>> /\ get' = "content"
      BY <1>1, <2>10, <2>23
    <3>2. HTyped'
      BY <1>1, <2>1, <2>9, <2>10, <2>16, <2>17, <2>23, <3>1 DEF HInv, HTyped, HttpTypeOK, Resting
    <3>3. Place(m)'
      BY <2>1, <2>9, <2>17, <2>19, <2>23 DEF Place, PlaceOf, InOrder
    <3>4. Raw(Run(m, Past))'
      <4>1. Run(m, Past) = <<>> \o t
        <5>1. <<>> \o t = t
          OBVIOUS
        <5>2. QED
          BY <2>14, <5>1
      <4>2. QED
        BY <2>12, <3>1, <4>1 DEF Raw, RawOf
    <3>5. ContentInv'
      BY <2>1, <2>9, <2>15, <2>16, <2>23, <3>3, <3>4 DEF ContentInv, LenKnown
    <3>6. QED
      BY <2>20, <3>1, <3>2, <3>5 DEF HInv, Progress, OkInv, HeadInv, SizeInv, ChunkInv
  <2>24. QED
    BY <2>8, <2>21, <2>22, <2>23 DEF data
<1>4. QED
  BY <1>2, <1>3

LEMMA SizeKeeps == ASSUME HInv, MoreForSize \/ LastChunk \/ NextChunk PROVE HInv'
<1> USE HttpAssumption
<1>1. get = "size" /\ get \notin {"idle", "done"}
  BY DEF MoreForSize, LastChunk, NextChunk
<1>2. /\ stream \in Seq(Item) /\ buf \in Seq(Item) /\ got \in Seq(Item)
      /\ p_chunk_buf \in Seq(Item) /\ Len(p_chunk_buf) < Room /\ need_to_read \in 0 .. N
      /\ recv_size = Len(got) /\ recv_size \in Nat /\ n_http_content_len \in Nat
      /\ peer \in {"open", "closed"} /\ Len(buf) <= Room
      /\ spoiled \subseteq {"range", "length", "total", "redirect"} /\ GotInv
  BY <1>1 DEF HInv, HTyped, HttpTypeOK, Resting
<1>pick. PICK j \in 1 .. Past : \E ends : Place(j) /\ Raw(Chunked(j, ends))
  BY <1>1 DEF HInv, SizeInv
<1>3. PICK ends : Place(j) /\ Raw(Chunked(j, ends))
  BY <1>pick
<1>4. j \in Nat /\ 1 <= j /\ j <= Past /\ Past \in Nat /\ Past = N + 1
  BY PastType
<1>5. Chunked(j, ends) \in Seq(Item)
  BY ChunkedShape
<1>6. CASE MoreForSize
  <2>1. PICK n : n = Room - Len(buf)
    OBVIOUS
  <2>2. n \in Nat
    BY <1>2, <2>1
  <2>3. PICK r \in Reads(n) :
          \/ r.res = "conn" /\ Resume
          \/ /\ r.res = "ok" /\ AfterRead(r) /\ buf' = buf \o Received(r)
             /\ UNCHANGED <<get, p_chunk_buf, need_to_read>> /\ GoesOn
    BY <1>6, <2>1 DEF MoreForSize
  <2>4. UNCHANGED <<progressVars, spoiled>>
    BY <1>6 DEF MoreForSize
  <2>5. CASE Resume
    BY <1>1, <2>4, <2>5, ProgressKept, Stops
  <2>6. CASE /\ AfterRead(r) /\ buf' = buf \o Received(r)
             /\ UNCHANGED <<get, p_chunk_buf, need_to_read>> /\ GoesOn
    <3>1. /\ LeftOver(r) \in Seq(Item) /\ r.peer \in {"open", "closed"}
          /\ stream' = LeftOver(r) /\ peer' = r.peer
          /\ Received(r) \in Seq(Item) /\ Len(Received(r)) <= n
      BY <1>2, <2>2, <2>6, ReadType
    <3>2. buf' \in Seq(Item) /\ Len(buf') = Len(buf) + Len(Received(r))
      BY <1>2, <2>6, <3>1, ItemCat
    <3>3. Len(buf') <= Room
      BY <1>2, <2>1, <3>1, <3>2
    <3>4. RawOf(buf', stream', peer', Chunked(j, ends))
      BY <1>2, <1>3, <1>5, <2>2, <2>6, <3>1, RawRead
    <3>5. HTyped' /\ GotInv'
      BY <1>1, <1>2, <2>4, <2>6, <3>1, <3>2, <3>3
         DEF HInv, HTyped, HttpTypeOK, Resting, GotInv, InOrder, progressVars, GoesOn
    <3>6. SizeInv'
      BY <1>3, <2>4, <2>6, <3>4 DEF SizeInv, Place, PlaceOf, Raw, InOrder, progressVars
    <3>7. QED
      BY <1>1, <2>6, <3>5, <3>6 DEF HInv, OkInv, HeadInv, ContentInv, ChunkInv
  <2>7. QED
    BY <2>3, <2>5, <2>6
<1>7. ASSUME Len(buf) > 1
      PROVE  /\ j = Past => buf[1] = Size(0)
             /\ j # Past => \E e \in j + 1 .. Past :
                    /\ buf[1] = Size(e - j)
                    /\ RawOf(Tail(buf), stream, peer, Run(j, e) \o (<<CrLf>> \o Chunked(e, ends)))
  <2>1. buf[1] = Chunked(j, ends)[1]
    <3>1. PICK t \in Seq(Item) : Chunked(j, ends) = buf \o t
      BY <1>3 DEF Raw, RawOf
    <3>2. (buf \o t)[1] = buf[1]
      BY <1>2, <1>7, <3>1, ItemCat
    <3>3. QED
      BY <3>1, <3>2
  <2>2. CASE j = Past
    <3>1. Chunked(j, ends)[1] = Size(0)
      <4>1. ~ \E e \in j + 1 .. Past : TRUE
        BY <1>4, <2>2
      <4>2. QED
        BY <4>1, ChunkedShape
    <3>2. QED
      BY <2>1, <2>2, <3>1
  <2>3. CASE j # Past
    <3>1. PICK e \in j + 1 .. Past :
                  /\ Chunked(e, ends) \in Seq(Item)
                  /\ Chunked(j, ends) = <<Size(e - j)>>
                         \o (Run(j, e) \o (<<CrLf>> \o Chunked(e, ends)))
                  /\ Chunked(j, ends)[1] = Size(e - j)
      BY <2>3, ChunkedShape
    <3> DEFINE line == <<Size(e - j)>>
               rest == Run(j, e) \o (<<CrLf>> \o Chunked(e, ends))
    <3>2. line \in Seq(Item) /\ Len(line) = 1
      BY <1>4, ItemType
    <3>3. rest \in Seq(Item)
      <4>1. <<CrLf>> \in Seq(Item)
        BY ItemType
      <4>2. <<CrLf>> \o Chunked(e, ends) \in Seq(Item)
        BY <3>1, <4>1, ItemCat
      <4>3. Run(j, e) \in Seq(Item)
        BY <1>4, RunType
      <4>4. QED
        BY <4>2, <4>3, ItemCat
    <3>4. RawOf(buf, stream, peer, line \o rest)
      BY <1>3, <3>1 DEF Raw
    <3> HIDE DEF line, rest
    <3>5. RawOf(SubSeq(buf, 2, Len(buf)), stream, peer, rest)
      <4>1. Len(line) <= Len(buf) /\ Len(line) + 1 = 2
        BY <1>2, <1>7, <3>2
      <4>2. RawOf(SubSeq(buf, Len(line) + 1, Len(buf)), stream, peer, rest)
        BY <1>2, <3>2, <3>3, <3>4, <4>1, RawCut
      <4>3. QED
        BY <4>1, <4>2
    <3>6. Tail(buf) = SubSeq(buf, 2, Len(buf))
      BY <1>2, <1>7
    <3>7. QED
      BY <2>1, <2>3, <3>1, <3>5, <3>6 DEF rest
  <2>4. QED
    BY <2>2, <2>3
<1>8. CASE LastChunk
  <2>1. /\ Len(buf) > 1 /\ buf[1] = Size(0) /\ Hand(p_chunk_buf) /\ End("ok") /\ UNCHANGED spoiled
    BY <1>8 DEF LastChunk, HasSize
  <2>2. j = Past
    <3>1. ASSUME NEW e \in j + 1 .. Past PROVE Size(0) # Size(e - j)
      BY <1>4 DEF Size
    <3>2. QED
      BY <1>7, <2>1, <3>1
  <2>3. got' = got \o p_chunk_buf /\ recv_size' = recv_size + Len(p_chunk_buf)
        /\ n_http_content_len' = n_http_content_len
    BY <2>1 DEF Hand
  <2>4. got' \in Seq(Item) /\ recv_size' = Len(got')
    BY <1>2, <2>3, ItemCat
  <2>5. InOrder => got' = Run(1, Past)
    BY <1>3, <2>2, <2>3 DEF Place, PlaceOf
  <2>6. Progress'
    <3>1. Past \in 1 .. Past /\ spoiled' = spoiled
      BY <1>4, <2>1
    <3>2. GotInv'
      BY <1>2, <2>3, <2>5, <3>1 DEF GotInv, InOrder
    <3>3. QED
      BY <1>2, <2>3, <2>4, <3>1, <3>2 DEF Progress
  <2>7. spoiled' = {} => got' = Run(1, Past)
    BY <2>1, <2>5 DEF InOrder
  <2>8. QED
    BY <1>1, <2>1, <2>6, <2>7, Stops
<1>9. CASE NextChunk
  <2>1. Len(buf) > 1 /\ buf[1] # Size(0) /\ buf' = Tail(buf) /\ GoesOn
        /\ UNCHANGED <<peer, stream, p_chunk_buf, progressVars, spoiled>>
    BY <1>9 DEF NextChunk, HasSize
  <2>2. PICK e \in j + 1 .. Past :
            /\ buf[1] = Size(e - j)
            /\ RawOf(Tail(buf), stream, peer, Run(j, e) \o (<<CrLf>> \o Chunked(e, ends)))
    BY <1>7, <2>1
  <2>3. e \in Nat /\ e \in 1 .. Past /\ j <= e /\ buf[1][2] = e - j /\ e - j \in 1 .. N
    BY <1>4, <2>2 DEF Size
  <2>4. \/ e - j + 1 <= Room /\ get' = "small" /\ need_to_read' = e - j
        \/ /\ e - j + 1 > Room /\ get' = "large"
           /\ need_to_read' = e - j - (Len(buf) - 1)
    BY <1>9, <2>3 DEF NextChunk
  <2>5. buf' \in Seq(Item) /\ Len(buf') = Len(buf) - 1
    BY <1>2, <2>1
  <2>6. get' \in {"small", "large"} /\ need_to_read' \in 0 .. N
    BY <1>2, <2>1, <2>3, <2>4, SMTT(30)
  <2>7. HTyped' /\ GotInv'
    BY <1>1, <1>2, <2>1, <2>5, <2>6
       DEF HInv, HTyped, HttpTypeOK, Resting, GotInv, InOrder, progressVars, GoesOn
  <2>8. Place(j)'
    BY <1>3, <2>1 DEF Place, PlaceOf, InOrder, progressVars
  <2>9. Raw(Run(j, e) \o (<<CrLf>> \o Chunked(e, ends)))'
    BY <2>1, <2>2 DEF Raw
  <2>10. /\ get' = "small" => need_to_read' = e - j /\ e - j < Room
         /\ get' # "small" => need_to_read' = e - j - Len(buf')
         /\ get' # "crlf"
    BY <1>2, <2>3, <2>4, <2>5
  <2>11. ChunkInv'
    BY <2>3, <2>8, <2>9, <2>10 DEF ChunkInv
  <2>12. QED
    BY <2>6, <2>7, <2>11 DEF HInv, OkInv, HeadInv, ContentInv, SizeInv
<1>10. QED
  BY <1>6, <1>8, <1>9

\* What is to come after the data of a chunk.
After(e, ends) == <<CrLf>> \o Chunked(e, ends)

LEMMA AfterType ==
  ASSUME NEW e \in 1 .. Past, NEW ends
  PROVE  Chunked(e, ends) \in Seq(Item) /\ <<CrLf>> \in Seq(Item) /\ After(e, ends) \in Seq(Item)
BY ChunkedShape, ItemType, ItemCat DEF After

LEMMA SmallKeeps == ASSUME HInv, SmallChunk PROVE HInv'
<1> USE HttpAssumption
<1>1. get = "small" /\ get \notin {"idle", "done"}
  BY DEF SmallChunk
<1>2. /\ stream \in Seq(Item) /\ buf \in Seq(Item) /\ need_to_read \in 0 .. N
      /\ recv_size = Len(got) /\ recv_size \in Nat /\ n_http_content_len \in Nat
      /\ peer \in {"open", "closed"} /\ Len(buf) <= Room
      /\ spoiled \subseteq {"range", "length", "total", "redirect"} /\ GotInv
  BY <1>1 DEF HInv, HTyped, HttpTypeOK, Resting
<1>pick. PICK j \in 1 .. Past, e \in 1 .. Past : \E ends :
            /\ j <= e /\ Place(j) /\ Raw(Run(j, e) \o After(e, ends))
            /\ need_to_read = e - j /\ e - j < Room
  BY <1>1 DEF HInv, ChunkInv, After
<1>3. PICK ends :
            /\ j <= e /\ Place(j) /\ Raw(Run(j, e) \o After(e, ends))
            /\ need_to_read = e - j /\ e - j < Room
  BY <1>pick
<1>4. j \in Nat /\ 1 <= j /\ j <= e /\ e \in Nat /\ e <= Past /\ Past \in Nat
  BY <1>3, PastType
<1> DEFINE run == Run(j, e)
           rest == After(e, ends)
<1>5. run \in Seq(Item) /\ Len(run) = need_to_read /\ rest \in Seq(Item)
  BY <1>3, <1>4, RunType, AfterType
<1>6. Raw(run \o rest)
  BY <1>3
<1> HIDE DEF run, rest
<1>7. PICK n : n = IF Len(buf) > need_to_read THEN 0 ELSE Room - Len(buf)
  OBVIOUS
<1>8. n \in Nat /\ Len(buf) + n <= Room
  BY <1>2, <1>7
<1> DEFINE Stored(all) ==
             /\ Store(SubSeq(all, 1, need_to_read))
             /\ buf' = SubSeq(all, need_to_read + 2, Len(all))
             /\ get' = "size" /\ need_to_read' = 0
<1>9. PICK r \in Reads(n) :
        LET all == buf \o Received(r)
        IN  CASE r.res = "conn" -> Resume /\ UNCHANGED progressVars
              [] r.res = "ok" /\ Len(all) <= need_to_read ->
                   End("failed") /\ UNCHANGED progressVars
              [] OTHER -> Stored(all) /\ AfterRead(r) /\ GoesOn
  BY <1>7 DEF SmallChunk
<1>10. UNCHANGED spoiled
  BY DEF SmallChunk
<1> DEFINE all == buf \o Received(r)
<1>11. /\ LeftOver(r) \in Seq(Item) /\ r.peer \in {"open", "closed"}
       /\ AfterRead(r) => stream' = LeftOver(r) /\ peer' = r.peer
       /\ Received(r) \in Seq(Item) /\ Len(Received(r)) <= n
  BY <1>2, <1>8, ReadType
<1>12. all \in Seq(Item) /\ Len(all) = Len(buf) + Len(Received(r))
  BY <1>2, <1>11, ItemCat
<1>13. Len(all) <= Room
  BY <1>2, <1>8, <1>11, <1>12
<1>14. RawOf(all, LeftOver(r), r.peer, run \o rest)
  <2>1. run \o rest \in Seq(Item)
    BY <1>5, ItemCat
  <2>2. QED
    BY <1>2, <1>6, <1>8, <2>1, RawRead
<1> HIDE DEF all
<1>15. CASE (Resume \/ End("failed")) /\ UNCHANGED progressVars
  BY <1>1, <1>10, <1>15, ProgressKept, Stops
<1>16. CASE Len(all) > need_to_read /\ Stored(all) /\ AfterRead(r) /\ GoesOn
  <2> DEFINE back == SubSeq(all, need_to_read + 1, Len(all))
  <2>1. /\ run = SubSeq(all, 1, need_to_read)
        /\ RawOf(back, LeftOver(r), r.peer, rest)
    <3>1. Len(run) <= Len(all)
      BY <1>2, <1>5, <1>12, <1>16
    <3>2. /\ run = SubSeq(all, 1, Len(run))
          /\ RawOf(SubSeq(all, Len(run) + 1, Len(all)), LeftOver(r), r.peer, rest)
      BY <1>5, <1>11, <1>12, <1>14, <3>1, RawCut
    <3>3. QED
      BY <1>5, <3>2
  <2>2. /\ back \in Seq(Item) /\ Len(back) = Len(all) - need_to_read /\ Len(back) > 0
        /\ buf' = SubSeq(back, 2, Len(back)) /\ buf' \in Seq(Item) /\ Len(buf') <= Room
    BY <1>2, <1>12, <1>13, <1>16, SMTT(30)
  <2> HIDE DEF back
  <2>3. RawOf(buf', LeftOver(r), r.peer, Chunked(e, ends))
    <3> DEFINE end == <<CrLf>>
    <3>1. end \in Seq(Item) /\ Len(end) = 1 /\ Chunked(e, ends) \in Seq(Item)
      BY AfterType
    <3>2. RawOf(back, LeftOver(r), r.peer, end \o Chunked(e, ends))
      BY <2>1 DEF rest, After
    <3> HIDE DEF end
    <3>3. Len(end) <= Len(back) /\ Len(end) + 1 = 2
      BY <2>2, <3>1
    <3>4. RawOf(SubSeq(back, Len(end) + 1, Len(back)), LeftOver(r), r.peer, Chunked(e, ends))
      BY <1>11, <2>2, <3>1, <3>2, <3>3, RawCut
    <3>5. QED
      BY <2>2, <3>3, <3>4
  <2>4. Store(Run(j, e))
    BY <1>16, <2>1 DEF run
  <2>5. /\ Progress' /\ Place(e)' /\ p_chunk_buf' \in Seq(Item) /\ Len(p_chunk_buf') < Room
    <3>1. e \in j .. Past /\ e - j <= Room
      BY <1>3, <1>4
    <3>2. QED
      BY <1>3, <1>10, <2>4, <3>1, StoreKeeps
  <2>6. stream' = LeftOver(r) /\ peer' = r.peer
    BY <1>11, <1>16
  <2>7. HTyped'
    <3>1. /\ resume_retry_count' \in 0 .. MaxResume /\ redirect_count' \in 0 .. MaxRedirect
          /\ result' \in {"none", "ok", "failed", "conn"}
      BY <1>1, <1>16 DEF HInv, HTyped, HttpTypeOK, GoesOn
    <3>2. recv_size' \in Nat /\ recv_size' = Len(got') /\ n_http_content_len' \in Nat
          /\ got' \in Seq(Item) /\ spoiled' \subseteq {"range", "length", "total", "redirect"}
      BY <2>5 DEF Progress
    <3>3. QED
      <4>1. get' = "size" /\ need_to_read' = 0
        BY <1>16
      <4>2. /\ stream' \in Seq(Item) /\ peer' \in {"open", "closed"}
            /\ buf' \in Seq(Item) /\ Len(buf') <= Room
        BY <1>11, <2>2, <2>6
      <4>3. p_chunk_buf' \in Seq(Item) /\ Len(p_chunk_buf') < Room
        BY <2>5
      <4>4. need_to_read' \in 0 .. N
        BY <4>1, HttpAssumption
      <4>5. HttpTypeOK'
        BY <3>1, <3>2, <4>1, <4>2, <4>3, <4>4 DEF HttpTypeOK
      <4>6. QED
        BY <3>1, <3>2, <4>1, <4>2, <4>3, <4>5 DEF HTyped, Resting
  <2>8. Raw(Chunked(e, ends))'
    BY <2>3, <2>6 DEF Raw
  <2>9. SizeInv'
    BY <2>5, <2>8 DEF SizeInv
  <2>10. QED
    BY <1>16, <2>5, <2>7, <2>9 DEF HInv, Progress, OkInv, HeadInv, ContentInv, ChunkInv
<1>17. QED
  <2>1. r.res \in {"ok", "conn"}
    BY <1>2, <1>8, ReadType
  <2>2. Len(all) <= need_to_read \/ Len(all) > need_to_read
    BY <1>2, <1>12
  <2> HIDE DEF Stored
  <2>3. CASE r.res = "conn"
    BY <1>9, <1>15, <2>3
  <2>4. CASE r.res = "ok" /\ Len(all) <= need_to_read
    BY <1>9, <1>15, <2>4 DEF all
  <2>5. CASE r.res = "ok" /\ ~(Len(all) <= need_to_read)
    BY <1>9, <1>16, <2>2, <2>5 DEF all
  <2>6. QED
    BY <2>1, <2>3, <2>4, <2>5

LEMMA LargeKeeps == ASSUME HInv, LargeChunk PROVE HInv'
<1> USE HttpAssumption
<1>1. get = "large" /\ get \notin {"idle", "done"}
  BY DEF LargeChunk
<1>2. /\ stream \in Seq(Item) /\ buf \in Seq(Item) /\ need_to_read \in 0 .. N
      /\ recv_size = Len(got) /\ recv_size \in Nat /\ n_http_content_len \in Nat
      /\ peer \in {"open", "closed"} /\ Len(buf) <= Room
      /\ spoiled \subseteq {"range", "length", "total", "redirect"} /\ GotInv
  BY <1>1 DEF HInv, HTyped, HttpTypeOK, Resting
<1>pick. PICK j \in 1 .. Past, e \in 1 .. Past : \E ends :
            /\ j <= e /\ Place(j) /\ Raw(Run(j, e) \o After(e, ends))
            /\ need_to_read = e - j - Len(buf)
  BY <1>1 DEF HInv, ChunkInv, After
<1>3. PICK ends :
            /\ j <= e /\ Place(j) /\ Raw(Run(j, e) \o After(e, ends))
            /\ need_to_read = e - j - Len(buf)
  BY <1>pick
<1>4. j \in Nat /\ 1 <= j /\ j <= e /\ e \in Nat /\ e <= Past /\ Past \in Nat
  BY <1>3, PastType
<1> DEFINE run == Run(j, e)
           rest == After(e, ends)
<1>5. run \in Seq(Item) /\ Len(run) = e - j /\ rest \in Seq(Item)
  BY <1>3, <1>4, RunType, AfterType
<1>6. Raw(run \o rest)
  BY <1>3
<1> HIDE DEF rest
<1>7. PICK n : n = Least(need_to_read, Room - Len(buf))
  OBVIOUS
<1>8. n \in Nat /\ Len(buf) + n <= Room /\ n <= need_to_read
  BY <1>2, <1>7 DEF Least
<1>9. PICK r \in Reads(n) :
         \/ r.res = "conn" /\ Resume /\ UNCHANGED progressVars
         \/ /\ r.res = "ok" /\ Store(buf \o Received(r)) /\ buf' = <<>>
            /\ need_to_read' = need_to_read - r.k
            /\ get' = IF need_to_read' = 0 THEN "crlf" ELSE "large"
            /\ AfterRead(r) /\ GoesOn
  BY <1>7 DEF LargeChunk
<1>10. UNCHANGED spoiled
  BY DEF LargeChunk
<1> DEFINE data == buf \o Received(r)
<1>11. /\ LeftOver(r) \in Seq(Item) /\ r.peer \in {"open", "closed"}
       /\ AfterRead(r) => stream' = LeftOver(r) /\ peer' = r.peer
       /\ Received(r) \in Seq(Item) /\ Len(Received(r)) = r.k /\ r.k <= n /\ r.k \in Nat
  BY <1>2, <1>8, ReadType
<1>12. data \in Seq(Item) /\ Len(data) = Len(buf) + r.k
  <2>1. data \in Seq(Item) /\ Len(data) = Len(buf) + Len(Received(r))
    BY <1>2, <1>11, ItemCat
  <2>2. QED
    BY <1>11, <2>1
<1> HIDE DEF data
<1>13. Len(data) <= Room /\ Len(data) <= Len(run)
  <2>1. PICK k, l \in Nat : k = r.k /\ l = Len(buf)
    BY <1>2, <1>11
  <2>2. Len(data) = l + k /\ l + n <= Room /\ k <= n /\ n <= need_to_read
    BY <1>8, <1>11, <1>12, <2>1
  <2>3. Len(run) = need_to_read + l
    BY <1>3, <1>4, <1>5, <2>1
  <2> HIDE DEF run
  <2>4. QED
    BY <1>2, <1>8, <2>2, <2>3
<1>14. RawOf(data, LeftOver(r), r.peer, run \o rest)
  <2>1. run \o rest \in Seq(Item)
    BY <1>5, ItemCat
  <2>2. QED
    BY <1>2, <1>6, <1>8, <2>1, RawRead DEF data
<1>15. CASE Resume /\ UNCHANGED progressVars
  BY <1>1, <1>10, <1>15, ProgressKept, Stops
<1>16. CASE /\ Store(data) /\ buf' = <<>>
            /\ need_to_read' = need_to_read - r.k
            /\ get' = IF need_to_read' = 0 THEN "crlf" ELSE "large"
            /\ AfterRead(r) /\ GoesOn
  <2>1. PICK w \in Seq(Item) : run = data \o w /\ RawOf(<<>>, LeftOver(r), r.peer, w \o rest)
    <3> HIDE DEF run
    <3>1. Taken(data, LeftOver(r), r.peer, run, rest)
      BY <1>5, <1>11, <1>12, <1>13, <1>14, RawTake
    <3>2. QED
      BY <3>1 DEF Taken
  <2>2. Parts(data, w, j, e)
    BY <1>4, <1>12, <2>1, RunSplit
  <2>3. PICK m \in j .. e : m = j + Len(data) /\ data = Run(j, m) /\ w = Run(m, e)
    BY <2>2 DEF Parts
  <2>4. m \in Nat /\ m \in 1 .. Past /\ m \in j .. Past /\ m <= e /\ m - j <= Room
    BY <1>4, <1>12, <1>13, <2>3
  <2>5. /\ Progress' /\ Place(m)' /\ p_chunk_buf' \in Seq(Item) /\ Len(p_chunk_buf') < Room
    BY <1>3, <1>10, <1>16, <2>3, <2>4, StoreKeeps
  <2>6. stream' = LeftOver(r) /\ peer' = r.peer
    BY <1>11, <1>16
  <2>7. need_to_read' \in 0 .. N /\ need_to_read' = e - m - Len(buf') /\ Len(buf') = 0
    <3>1. need_to_read' = need_to_read - r.k /\ Len(buf') = 0
      BY <1>16
    <3>2. m = j + Len(buf) + r.k
      BY <1>2, <1>4, <1>11, <1>12, <2>3, SMTT(30)
    <3>3. r.k \in Nat /\ r.k <= need_to_read
      BY <1>2, <1>8, <1>11
    <3>4. PICK k, l \in Nat : k = r.k /\ l = Len(buf)
      BY <1>2, <1>11
    <3>5. need_to_read' = need_to_read - k /\ m = j + l + k /\ k <= need_to_read
          /\ need_to_read = e - j - l
      BY <1>3, <3>1, <3>2, <3>3, <3>4
    <3>6. need_to_read' \in 0 .. N /\ need_to_read' = e - m - 0
      BY <1>2, <1>4, <2>4, <3>5
    <3>7. QED
      BY <3>1, <3>6
  <2>8. get' \in {"large", "crlf"} /\ (get' = "crlf" => need_to_read' = 0)
    BY <1>16
  <2>9. HTyped'
    <3>1. /\ resume_retry_count' \in 0 .. MaxResume /\ redirect_count' \in 0 .. MaxRedirect
          /\ result' \in {"none", "ok", "failed", "conn"}
      BY <1>1, <1>16 DEF HInv, HTyped, HttpTypeOK, GoesOn
    <3>2. recv_size' \in Nat /\ recv_size' = Len(got') /\ n_http_content_len' \in Nat
          /\ got' \in Seq(Item) /\ spoiled' \subseteq {"range", "length", "total", "redirect"}
      BY <2>5 DEF Progress
    <3>3. QED
      BY <1>11, <3>1, <3>2, <1>16, <2>5, <2>6, <2>7, <2>8, SMTT(30)
         DEF HTyped, HttpTypeOK, Resting
  <2>10. Raw(Run(m, e) \o (<<CrLf>> \o Chunked(e, ends)))'
    BY <1>16, <2>1, <2>3, <2>6 DEF Raw, rest, After
  <2>11. ChunkInv'
    BY <1>16, <2>4, <2>5, <2>7, <2>8, <2>10 DEF ChunkInv
  <2>12. QED
    BY <2>5, <2>8, <2>9, <2>11 DEF HInv, Progress, OkInv, HeadInv, ContentInv, SizeInv
<1>17. QED
  BY <1>9, <1>15, <1>16 DEF data

LEMMA EndKeeps == ASSUME HInv, ChunkEnd PROVE HInv'
<1> USE HttpAssumption
<1>1. get = "crlf" /\ get \notin {"idle", "done"} /\ UNCHANGED <<progressVars, spoiled>>
  BY DEF ChunkEnd
<1>2. /\ stream \in Seq(Item) /\ peer \in {"open", "closed"} /\ p_chunk_buf \in Seq(Item)
  BY <1>1 DEF HInv, HTyped, HttpTypeOK, Resting
<1>pick. PICK j \in 1 .. Past, e \in 1 .. Past : \E ends :
            /\ Place(j) /\ Raw(Run(j, e) \o After(e, ends))
            /\ buf = <<>> /\ need_to_read = 0 /\ need_to_read = e - j - Len(buf)
  BY <1>1 DEF HInv, ChunkInv, After
<1>3. PICK ends :
            /\ Place(j) /\ Raw(Run(j, e) \o After(e, ends))
            /\ buf = <<>> /\ need_to_read = 0 /\ need_to_read = e - j - Len(buf)
  BY <1>pick
<1>4. e = j /\ buf = <<>> /\ j \in Nat
  BY <1>3, PastType
<1>5. Raw(After(j, ends))
  <2>1. Run(j, j) = <<>>
    BY <1>4, RunType
  <2>2. After(j, ends) \in Seq(Item)
    BY AfterType
  <2>3. <<>> \o After(j, ends) = After(j, ends)
    BY <2>2
  <2>4. QED
    BY <1>3, <1>4, <2>1, <2>3
<1>6. PICK r \in Reads(1) :
          \/ r.res = "conn" /\ Resume
          \/ r.res = "ok" /\ r.k = 0 /\ End("failed")
          \/ /\ r.k = 1 /\ get' = "size" /\ AfterRead(r) /\ GoesOn
             /\ UNCHANGED <<buf, p_chunk_buf, need_to_read>>
  BY DEF ChunkEnd
<1>7. CASE Resume \/ End("failed")
  BY <1>1, <1>7, ProgressKept, Stops
<1>8. CASE /\ r.k = 1 /\ get' = "size" /\ AfterRead(r) /\ GoesOn
           /\ UNCHANGED <<buf, p_chunk_buf, need_to_read>>
  <2> DEFINE in == Received(r)
  <2>1. /\ LeftOver(r) \in Seq(Item) /\ r.peer \in {"open", "closed"}
        /\ stream' = LeftOver(r) /\ peer' = r.peer
        /\ in \in Seq(Item) /\ Len(in) = 1
    BY <1>2, <1>8, ReadType
  <2>2. RawOf(buf \o in, LeftOver(r), r.peer, After(j, ends))
    BY <1>2, <1>4, <1>5, AfterType, RawRead
  <2>3. buf \o in = in
    BY <1>4, <2>1
  <2> HIDE DEF in
  <2>4. RawOf(in, stream', peer', <<CrLf>> \o Chunked(j, ends))
    BY <2>1, <2>2, <2>3 DEF After
  <2>5. Raw(Chunked(j, ends))'
    <3> DEFINE end == <<CrLf>>
    <3>1. end \in Seq(Item) /\ Len(end) = 1 /\ Chunked(j, ends) \in Seq(Item)
      BY AfterType
    <3>2. RawOf(in, stream', peer', end \o Chunked(j, ends))
      BY <2>4
    <3> HIDE DEF end
    <3>3. Len(end) <= Len(in) /\ Len(end) + 1 = 2
      BY <2>1, <3>1
    <3>4. RawOf(SubSeq(in, Len(end) + 1, Len(in)), stream', peer', Chunked(j, ends))
      BY <2>1, <3>1, <3>2, <3>3, RawCut
    <3>5. SubSeq(in, 2, Len(in)) = <<>>
      BY <2>1
    <3>6. QED
      BY <1>4, <1>8, <3>3, <3>4, <3>5 DEF Raw
  <2>6. Place(j)'
    BY <1>1, <1>3, <1>8 DEF Place, PlaceOf, InOrder, progressVars
  <2>7. HTyped' /\ GotInv'
    BY <1>1, <1>4, <1>8, <2>1
       DEF HInv, HTyped, HttpTypeOK, Resting, GotInv, InOrder, progressVars, GoesOn
  <2>8. SizeInv'
    BY <2>5, <2>6 DEF SizeInv
  <2>9. QED
    BY <1>8, <2>7, <2>8 DEF HInv, OkInv, HeadInv, ContentInv, ChunkInv
<1>9. QED
  BY <1>6, <1>7, <1>8

\* A step of the client keeps its invariant, and so does one that only begins or
\* ends a call.
LEMMA HttpKeeps ==
  ASSUME HInv,
         \/ HttpStep \/ Get \/ UNCHANGED httpVars
         \/ /\ get = "done" /\ get' = "idle"
            /\ UNCHANGED <<connVars, progressVars, resume_retry_count, redirect_count, result,
                           spoiled>>
  PROVE  HInv'
<1> USE HttpAssumption
<1>1. CASE HttpStep
  BY <1>1, ConnectKeeps, HeadKeeps, ContentKeeps, SizeKeeps, SmallKeeps, LargeKeeps, EndKeeps
     DEF HttpStep, Transfer
<1>2. CASE Get
  <2>1. HTyped'
    BY <1>2, ItemType DEF Get, HInv, HTyped, HttpTypeOK, Resting, connVars
  <2>2. GotInv'
    <3>1. Run(1, 1) = <<>> /\ 1 \in 1 .. Past
      BY RunType, PastType
    <3>2. QED
      BY <1>2, <3>1 DEF Get, GotInv
  <2>3. QED
    BY <1>2, <2>1, <2>2 DEF Get, HInv, OkInv, HeadInv, ContentInv, SizeInv, ChunkInv
<1>3. CASE UNCHANGED httpVars
  <2> USE DEF httpVars, connVars, progressVars
  <2>1. HTyped'
    BY <1>3 DEF HInv, HTyped, HttpTypeOK, Resting
  <2>2. GotInv' /\ OkInv'
    BY <1>3 DEF HInv, GotInv, OkInv, InOrder
  <2>3. /\ \A j : Place(j)' = Place(j)
        /\ \A x : Raw(x)' = Raw(x)
        /\ LenKnown' = LenKnown
    BY <1>3 DEF Place, PlaceOf, Raw, RawOf, InOrder, LenKnown
  <2>4. HeadInv' /\ ContentInv'
    BY <1>3, <2>3 DEF HInv, HeadInv, ContentInv
  <2>5. SizeInv' /\ ChunkInv'
    BY <1>3, <2>3 DEF HInv, SizeInv, ChunkInv
  <2>6. QED
    BY <2>1, <2>2, <2>4, <2>5 DEF HInv
<1>4. CASE /\ get = "done" /\ get' = "idle"
           /\ UNCHANGED <<connVars, progressVars, resume_retry_count, redirect_count, result,
                          spoiled>>
  BY <1>4 DEF HInv, HTyped, HttpTypeOK, Resting, GotInv, OkInv, HeadInv, ContentInv,
              SizeInv, ChunkInv, InOrder, connVars, progressVars
<1>5. QED
  BY <1>1, <1>2, <1>3, <1>4

USE DEF vars, otaVars, engineVars, taskVars, histVars, taskKeeps, Goto, Tell

\* Where ota_updater uses its updater.
Busy == pc \in {"start", "download", "unpacked", "complete", "image", "installed",
                "reboot", "notify", "release"}

\* The updater that was taken from the queue is no longer in it, and neither is
\* one that has yet to be created.
OwnInv ==
    /\ commands \in Nat /\ cur \in Nat /\ cur <= commands
    /\ \/ queue = <<>>
       \/ /\ queue = <<queue[1]>> /\ queue[1] \in Nat /\ queue[1] <= commands
          /\ Busy => queue[1] # cur

\* As long as every command found room in the queue and BEGIN was told in time, no
\* loop is freed and nothing is rejected, and who is about to use an updater finds
\* it alive.
SafeInv ==
    mishaps \cap {"full", "begin", "early"} = {} =>
        /\ misuse = {} /\ loop # "freed" /\ creator \in {"idle", "begin"}
        /\ creator = "begin" => commands \in live
        /\ queue # <<>> => queue[1] \in live
        /\ Busy => cur \in live

-----------------------------------------------------------------------------
\* A step of the updater's task before it frees anything.
LEMMA StepKeeps ==
    ASSUME OwnInv, SafeInv, Busy, mishaps \subseteq mishaps',
           UNCHANGED <<loop, queue, creator, commands, cur, live>>,
           misuse' = misuse \/ Use(cur)
    PROVE  OwnInv' /\ SafeInv'
<1>1. OwnInv'
  BY DEF OwnInv, Busy
<1>2. SafeInv'
  BY DEF SafeInv, Busy, Use
<1>3. QED
  BY <1>1, <1>2

LEMMA EngineSafe == ASSUME OwnInv, SafeInv, Engine PROVE OwnInv' /\ SafeInv'
<1>1. CASE Command
  <2>1. commands' = commands + 1 /\ live' = live \cup {commands'} /\ mishaps \subseteq mishaps'
        /\ UNCHANGED <<pc, cur>>
    BY <1>1 DEF Command
  <2>2. CASE loop = "freed"
    BY <1>1, <2>1, <2>2 DEF Command, OwnInv, SafeInv, Busy
  <2>3. CASE loop # "freed" /\ queue = <<>> /\ queue' = <<commands'>> /\ creator' = "begin"
             /\ UNCHANGED <<misuse, mishaps>>
    <3>1. queue'[1] = commands' /\ queue' # <<>> /\ queue' = <<queue'[1]>>
      BY <2>3
    <3>2. OwnInv'
      BY <2>1, <3>1 DEF OwnInv, Busy
    <3>3. loop' # "freed"
      BY <1>1, <2>3 DEF Command
    <3>4. QED
      BY <2>1, <2>3, <3>1, <3>2, <3>3 DEF SafeInv, Busy
  <2>4. CASE loop # "freed" /\ queue # <<>> /\ creator' = "reject"
             /\ mishaps' = mishaps \cup {"full"} /\ UNCHANGED <<queue, misuse>>
    BY <2>1, <2>4, SMTT(30) DEF OwnInv, SafeInv, Busy
  <2>5. QED
    BY <1>1, <2>2, <2>3, <2>4 DEF Command
<1>2. CASE Begin
  <2>1. UNCHANGED <<loop, queue, commands, pc, cur, live>> /\ Use(commands)
        /\ creator = "begin"
    BY <1>2 DEF Begin
  <2>2. \/ creator' = "idle" /\ mishaps' = mishaps
        \/ "begin" \in mishaps'
    BY <1>2 DEF Begin
  <2>3. OwnInv'
    BY <2>1 DEF OwnInv, Busy
  <2>4. SafeInv'
    BY <2>1, <2>2 DEF SafeInv, Busy, Use
  <2>5. QED
    BY <2>3, <2>4
<1>3. CASE Reject \/ DestroyLoop
  <2>1. creator \in {"reject", "destroy"} /\ mishaps' = mishaps
    BY <1>3 DEF Reject, DestroyLoop
  <2>2. SafeInv'
    BY <2>1 DEF SafeInv
  <2>3. (queue' = <<>> \/ queue' = queue) /\ (Busy' => Busy) /\ UNCHANGED <<commands, cur>>
    BY <1>3 DEF Reject, DestroyLoop, Busy
  <2>4. OwnInv'
    BY <2>3 DEF OwnInv
  <2>5. QED
    BY <2>2, <2>4
<1>4. QED
  BY <1>1, <1>2, <1>3 DEF Engine

LEMMA TakeSafe == ASSUME OwnInv, SafeInv, Take PROVE OwnInv' /\ SafeInv'
<1>1. queue # <<>> /\ cur' = queue[1] /\ queue' = <<>>
      /\ UNCHANGED <<loop, creator, commands, live, mishaps, misuse>>
  BY DEF Take
<1>2. OwnInv'
  BY <1>1 DEF OwnInv
<1>3. SafeInv'
  BY <1>1 DEF SafeInv
<1>4. QED
  BY <1>2, <1>3

LEMMA UpdaterSafe == ASSUME OwnInv, SafeInv, Updater PROVE OwnInv' /\ SafeInv'
<1>1. CASE Start \/ Downloaded \/ DataEnd \/ Image \/ Reboot
  BY <1>1, StepKeeps DEF Start, Downloaded, DataEnd, Image, Reboot, Busy
<1>2. CASE Complete \/ Installed
  BY <1>2, StepKeeps DEF Complete, Installed, Busy
<1>3. CASE Notify
  <2>1. Use(cur) /\ UNCHANGED <<loop, queue, creator, commands, cur, live>> /\ Busy
    BY <1>3 DEF Notify, Busy
  <2>2. mishaps \subseteq mishaps'
    BY <1>3 DEF Notify
  <2>3. QED
    BY <2>1, <2>2, StepKeeps
<1>4. CASE Download
  BY <1>4, StepKeeps DEF Download, Busy
<1>5. CASE Release
  <2>1. Use(cur) /\ live' = live \ {cur} /\ UNCHANGED <<loop, queue, creator, commands, cur>>
        /\ ~Busy' /\ Busy
    BY <1>5 DEF Release, Busy
  <2>2. mishaps \subseteq mishaps' /\ (creator = "begin" /\ cur = commands => "early" \in mishaps')
    BY <1>5 DEF Release
  <2>3. OwnInv'
    BY <2>1 DEF OwnInv
  <2>4. SafeInv'
    BY <2>1, <2>2 DEF OwnInv, SafeInv, Use
  <2>5. QED
    BY <2>3, <2>4
<1>6. CASE EndTask
  BY <1>6 DEF EndTask, OwnInv, SafeInv, Busy
<1>7. QED
  BY <1>1, <1>2, <1>3, <1>4, <1>5, <1>6 DEF Updater

LEMMA NextSafe == OwnInv /\ SafeInv /\ [Next]_vars => OwnInv' /\ SafeInv'
<1>1. ASSUME OwnInv, SafeInv, UNCHANGED vars PROVE OwnInv' /\ SafeInv'
  BY <1>1 DEF OwnInv, SafeInv, Busy
<1>2. QED
  BY <1>1, EngineSafe, TakeSafe, UpdaterSafe DEF Next

\* However commands, downloads and failures interleave, neither the updater nor its
\* loop is used after it was freed, as long as every command finds room in the
\* queue and BEGIN is told, and before the updater's task is done
\* (duer_ota_create_updater, ota_updater, duer_ota_destroy_updater).
THEOREM UpdaterMemorySafe == Spec => []MemorySafe
<1>1. Init => OwnInv /\ SafeInv
  BY DEF Init, OwnInv, SafeInv, Busy, NoUpdate
<1>2. SafeInv => MemorySafe
  BY DEF SafeInv, MemorySafe
<1>3. QED
  BY <1>1, <1>2, NextSafe, PTL DEF Spec

-----------------------------------------------------------------------------
(* The types, and what the HTTP client promises the updater. *)

OtaTyped ==
    /\ loop \in {"none", "alive", "orphan", "freed"}
    /\ queue \in {<<>>} \cup {<<u>> : u \in Updates}
    /\ creator \in {"idle", "begin", "reject", "destroy"}
    /\ commands \in 0 .. MaxUpdates
    /\ pc \in {"wait", "start", "download", "unpacked", "complete", "image", "installed",
               "reboot", "rebooted", "notify", "release", "end", "ended", "killed"}
    /\ cur \in Updates \cup {NoUpdate} /\ event \in Failures \cup {Unset}
    /\ live \subseteq Updates /\ boot \in {"old", "new"}
    /\ told \in [Updates -> Seq(OtaEvents)]
    /\ lost \in BOOLEAN
    /\ mishaps \subseteq {"full", "begin", "early", "report", "unset"}
    /\ misuse \subseteq {"updater", "loop"}

LEMMA TellType ==
  ASSUME told \in [Updates -> Seq(OtaEvents)], NEW u, NEW e \in OtaEvents, Tell(u, e)
  PROVE  told' \in [Updates -> Seq(OtaEvents)]
<1>1. told' = [told EXCEPT ![u] = Append(@, e)]
  BY DEF Tell
<1>2. \A s \in Seq(OtaEvents) : Append(s, e) \in Seq(OtaEvents)
  OBVIOUS
<1>3. ASSUME u \in Updates PROVE told' \in [Updates -> Seq(OtaEvents)]
  BY <1>1, <1>2, <1>3
<1>4. ASSUME u \notin Updates PROVE told' = told
  BY <1>1, <1>4
<1>5. QED
  BY <1>3, <1>4

LEMMA EngineTyped == ASSUME OtaTyped, Engine PROVE OtaTyped'
<1> USE OtaAssumption DEF OtaTyped, Updates
<1>1. CASE Command
  <2>1. commands' \in 1 .. MaxUpdates /\ UNCHANGED <<pc, cur, event, boot, told, lost>>
    BY <1>1 DEF Command
  <2>2. /\ loop' \in {"none", "alive", "orphan", "freed"} /\ live' \subseteq Updates
        /\ queue' \in {<<>>} \cup {<<u>> : u \in Updates}
        /\ creator' \in {"idle", "begin", "reject", "destroy"}
    BY <1>1, <2>1 DEF Command
  <2>3. /\ mishaps' \subseteq {"full", "begin", "early", "report", "unset"}
        /\ misuse' \subseteq {"updater", "loop"}
    BY <1>1 DEF Command
  <2>4. QED
    BY <2>1, <2>2, <2>3
<1>2. CASE Begin
  <2>1. told' \in [Updates -> Seq(OtaEvents)]
    BY <1>2, TellType DEF Begin, OtaEvents
  <2>2. creator' \in {"idle", "reject"} /\ misuse' \subseteq {"updater", "loop"}
        /\ mishaps' \subseteq {"full", "begin", "early", "report", "unset"}
    BY <1>2 DEF Begin, Use
  <2>3. UNCHANGED <<loop, queue, commands, pc, cur, event, live, boot, lost>>
    BY <1>2 DEF Begin
  <2>4. QED
    BY <2>1, <2>2, <2>3
<1>3. CASE Reject
  <2>1. told' \in [Updates -> Seq(OtaEvents)]
    BY <1>3, TellType DEF Reject, OtaEvents, Failures
  <2>2. QED
    BY <1>3, <2>1 DEF Reject, Use
<1>4. CASE DestroyLoop
  BY <1>4 DEF DestroyLoop
<1>5. QED
  BY <1>1, <1>2, <1>3, <1>4 DEF Engine

LEMMA UpdaterTyped == ASSUME OtaTyped, Take \/ Updater PROVE OtaTyped'
<1> USE DEF OtaTyped
<1>1. CASE Take
  BY <1>1 DEF Take
<1>2. CASE Start \/ Downloaded \/ DataEnd \/ Image \/ Reboot
  BY <1>2, ZenonT(30) DEF Start, Downloaded, DataEnd, Image, Reboot, Use, Failures
<1>3. CASE Download
  BY <1>3 DEF Download, Use
<1>4. CASE Complete \/ Installed
  <2>1. told' \in [Updates -> Seq(OtaEvents)]
    BY <1>4, TellType DEF Complete, Installed, OtaEvents
  <2>2. QED
    BY <1>4, <2>1 DEF Complete, Installed, Use
<1>5. CASE Notify
  <2>1. told' \in [Updates -> Seq(OtaEvents)]
    <3>1. CASE told' = told
      BY <3>1
    <3>2. ASSUME NEW e \in IF event = Unset THEN OtaEvents ELSE {event}, Tell(cur, e)
          PROVE  told' \in [Updates -> Seq(OtaEvents)]
      <4>1. e \in OtaEvents
        BY <3>2 DEF OtaEvents
      <4>2. QED
        BY <3>2, <4>1, TellType
    <3>3. QED
      BY <1>5, <3>1, <3>2 DEF Notify
  <2>2. mishaps' \subseteq {"full", "begin", "early", "report", "unset"}
    BY <1>5 DEF Notify
  <2>3. QED
    BY <1>5, <2>1, <2>2 DEF Notify, Use
<1>6. CASE Release
  BY <1>6 DEF Release, Use
<1>7. CASE EndTask
  BY <1>7 DEF EndTask
<1>8. QED
  BY <1>1, <1>2, <1>3, <1>4, <1>5, <1>6, <1>7 DEF Updater

LEMMA TypesStart == Init => OtaTyped
<1>1. [u \in Updates |-> <<>>] \in [Updates -> Seq(OtaEvents)]
  OBVIOUS
<1>2. 0 \in 0 .. MaxUpdates
  BY OtaAssumption
<1>3. QED
  BY <1>1, <1>2 DEF Init, OtaTyped, NoUpdate

LEMMA TypesNext == OtaTyped /\ [Next]_vars => OtaTyped'
<1>1. ASSUME OtaTyped, UNCHANGED vars PROVE OtaTyped'
  BY <1>1 DEF OtaTyped
<1>2. QED
  BY <1>1, EngineTyped, UpdaterTyped DEF Next

LEMMA HttpNext == ASSUME HInv, [Next]_vars PROVE HInv'
<1>1. CASE Engine \/ Take
  <2>1. UNCHANGED httpVars
    BY <1>1 DEF Engine, Command, Begin, Reject, DestroyLoop, Take
  <2>2. QED
    BY <2>1, HttpKeeps
<1>2. CASE Start
  BY <1>2, HttpKeeps DEF Start
<1>3. CASE Download
  BY <1>3, HttpKeeps DEF Download
<1>4. CASE Downloaded
  BY <1>4, HttpKeeps DEF Downloaded
<1>5. CASE DataEnd \/ Complete \/ Image \/ Installed \/ Reboot \/ Notify \/ Release \/ EndTask
  <2>1. UNCHANGED httpVars
    BY <1>5 DEF DataEnd, Complete, Image, Installed, Reboot, Notify, Release, EndTask
  <2>2. QED
    BY <2>1, HttpKeeps
<1>6. CASE UNCHANGED vars
  BY <1>6, HttpKeeps
<1>7. QED
  BY <1>1, <1>2, <1>3, <1>4, <1>5, <1>6 DEF Next, Updater

LEMMA HttpStarts == Init => HInv
<1> USE HttpAssumption
<1> SUFFICES ASSUME Init PROVE HInv
  OBVIOUS
<1>1. HTyped
  BY HttpAssumption DEF Init, HttpInit, HTyped, HttpTypeOK, Resting
<1>2. GotInv
  <2>1. Run(1, 1) = <<>> /\ 1 \in 1 .. Past
    BY RunType, PastType
  <2>2. QED
    BY <2>1 DEF Init, HttpInit, GotInv
<1>3. QED
  BY <1>1, <1>2 DEF Init, HttpInit, HInv, OkInv, HeadInv, ContentInv, SizeInv, ChunkInv

\* Whatever is sent, cut, resumed or redirected, and however commands, downloads and
\* failures interleave, the buffers of the client hold no more than they have room
\* for and its counters stay in their bounds; so do the queue and the reports of the
\* updater (duer_http_client_get, ota_updater).
THEOREM UpdaterTypeOK == Spec => []TypeOK
<1>1. HInv /\ OtaTyped => TypeOK
  BY DEF HInv, HTyped, OtaTyped, TypeOK
<1>2. QED
  BY <1>1, HttpStarts, HttpNext, TypesStart, TypesNext, PTL DEF Spec

\* However often a transfer breaks and is resumed, in whatever framing, the handler
\* was given a beginning of the resource, nothing twice and nothing left out, as long
\* as the server heeds the Range header and no answer of a redirect is taken for
\* content (http_client_recv_content_data, http_client_recv_chunk).
THEOREM HttpDataInOrder == Spec => []DataInOrder
<1>1. HInv => DataInOrder
  <2>1. SUFFICES ASSUME HInv, InOrder PROVE IsPrefix(got, Resource(1))
    BY DEF DataInOrder, InOrder
  <2>2. PICK j \in 1 .. Past : got = Run(1, j)
    BY <2>1 DEF HInv, GotInv
  <2>3. Resource(1) = Run(1, Past) /\ Past \in Nat /\ j \in Nat /\ 1 <= j /\ j <= Past
    BY PastType
  <2>4. /\ Len(Run(1, j)) = j - 1 /\ Len(Run(1, Past)) = Past - 1
        /\ Run(1, j) \in Seq(Item) /\ Run(1, Past) \in Seq(Item)
    <3>1. 1 \in Nat /\ 1 <= Past
      BY <2>3
    <3>2. QED
      BY <2>3, <3>1, RunType
  <2>5. SubSeq(Run(1, j), 1, j - 1) = SubSeq(Run(1, Past), 1, j - 1)
    BY <2>3 DEF Run
  <2>6. QED
    BY <2>2, <2>3, <2>4, <2>5 DEF IsPrefix
<1>2. QED
  BY <1>1, HttpStarts, HttpNext, PTL DEF Spec

\* What an updater that has come so far knows of its image.
ImageInv ==
    /\ pc = "unpacked" /\ spoiled = {} => got = Resource(1)
    /\ boot = "new" => /\ pc \notin {"wait", "start", "download", "unpacked"}
                       /\ spoiled = {} => got = Resource(1)

LEMMA ImageKeeps == ASSUME HInv, ImageInv, [Next]_vars PROVE ImageInv'
<1> USE DEF ImageInv
<1>1. CASE Engine
  BY <1>1 DEF Engine, Command, Begin, Reject, DestroyLoop, httpVars, progressVars
<1>2. CASE Take \/ Start
  BY <1>2 DEF Take, Start
<1>3. CASE Download
  BY <1>3 DEF Download
<1>4. CASE Downloaded
  <2>1. boot' = boot /\ UNCHANGED <<got, spoiled>> /\ pc = "download" /\ boot # "new"
    BY <1>4 DEF Downloaded, progressVars
  <2>2. ASSUME pc' = "unpacked", spoiled = {} PROVE got = Resource(1)
    <3>1. get = "done" /\ result = "ok"
      BY <1>4, <2>2 DEF Downloaded
    <3>2. got = Run(1, Past)
      BY <2>2, <3>1 DEF HInv, OkInv
    <3>3. QED
      BY <3>2, PastType
  <2>3. QED
    BY <2>1, <2>2
<1>5. CASE DataEnd
  BY <1>5 DEF DataEnd, httpVars, progressVars
<1>6. CASE Complete \/ Image \/ Installed \/ Reboot \/ Notify \/ Release \/ EndTask
  BY <1>6 DEF Complete, Image, Installed, Reboot, Notify, Release, EndTask, httpVars, progressVars
<1>7. CASE UNCHANGED vars
  BY <1>7 DEF httpVars, progressVars
<1>8. QED
  BY <1>1, <1>2, <1>3, <1>4, <1>5, <1>6, <1>7 DEF Next, Updater

\* The device boots a new image next only when the handler was given all of it, in
\* order: no transfer that was cut, resumed or redirected is ever taken for a whole
\* one, whatever length a redirect told of its own body, unless a block was lost in
\* the unpacker, Range was ignored, a redirect was taken for content, or an answer
\* came without a length while the client had none, or that of a redirect
\* (duer_http_client_get, ota_updater).
THEOREM UpdaterInstalledWhole == Spec => []InstalledWhole
<1>1. Init => ImageInv
  BY DEF Init, ImageInv
<1>2. ImageInv => InstalledWhole
  BY DEF ImageInv, InstalledWhole
<1>3. QED
  BY <1>1, <1>2, ImageKeeps, HttpStarts, HttpNext, PTL DEF Spec

-----------------------------------------------------------------------------
(* What the cloud is told. *)

LEMMA EventCat ==
  ASSUME NEW s \in Seq(OtaEvents), NEW t \in Seq(OtaEvents)
  PROVE  /\ s \o t \in Seq(OtaEvents) /\ Len(s \o t) = Len(s) + Len(t)
         /\ \A i \in 1 .. Len(s) : (s \o t)[i] = s[i]
         /\ \A i \in 1 .. Len(t) : (s \o t)[Len(s) + i] = t[i]
OBVIOUS

\* t is s with e as its i-th element.
Inserted(t, s, i, e) ==
    /\ t \in Seq(OtaEvents) /\ Len(t) = Len(s) + 1 /\ t[i] = e
    /\ \A k \in 1 .. Len(s) : k < i => t[k] = s[k]
    /\ \A k \in 1 .. Len(s) : k >= i => t[k + 1] = s[k]

LEMMA InsertType ==
  ASSUME NEW s \in Seq(OtaEvents), NEW i \in 1 .. Len(s) + 1, NEW e \in OtaEvents
  PROVE  Inserted(InsertAt(s, i, e), s, i, e)
<1> DEFINE u == SubSeq(s, 1, i - 1)
           v == SubSeq(s, i, Len(s))
<1>1. /\ u \in Seq(OtaEvents) /\ Len(u) = i - 1 /\ \A k \in 1 .. i - 1 : u[k] = s[k]
      /\ v \in Seq(OtaEvents) /\ Len(v) = Len(s) - i + 1
      /\ \A k \in 1 .. Len(s) - i + 1 : v[k] = s[i + k - 1]
  OBVIOUS
<1> DEFINE w == u \o <<e>>
           x == w \o v
<1>2. InsertAt(s, i, e) = x
  BY DEF InsertAt
<1> HIDE DEF u, v
<1>3. w \in Seq(OtaEvents) /\ Len(w) = i /\ w[i] = e /\ \A k \in 1 .. i - 1 : w[k] = s[k]
  BY <1>1
<1> HIDE DEF w
<1>4. /\ x \in Seq(OtaEvents) /\ Len(x) = Len(w) + Len(v)
      /\ \A k \in 1 .. Len(w) : x[k] = w[k]
      /\ \A k \in 1 .. Len(v) : x[Len(w) + k] = v[k]
  BY <1>1, <1>3, EventCat
<1> HIDE DEF x
<1>5. Len(x) = Len(s) + 1
  <2>1. i + (Len(s) - i + 1) = Len(s) + 1
    OBVIOUS
  <2>2. QED
    BY <1>1, <1>3, <1>4, <2>1
<1>6. x[i] = e /\ \A k \in 1 .. Len(s) : k < i => x[k] = s[k]
  BY <1>3, <1>4
<1>7. ASSUME NEW k \in 1 .. Len(s), k >= i PROVE x[k + 1] = s[k]
  <2>1. PICK m : m = k + 1 - i
    OBVIOUS
  <2>2. m \in 1 .. Len(v) /\ m \in 1 .. Len(s) - i + 1 /\ k + 1 = Len(w) + m /\ i + m - 1 = k
    BY <1>1, <1>3, <1>7, <2>1
  <2>3. x[Len(w) + m] = v[m] /\ v[m] = s[i + m - 1]
    BY <1>1, <1>4, <2>2
  <2>4. QED
    BY <2>2, <2>3
<1>8. QED
  BY <1>2, <1>4, <1>5, <1>6, <1>7 DEF Inserted

\* The next event of the updater's task, wherever BEGIN was told;
LEMMA TellsMore ==
  ASSUME NEW t, NEW tale \in Seq(OtaEvents), NEW e \in OtaEvents, Tells(t, tale)
  PROVE  Tells(Append(t, e), Append(tale, e))
<1> DEFINE more == Append(tale, e)
<1>1. more \in Seq(OtaEvents) /\ Len(more) = Len(tale) + 1 /\ more[Len(tale) + 1] = e
      /\ \A k \in 1 .. Len(tale) : more[k] = tale[k]
  OBVIOUS
<1>2. CASE t = tale
  BY <1>2 DEF Tells
<1>3. ASSUME NEW i \in 1 .. Len(tale) + 1, t = InsertAt(tale, i, "BEGIN")
      PROVE  Tells(Append(t, e), more)
  <2> HIDE DEF more
  <2>1. "BEGIN" \in OtaEvents /\ i \in 1 .. Len(more) + 1
    BY <1>1 DEF OtaEvents
  <2>2. Inserted(t, tale, i, "BEGIN")
    BY <1>3, <2>1, InsertType
  <2> DEFINE all == InsertAt(more, i, "BEGIN")
             a == Append(t, e)
  <2>3. Inserted(all, more, i, "BEGIN")
    BY <1>1, <2>1, InsertType
  <2>4. /\ a \in Seq(OtaEvents) /\ Len(a) = Len(tale) + 2 /\ a[Len(tale) + 2] = e
        /\ \A k \in 1 .. Len(tale) + 1 : a[k] = t[k]
    BY <2>2 DEF Inserted
  <2> HIDE DEF all, a
  <2>5. ASSUME NEW k \in 1 .. Len(tale) + 2 PROVE a[k] = all[k]
    <3>1. CASE k < i
      <4>1. k \in 1 .. Len(tale) /\ k \in 1 .. Len(more) /\ k \in 1 .. Len(tale) + 1
        BY <1>1, <3>1
      <4>2. all[k] = more[k] /\ t[k] = tale[k]
        BY <2>2, <2>3, <3>1, <4>1 DEF Inserted
      <4>3. QED
        BY <1>1, <2>4, <4>1, <4>2
    <3>2. CASE k = i
      BY <1>1, <2>2, <2>3, <2>4, <3>2 DEF Inserted
    <3>3. CASE k > i
      <4>1. PICK m : m = k - 1
        OBVIOUS
      <4>2. m \in 1 .. Len(more) /\ m >= i /\ k = m + 1
        BY <1>1, <3>3, <4>1
      <4>3. all[k] = more[m]
        BY <2>3, <4>2 DEF Inserted
      <4>4. CASE m <= Len(tale)
        BY <1>1, <2>2, <2>4, <4>2, <4>3, <4>4 DEF Inserted
      <4>5. CASE m = Len(tale) + 1
        BY <1>1, <2>4, <4>2, <4>3, <4>5
      <4>6. QED
        BY <1>1, <4>2, <4>4, <4>5
    <3>4. QED
      BY <3>1, <3>2, <3>3
  <2>6. a = all
    <3>1. all \in Seq(OtaEvents) /\ Len(all) = Len(a)
      BY <1>1, <2>3, <2>4 DEF Inserted
    <3>2. QED
      BY <2>4, <2>5, <3>1, SeqEqual
  <2>7. QED
    BY <2>1, <2>6 DEF Tells, a, all
<1>4. QED
  BY <1>2, <1>3 DEF Tells

\* and BEGIN itself.
LEMMA TellsBegin ==
  ASSUME NEW tale \in Seq(OtaEvents)
  PROVE  Tells(Append(tale, "BEGIN"), tale)
<1> DEFINE i == Len(tale) + 1
           a == Append(tale, "BEGIN")
           all == InsertAt(tale, i, "BEGIN")
<1>1. "BEGIN" \in OtaEvents
  BY DEF OtaEvents
<1>2. a \in Seq(OtaEvents) /\ Len(a) = Len(tale) + 1 /\ a[Len(tale) + 1] = "BEGIN"
      /\ \A k \in 1 .. Len(tale) : a[k] = tale[k]
  BY <1>1
<1>3. Inserted(all, tale, i, "BEGIN")
  <2>1. i \in 1 .. Len(tale) + 1
    OBVIOUS
  <2>2. QED
    BY <1>1, <2>1, InsertType
<1> HIDE DEF a, all
<1>4. \A k \in 1 .. Len(tale) + 1 : a[k] = all[k]
  BY <1>2, <1>3 DEF Inserted
<1>5. a = all
  BY <1>2, <1>3, <1>4, SeqEqual DEF Inserted
<1>6. QED
  BY <1>5 DEF Tells, a, all

LEMMA EventAppend ==
  ASSUME NEW s \in Seq(OtaEvents), NEW b \in OtaEvents
  PROVE  /\ Append(s, b) \in Seq(OtaEvents) /\ Len(Append(s, b)) = Len(s) + 1
         /\ Append(s, b)[Len(s) + 1] = b
         /\ \A i \in 1 .. Len(s) : Append(s, b)[i] = s[i]
OBVIOUS

LEMMA AppendPair ==
  ASSUME NEW a \in OtaEvents, NEW b \in OtaEvents
  PROVE  Append(<<a>>, b) = <<a, b>>
<1> DEFINE s == <<a>>
           t == <<a, b>>
           u == Append(s, b)
<1>1. s \in Seq(OtaEvents) /\ Len(s) = 1 /\ s[1] = a
  OBVIOUS
<1>2. t \in Seq(OtaEvents) /\ Len(t) = 2 /\ t[1] = a /\ t[2] = b
  OBVIOUS
<1> HIDE DEF s
<1>3. /\ u \in Seq(OtaEvents) /\ Len(u) = Len(s) + 1 /\ u[Len(s) + 1] = b
      /\ \A i \in 1 .. Len(s) : u[i] = s[i]
  BY <1>1, EventAppend
<1> HIDE DEF t, u
<1>4. \A i \in 1 .. Len(u) : u[i] = t[i]
  BY <1>1, <1>2, <1>3
<1>5. u = t
  BY <1>1, <1>2, <1>3, <1>4, SeqEqual
<1>6. QED
  BY <1>5 DEF s, t, u

LEMMA TalesType ==
    /\ Tales = {<<>>, <<"REJECT">>, <<"CONNECT_FAIL">>, <<"DOWNLOAD_COMPLETE">>,
                <<"DOWNLOAD_COMPLETE", "INSTALLED">>, <<"DOWNLOAD_COMPLETE", "WRITE_ERROR">>}
    /\ \A tale \in Tales : tale \in Seq(OtaEvents)
<1> DEFINE Told(s) == {SubSeq(s, 1, n) : n \in 0 .. Len(s)}
<1>1. ASSUME NEW a PROVE Told(<<a>>) = {<<>>, <<a>>}
  <2>1. SubSeq(<<a>>, 1, 0) = <<>>
    OBVIOUS
  <2>2. SubSeq(<<a>>, 1, 1) = <<a>>
    <3> DEFINE s == <<a>>
    <3>1. s \in Seq({a}) /\ Len(s) = 1
      OBVIOUS
    <3> HIDE DEF s
    <3>2. SubSeq(s, 1, Len(s)) = s
      BY <3>1, SubSeqFull
    <3>3. QED
      BY <3>1, <3>2 DEF s
  <2>3. 0 .. Len(<<a>>) = {0, 1}
    OBVIOUS
  <2>4. QED
    BY <2>1, <2>2, <2>3
<1>2. ASSUME NEW a, NEW b PROVE Told(<<a, b>>) = {<<>>, <<a>>, <<a, b>>}
  <2> DEFINE s == <<a, b>>
             f == <<a>>
             u == SubSeq(s, 1, 1)
  <2>1. s \in Seq({a, b}) /\ Len(s) = 2 /\ s[1] = a /\ f \in Seq({a, b}) /\ Len(f) = 1 /\ f[1] = a
    OBVIOUS
  <2> HIDE DEF s, f
  <2>2. SubSeq(s, 1, 0) = <<>>
    BY <2>1
  <2>3. SubSeq(s, 1, 2) = s
    BY <2>1, SubSeqFull
  <2>4. u \in Seq({a, b}) /\ Len(u) = 1 /\ u[1] = a
    BY <2>1
  <2> HIDE DEF u
  <2>5. \A i \in 1 .. Len(u) : u[i] = f[i]
    BY <2>1, <2>4
  <2>6. u = f
    BY <2>1, <2>4, <2>5, SeqEqual
  <2>7. 0 .. Len(s) = {0, 1, 2}
    BY <2>1
  <2>8. Told(s) = {SubSeq(s, 1, 0), SubSeq(s, 1, 1), SubSeq(s, 1, 2)}
    BY <2>7
  <2>9. QED
    BY <2>2, <2>3, <2>6, <2>8 DEF s, f, u
<1>3. Tales = Told(<<"REJECT">>) \cup Told(<<"CONNECT_FAIL">>)
                  \cup Told(<<"DOWNLOAD_COMPLETE", "INSTALLED">>)
                  \cup Told(<<"DOWNLOAD_COMPLETE", "WRITE_ERROR">>)
  BY DEF Tales, Stories
<1> HIDE DEF Told
<1>4. Tales = {<<>>, <<"REJECT">>, <<"CONNECT_FAIL">>, <<"DOWNLOAD_COMPLETE">>,
               <<"DOWNLOAD_COMPLETE", "INSTALLED">>, <<"DOWNLOAD_COMPLETE", "WRITE_ERROR">>}
  BY <1>1, <1>2, <1>3
<1>5. QED
  BY <1>4 DEF OtaEvents, Failures

Trusted == mishaps \cap {"begin", "unset"} = {}

\* Where the updater's task is says what will be booted,
BootInv ==
    /\ pc \in {"wait", "start", "download", "unpacked"} => boot = "old"
    /\ pc \in {"complete", "image", "installed", "reboot", "rebooted"} => boot = "new"
    /\ pc = "notify" /\ event \in {"REJECT", "CONNECT_FAIL"} => boot = "old"
    /\ pc = "notify" /\ event = "WRITE_ERROR" => boot = "new"

\* and what has been told of its update.
Fits(t) ==
    /\ pc \in {"wait", "start", "download", "unpacked", "complete"} => t = <<>>
    /\ pc \in {"image", "installed"} => t = <<"DOWNLOAD_COMPLETE">>
    /\ pc \in {"reboot", "rebooted"} => t = <<"DOWNLOAD_COMPLETE", "INSTALLED">>
    /\ pc = "notify" /\ event \in {"REJECT", "CONNECT_FAIL"} => t = <<>>
    /\ pc = "notify" /\ event = "WRITE_ERROR" => t = <<"DOWNLOAD_COMPLETE">>
    /\ t # <<>> => (t[1] = "DOWNLOAD_COMPLETE" <=> boot = "new")

\* An update that is rejected without a mishap was never queued, and one that has not
\* been taken up has no tale.
TaleOk(tale) ==
    /\ tale \in [Updates -> Tales]
    /\ \A u \in Updates : Tells(told[u], tale[u])
    /\ \A u \in Updates : u > commands => told[u] = <<>> /\ tale[u] = <<>>
    /\ creator = "begin" => told[commands] = tale[commands]
    /\ creator = "reject" => tale[commands] = <<>> /\ queue # <<commands>> /\ cur # commands
    /\ creator \in {"begin", "reject"} => commands # 0
    /\ queue # <<>> => tale[queue[1]] = <<>>
    /\ Busy => cur # NoUpdate
    /\ cur # NoUpdate => Fits(tale[cur])

TaleInv == Trusted => \E tale : TaleOk(tale)

LEMMA BootKeeps == ASSUME BootInv, [Next]_vars PROVE BootInv'
<1> USE DEF BootInv
<1>1. CASE Engine
  BY <1>1 DEF Engine, Command, Begin, Reject, DestroyLoop
<1>2. CASE Take \/ Start \/ Download \/ Downloaded \/ DataEnd \/ Complete
  BY <1>2 DEF Take, Start, Download, Downloaded, DataEnd, Complete, Unset
<1>3. CASE Image \/ Installed \/ Reboot \/ Notify \/ Release \/ EndTask
  BY <1>3 DEF Image, Installed, Reboot, Notify, Release, EndTask, Unset
<1>4. CASE UNCHANGED vars
  BY <1>4
<1>5. QED
  BY <1>1, <1>2, <1>3, <1>4 DEF Next, Updater

\* A step that tells nothing and takes up nothing.
LEMMA QuietKeeps ==
  ASSUME NEW tale, TaleOk(tale), UNCHANGED <<told, commands, creator, queue, cur>>,
         Busy' => cur # NoUpdate, cur # NoUpdate => Fits(tale[cur])'
  PROVE  TaleOk(tale)'
BY DEF TaleOk

\* A step of the updater's task that tells e.
LEMMA TellKeeps ==
  ASSUME OtaTyped, OwnInv, Busy, NEW tale, TaleOk(tale), NEW e \in OtaEvents, Tell(cur, e),
         Append(tale[cur], e) \in Tales, Fits(Append(tale[cur], e))',
         UNCHANGED <<commands, creator, queue, cur>>
  PROVE  \E new : TaleOk(new)'
<1>0. PICK new : new = [tale EXCEPT ![cur] = Append(@, e)]
  OBVIOUS
<1>1. cur \in Updates /\ cur <= commands /\ tale \in [Updates -> Tales] /\ commands \in Nat
  BY OtaAssumption DEF OtaTyped, OwnInv, TaleOk
<1>2. /\ new \in [Updates -> Tales] /\ new[cur] = Append(tale[cur], e)
      /\ \A u \in Updates : u # cur => new[u] = tale[u]
  BY <1>0, <1>1
<1>3. /\ told'[cur] = Append(told[cur], e)
      /\ \A u \in Updates : u # cur => told'[u] = told[u]
  BY <1>1 DEF OtaTyped
<1>4. ASSUME NEW u \in Updates PROVE Tells(told'[u], new[u])
  <2>1. tale[u] \in Seq(OtaEvents) /\ Tells(told[u], tale[u])
    BY <1>1, TalesType DEF TaleOk
  <2>2. CASE u = cur
    <3>1. Tells(Append(told[u], e), Append(tale[u], e))
      BY <2>1, TellsMore
    <3>2. QED
      BY <1>2, <1>3, <2>2, <3>1
  <2>3. CASE u # cur
    BY <1>2, <1>3, <2>1, <2>3
  <2>4. QED
    BY <2>2, <2>3
<1>5. \A u \in Updates : u > commands => told'[u] = <<>> /\ new[u] = <<>>
  <2>1. \A u \in Updates : u > commands => u # cur
    BY <1>1 DEF Updates
  <2>2. QED
    BY <1>2, <1>3, <2>1 DEF TaleOk
<1>6. commands # 0 => commands \in Updates
  BY DEF OtaTyped, Updates
<1>7. creator = "begin" => told'[commands] = new[commands]
  BY <1>2, <1>3, <1>6 DEF TaleOk
<1>8. creator = "reject" => new[commands] = <<>>
  BY <1>2, <1>6 DEF TaleOk
<1>9. queue # <<>> => new[queue[1]] = <<>>
  <2>1. queue # <<>> => queue[1] \in Updates /\ queue[1] # cur
    BY DEF OtaTyped, OwnInv
  <2>2. QED
    BY <1>2, <2>1 DEF TaleOk
<1>10. TaleOk(new)'
  <2>1. Fits(new[cur])'
    BY <1>2 DEF Fits
  <2>2. Busy' => cur' # NoUpdate
    BY DEF TaleOk
  <2>3. creator \in {"begin", "reject"} => commands # 0
    BY DEF TaleOk
  <2>4. creator = "reject" => queue # <<commands>> /\ cur # commands
    BY DEF TaleOk
  <2>5. QED
    BY <1>2, <1>4, <1>5, <1>7, <1>8, <1>9, <2>1, <2>2, <2>3, <2>4 DEF TaleOk
<1>11. QED
  BY <1>10

LEMMA EngineTales ==
  ASSUME OtaTyped, OtaTyped', OwnInv, NEW tale, TaleOk(tale), Engine, Trusted'
  PROVE  \E new : TaleOk(new)'
<1> USE DEF Trusted
<1>1. /\ commands \in Nat /\ cur \in Nat /\ cur <= commands /\ UNCHANGED <<cur, event, boot>>
      /\ queue # <<>> => queue = <<queue[1]>> /\ queue[1] \in Updates /\ queue[1] <= commands
      /\ commands # 0 => commands \in Updates
      /\ pc' = pc \/ pc' = "killed"
  BY DEF OwnInv, OtaTyped, Updates, Engine, Command, Begin, Reject, DestroyLoop
<1>2. (Busy' => cur' # NoUpdate) /\ (cur' # NoUpdate => Fits(tale[cur])')
  BY <1>1 DEF TaleOk, Busy, Fits
<1>3. CASE Command
  <2>1. commands' = commands + 1 /\ commands' \in Updates /\ told' = told
    BY <1>1, <1>3 DEF Command, OtaTyped, Updates
  <2>2. told[commands'] = <<>> /\ tale[commands'] = <<>> /\ cur # commands'
    BY <1>1, <2>1 DEF TaleOk
  <2>3. \/ queue' = queue /\ queue # <<commands'>>
        \/ queue' = <<commands'>> /\ creator' = "begin"
    <3>1. queue # <<commands'>>
      <4>1. queue = <<commands'>> => queue # <<>> /\ queue[1] = commands'
        OBVIOUS
      <4>2. QED
        BY <1>1, <2>1, <4>1
    <3>2. queue' = queue \/ (queue' = <<commands'>> /\ creator' = "begin")
      BY <1>3 DEF Command
    <3>3. QED
      BY <3>1, <3>2
  <2>4. queue' # <<>> => tale[queue'[1]] = <<>>
    BY <2>2, <2>3 DEF TaleOk
  <2>5. \A u \in Updates : u > commands' => u > commands
    BY <1>1, <2>1 DEF Updates
  <2>6. TaleOk(tale)'
    <3>1. /\ tale \in [Updates -> Tales]
          /\ \A u \in Updates : Tells(told'[u], tale[u])
          /\ \A u \in Updates : u > commands' => told'[u] = <<>> /\ tale[u] = <<>>
      BY <2>1, <2>5 DEF TaleOk
    <3>2. /\ creator' = "begin" => told'[commands'] = tale[commands']
          /\ creator' = "reject" => tale[commands'] = <<>> /\ queue' # <<commands'>> /\ cur' # commands'
          /\ commands' # 0
      BY <1>1, <2>1, <2>2, <2>3
    <3>3. QED
      BY <1>1, <1>2, <2>4, <3>1, <3>2 DEF TaleOk
  <2>7. QED
    BY <2>6
<1>4. CASE Begin
  <2>1. /\ creator = "begin" /\ creator' = "idle" /\ Tell(commands, "BEGIN")
        /\ UNCHANGED <<queue, commands, pc, cur>>
    BY <1>4 DEF Begin
  <2>2. commands \in Updates /\ told[commands] = tale[commands] /\ tale[commands] \in Seq(OtaEvents)
    BY <1>1, <2>1, TalesType DEF TaleOk
  <2>3. /\ told'[commands] = Append(told[commands], "BEGIN")
        /\ \A u \in Updates : u # commands => told'[u] = told[u]
    BY <2>1, <2>2 DEF OtaTyped
  <2>4. ASSUME NEW u \in Updates PROVE Tells(told'[u], tale[u])
    <3>1. Tells(Append(tale[commands], "BEGIN"), tale[commands])
      BY <2>2, TellsBegin
    <3>2. CASE u = commands
      BY <2>2, <2>3, <3>1, <3>2
    <3>3. CASE u # commands
      BY <2>3, <3>3 DEF TaleOk
    <3>4. QED
      BY <3>2, <3>3
  <2>5. \A u \in Updates : u > commands => told'[u] = <<>> /\ tale[u] = <<>>
    <3>1. \A u \in Updates : u > commands => u # commands
      BY <1>1
    <3>2. QED
      BY <2>3, <3>1 DEF TaleOk
  <2>6. TaleOk(tale)'
    BY <1>1, <1>2, <2>1, <2>4, <2>5 DEF TaleOk
  <2>7. QED
    BY <2>6
<1>5. CASE Reject
  <2>1. /\ creator = "reject" /\ creator' = "destroy"
        /\ UNCHANGED <<queue, commands, pc, cur>>
    BY <1>5 DEF Reject
  <2>2. CASE told' = told
    <3>1. TaleOk(tale)'
      BY <1>2, <2>1, <2>2 DEF TaleOk
    <3>2. QED
      BY <3>1
  <2>3. CASE Tell(commands, "REJECT")
    <3>1. PICK new : new = [tale EXCEPT ![commands] = <<"REJECT">>]
      OBVIOUS
    <3>2. commands \in Updates /\ tale[commands] = <<>> /\ tale \in [Updates -> Tales]
          /\ queue # <<commands>> /\ cur # commands
      BY <1>1, <2>1 DEF TaleOk
    <3>3. /\ new \in [Updates -> Tales] /\ new[commands] = <<"REJECT">>
          /\ \A u \in Updates : u # commands => new[u] = tale[u]
      BY <3>1, <3>2, TalesType
    <3>4. /\ told'[commands] = Append(told[commands], "REJECT")
          /\ \A u \in Updates : u # commands => told'[u] = told[u]
      BY <2>3, <3>2 DEF OtaTyped
    <3>5. ASSUME NEW u \in Updates PROVE Tells(told'[u], new[u])
      <4>1. Tells(told[u], tale[u]) /\ "REJECT" \in OtaEvents /\ <<>> \in Seq(OtaEvents)
        BY DEF TaleOk, OtaEvents, Failures
      <4>2. CASE u = commands
        <5>1. Tells(Append(told[u], "REJECT"), Append(<<>>, "REJECT"))
          BY <3>2, <4>1, <4>2, TellsMore
        <5>2. Append(<<>>, "REJECT") = <<"REJECT">>
          OBVIOUS
        <5>3. QED
          BY <3>3, <3>4, <4>2, <5>1, <5>2
      <4>3. CASE u # commands
        BY <3>3, <3>4, <4>1, <4>3
      <4>4. QED
        BY <4>2, <4>3
    <3>6. \A u \in Updates : u > commands => told'[u] = <<>> /\ new[u] = <<>>
      <4>1. \A u \in Updates : u > commands => u # commands
        BY <1>1
      <4>2. QED
        BY <3>3, <3>4, <4>1 DEF TaleOk
    <3>7. queue # <<>> => new[queue[1]] = <<>>
      <4>1. queue # <<>> => queue[1] # commands /\ queue[1] \in Updates
        BY <1>1, <3>2
      <4>2. QED
        BY <3>3, <4>1 DEF TaleOk
    <3>8. cur # NoUpdate => Fits(new[cur])'
      <4>1. cur # NoUpdate => new[cur] = tale[cur]
        BY <3>2, <3>3 DEF OtaTyped
      <4>2. QED
        BY <1>1, <1>2, <4>1 DEF Fits
    <3>9. TaleOk(new)'
      BY <1>1, <1>2, <2>1, <3>3, <3>5, <3>6, <3>7, <3>8 DEF TaleOk
    <3>10. QED
      BY <3>9
  <2>4. QED
    BY <1>5, <2>2, <2>3 DEF Reject
<1>6. CASE DestroyLoop
  <2>1. creator' = "idle" /\ queue' = <<>> /\ UNCHANGED <<commands, cur, told>>
    BY <1>6 DEF DestroyLoop
  <2>2. TaleOk(tale)'
    BY <1>1, <1>2, <2>1 DEF TaleOk
  <2>3. QED
    BY <2>2
<1>7. QED
  BY <1>3, <1>4, <1>5, <1>6 DEF Engine

LEMMA UpdaterTales ==
  ASSUME OtaTyped, OwnInv, BootInv, BootInv', NEW tale, TaleOk(tale), Take \/ Updater, Trusted'
  PROVE  \E new : TaleOk(new)'
<1> USE DEF Trusted
<1>1. CASE Take
  <2>1. /\ pc = "wait" /\ queue # <<>> /\ cur' = queue[1] /\ queue' = <<>> /\ pc' = "start"
        /\ UNCHANGED <<creator, commands, told, boot>> /\ queue[1] \in Updates
    BY <1>1 DEF Take, OtaTyped
  <2>2. tale[cur'] = <<>> /\ cur' # NoUpdate
    BY <2>1 DEF TaleOk, NoUpdate, Updates
  <2>3. creator = "reject" => cur' # commands
    <3>1. queue = <<queue[1]>>
      BY <2>1 DEF OtaTyped
    <3>2. QED
      BY <2>1, <3>1 DEF TaleOk
  <2>4. Fits(<<>>)'
    BY <2>1 DEF Fits
  <2>5. Fits(tale[cur])'
    BY <2>2, <2>4 DEF Fits
  <2>6. TaleOk(tale)'
    BY <2>1, <2>2, <2>3, <2>5 DEF TaleOk
  <2>7. QED
    BY <2>6
<1>2. CASE Start \/ Download \/ Downloaded \/ DataEnd \/ Image \/ Reboot \/ Release \/ EndTask
  <2>1. UNCHANGED <<told, commands, creator, queue, cur>>
    BY <1>2 DEF Start, Download, Downloaded, DataEnd, Image, Reboot, Release, EndTask
  <2>2. Busy' => cur # NoUpdate
    BY <1>2 DEF TaleOk, Busy, Start, Download, Downloaded, DataEnd, Image, Reboot, Release, EndTask
  <2>3. ASSUME cur # NoUpdate PROVE Fits(tale[cur])'
    <3>1. Fits(tale[cur])
      BY <2>3 DEF TaleOk
    <3>2. CASE Start \/ Download \/ Downloaded \/ DataEnd
      BY <2>1, <3>1, <3>2 DEF Fits, Start, Download, Downloaded, DataEnd
    <3>3. CASE Image
      BY <2>1, <3>1, <3>3 DEF Fits, Image
    <3>4. CASE Reboot \/ Release \/ EndTask
      BY <2>1, <3>1, <3>4 DEF Fits, Reboot, Release, EndTask, Unset
    <3>5. QED
      BY <1>2, <3>2, <3>3, <3>4
  <2>4. TaleOk(tale)'
    BY <2>1, <2>2, <2>3, QuietKeeps
  <2>5. QED
    BY <2>4
<1>3. CASE Complete \/ Installed \/ Notify
  <2>1. /\ UNCHANGED <<commands, creator, queue, cur, boot>> /\ Busy /\ cur # NoUpdate
        /\ Fits(tale[cur])
    BY <1>3 DEF Complete, Installed, Notify, Busy, TaleOk
  <2>2. CASE told' = told /\ pc' \in {"notify", "release"}
    <3>1. Fits(tale[cur])'
      BY <1>3, <2>1, <2>2 DEF Fits, Complete, Installed, Notify, Unset
    <3>2. TaleOk(tale)'
      BY <2>1, <2>2, <3>1, QuietKeeps
    <3>3. QED
      BY <3>2
  <2>3. ASSUME NEW e, Tell(cur, e), e \in OtaEvents, Append(tale[cur], e) \in Tales,
               Fits(Append(tale[cur], e))'
        PROVE  \E new : TaleOk(new)'
    BY <2>1, <2>3, TellKeeps
  <2>4. CASE Complete /\ Tell(cur, "DOWNLOAD_COMPLETE") /\ pc' = "image"
    <3>1. tale[cur] = <<>> /\ boot = "new" /\ pc = "complete"
      BY <2>1, <2>4 DEF Complete, Fits, BootInv
    <3>2. Append(tale[cur], "DOWNLOAD_COMPLETE") = <<"DOWNLOAD_COMPLETE">>
      BY <3>1
    <3>3. Fits(<<"DOWNLOAD_COMPLETE">>)'
      BY <2>1, <2>4, <3>1 DEF Fits
    <3>4. Fits(Append(tale[cur], "DOWNLOAD_COMPLETE"))'
      BY <2>1, <3>2, <3>3 DEF Fits
    <3>5. "DOWNLOAD_COMPLETE" \in OtaEvents /\ <<"DOWNLOAD_COMPLETE">> \in Tales
      BY TalesType DEF OtaEvents
    <3>6. QED
      BY <2>3, <2>4, <3>2, <3>4, <3>5
  <2>5. CASE Installed /\ Tell(cur, "INSTALLED") /\ pc' = "reboot"
    <3>1. tale[cur] = <<"DOWNLOAD_COMPLETE">> /\ boot = "new"
      BY <2>1, <2>5 DEF Installed, Fits, BootInv
    <3>2. Append(tale[cur], "INSTALLED") = <<"DOWNLOAD_COMPLETE", "INSTALLED">>
      BY <3>1, AppendPair DEF OtaEvents
    <3>3. Fits(<<"DOWNLOAD_COMPLETE", "INSTALLED">>)'
      BY <2>1, <2>5, <3>1 DEF Fits
    <3>4. Fits(Append(tale[cur], "INSTALLED"))'
      BY <2>1, <3>2, <3>3 DEF Fits
    <3>5. "INSTALLED" \in OtaEvents /\ <<"DOWNLOAD_COMPLETE", "INSTALLED">> \in Tales
      BY TalesType DEF OtaEvents
    <3>6. QED
      BY <2>3, <2>5, <3>2, <3>4, <3>5
  <2>6. CASE Notify /\ event \in Failures /\ Tell(cur, event)
    <3>1. pc = "notify" /\ pc' = "release"
      BY <2>6 DEF Notify
    <3>2. PICK e \in Failures : e = event
      BY <2>6
    <3>3. \/ e \in {"REJECT", "CONNECT_FAIL"} /\ tale[cur] = <<>> /\ boot = "old"
          \/ e = "WRITE_ERROR" /\ tale[cur] = <<"DOWNLOAD_COMPLETE">> /\ boot = "new"
      BY <2>1, <3>1, <3>2 DEF Fits, BootInv, Failures
    <3>4. PICK more : /\ more = Append(tale[cur], e) /\ more \in Tales
                      /\ more[1] = "DOWNLOAD_COMPLETE" <=> boot = "new"
      <4>1. CASE e \in {"REJECT", "CONNECT_FAIL"} /\ tale[cur] = <<>> /\ boot = "old"
        <5>1. Append(tale[cur], e) = <<e>> /\ <<e>>[1] = e
          BY <4>1
        <5>2. <<e>> \in Tales
          BY <4>1, TalesType
        <5>3. QED
          BY <4>1, <5>1, <5>2
      <4>2. CASE e = "WRITE_ERROR" /\ tale[cur] = <<"DOWNLOAD_COMPLETE">> /\ boot = "new"
        <5>1. Append(tale[cur], e) = <<"DOWNLOAD_COMPLETE", "WRITE_ERROR">>
          BY <4>2, AppendPair DEF OtaEvents, Failures
        <5>2. <<"DOWNLOAD_COMPLETE", "WRITE_ERROR">> \in Tales
          BY TalesType
        <5>3. QED
          BY <4>2, <5>1, <5>2
      <4>3. QED
        BY <3>3, <4>1, <4>2
    <3>5. Fits(more)'
      BY <2>1, <3>1, <3>4 DEF Fits
    <3>6. Fits(Append(tale[cur], e))'
      BY <2>1, <3>4, <3>5 DEF Fits
    <3>7. e \in OtaEvents /\ Tell(cur, e)
      BY <2>6, <3>2 DEF OtaEvents
    <3>8. QED
      BY <2>3, <3>4, <3>6, <3>7
  <2>7. \/ told' = told /\ pc' \in {"notify", "release"}
        \/ Complete /\ Tell(cur, "DOWNLOAD_COMPLETE") /\ pc' = "image"
        \/ Installed /\ Tell(cur, "INSTALLED") /\ pc' = "reboot"
        \/ Notify /\ event \in Failures /\ Tell(cur, event)
    <3>1. CASE Complete \/ Installed
      BY <3>1 DEF Complete, Installed
    <3>2. CASE Notify
      BY <3>2 DEF Notify, OtaTyped
    <3>3. QED
      BY <1>3, <3>1, <3>2
  <2>8. QED
    BY <2>2, <2>4, <2>5, <2>6, <2>7
<1>4. QED
  BY <1>1, <1>2, <1>3 DEF Updater

LEMMA TaleKeeps ==
  ASSUME OtaTyped, OtaTyped', OwnInv, BootInv, BootInv', TaleInv, [Next]_vars
  PROVE  TaleInv'
<1>1. SUFFICES ASSUME Trusted' PROVE \E new : TaleOk(new)'
  BY DEF TaleInv
<1>2. mishaps \subseteq mishaps'
  BY DEF Next, Engine, Command, Begin, Reject, DestroyLoop, Take, Updater, Start, Download,
         Downloaded, DataEnd, Complete, Image, Installed, Reboot, Notify, Release, EndTask
<1>3. PICK tale : TaleOk(tale)
  BY <1>1, <1>2 DEF TaleInv, Trusted
<1>4. CASE UNCHANGED vars
  <2>1. TaleOk(tale)'
    BY <1>3, <1>4 DEF TaleOk, Busy, Fits
  <2>2. QED
    BY <2>1
<1>5. QED
  BY <1>1, <1>3, <1>4, EngineTales, UpdaterTales DEF Next

\* Whatever fails, and however a second command falls between two steps of the
\* updater's task, what the cloud is told of an update is the beginning of one story
\* and true of the image that is booted, as long as BEGIN can be told and no event is
\* told that was never assigned (ota_updater, duer_ota_notifier_event, free_updater).
THEOREM UpdaterCloudTold == Spec => []CloudTold
<1>1. Init => /\ OwnInv /\ SafeInv /\ BootInv /\ TaleInv
  <2>1. Init => OwnInv /\ SafeInv /\ BootInv
    BY DEF Init, OwnInv, SafeInv, BootInv, Busy, NoUpdate
  <2>2. ASSUME Init PROVE TaleInv
    <3>1. PICK tale : tale = [u \in Updates |-> <<>>]
      OBVIOUS
    <3>2. tale \in [Updates -> Tales] /\ told = tale
      BY <2>2, <3>1, TalesType DEF Init
    <3>3. TaleOk(tale)
      BY <2>2, <3>1, <3>2 DEF Init, TaleOk, Tells, Busy
    <3>4. QED
      BY <3>3 DEF TaleInv
  <2>3. QED
    BY <2>1, <2>2
<1>2. OtaTyped /\ BootInv /\ TaleInv => CloudTold
  <2>1. SUFFICES ASSUME OtaTyped, TaleInv, Trusted, NEW u \in Updates
                 PROVE  \E tale \in Tales : /\ Tells(told[u], tale)
                                            /\ tale # <<>> /\ u = cur =>
                                                  (tale[1] = "DOWNLOAD_COMPLETE" <=> boot = "new")
    BY DEF CloudTold, Trusted
  <2>2. PICK tale : TaleOk(tale)
    BY <2>1 DEF TaleInv
  <2>3. tale[u] \in Tales /\ Tells(told[u], tale[u]) /\ u # NoUpdate
    BY <2>2 DEF TaleOk, Updates, NoUpdate
  <2>4. u = cur => Fits(tale[u])
    BY <2>2, <2>3 DEF TaleOk
  <2>5. QED
    BY <2>3, <2>4 DEF Fits
<1>3. QED
  BY <1>1, <1>2, TypesStart, TypesNext, NextSafe, BootKeeps, TaleKeeps, PTL DEF Spec

=============================================================================
