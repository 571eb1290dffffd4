--------------------------- MODULE FrameParserProofs ---------------------------
(***************************************************************************)
(* What holds of the parser of the gateway client for every set of bodies, *)
(* any number of items and chunks of any size.  Whatever has been read,    *)
(* some item is the next (At): those before it are dealt with, and what is *)
(* left in the buffer and on the line is what is sent from that item on,   *)
(* perhaps after some bytes in which nothing begins.                       *)
(***************************************************************************)
EXTENDS FrameParser, SequenceTheorems, WellFoundedInduction, TLAPS

-----------------------------------------------------------------------------
(* Induction over numbers, and FlattenSeq unfolded.                         *)

\* Induction over the numbers, of a set that holds 0 and the successors of its
\* elements: the least number that it lacks would have a predecessor in it.
LEMMA Induction ==
    ASSUME NEW T, 0 \in T, \A n \in Nat : n \in T => n + 1 \in T
    PROVE  \A n \in Nat : n \in T
<1> DEFINE Lacks == {n \in Nat : n \notin T}
<1> SUFFICES ASSUME Lacks # {} PROVE FALSE
  OBVIOUS
<1>1. \E n \in Lacks : \A m \in Lacks : ~(<<m, n>> \in OpToRel(<, Nat))
  BY WFMin, NatLessThanWellFounded
<1>2. \A m, n \in Nat : <<m, n>> \in OpToRel(<, Nat) <=> m < n
  BY DEF OpToRel
<1>3. \E n \in Lacks : \A m \in Lacks : ~(m < n)
  BY <1>1, <1>2, Zenon
<1>4. PICK n \in Nat : n \notin T /\ \A m \in Nat : m \notin T => ~(m < n)
  BY <1>3
<1>5. n - 1 \in Nat /\ n - 1 \in T
  BY <1>4
<1> QED
  BY <1>4, <1>5

\* Flattening as a recursion from the left, up to the n-th step.
Joined(a, b) == a \o b
Flattens(f, seqs, n) ==
    \A i \in 1..n : f[i] = IF i = 1 THEN seqs[i] ELSE Joined(f[i - 1], seqs[i])

\* The first n steps of it exist.
LEMMA FlattenPrefix ==
    ASSUME NEW B, \A a, b \in B : Joined(a, b) \in B,
           NEW len \in Nat, NEW seqs \in [1..len -> B]
    PROVE  \A n \in Nat : n <= len => \E f \in [1..n -> B] : Flattens(f, seqs, n)
<1> DEFINE T == {n \in Nat : n <= len => \E f \in [1..n -> B] : Flattens(f, seqs, n)}
<1>1. 0 \in T
  <2> DEFINE f == [i \in 1..0 |-> << >>]
  <2>1. f \in [1..0 -> B] /\ Flattens(f, seqs, 0)
    BY DEF Flattens
  <2> QED
    BY <2>1
<1>2. ASSUME NEW m \in Nat, m \in T PROVE m + 1 \in T
  <2>1. ASSUME m + 1 <= len PROVE \E g \in [1..(m + 1) -> B] : Flattens(g, seqs, m + 1)
    <3>1. PICK f \in [1..m -> B] : Flattens(f, seqs, m)
      BY <1>2, <2>1
    <3> DEFINE g == [i \in 1..(m + 1) |->
                       IF i <= m THEN f[i]
                       ELSE IF i = 1 THEN seqs[i] ELSE Joined(f[m], seqs[i])]
    <3>2. g \in [1..(m + 1) -> B]
      BY <2>1
    <3>3. Flattens(g, seqs, m + 1)
      BY <3>1 DEF Flattens
    <3> QED
      BY <3>2, <3>3
  <2> QED
    BY <2>1
<1> HIDE DEF T
<1>3. \A n \in Nat : n \in T
  BY <1>1, <1>2, Induction
<1> QED
  BY <1>3 DEF T

\* Those steps end in what FlattenSeq yields.
LEMMA FlattenDef ==
    ASSUME NEW B, \A a, b \in B : Joined(a, b) \in B, NEW seqs \in Seq(B), seqs # << >>
    PROVE  \E f \in [1..Len(seqs) -> B] :
              FlattenSeq(seqs) = f[Len(seqs)] /\ Flattens(f, seqs, Len(seqs))
<1> DEFINE Is(f) == f = [i \in 1..Len(seqs) |->
                            IF i = 1 THEN seqs[i] ELSE Joined(f[i - 1], seqs[i])]
           g == CHOOSE f : Is(f)
<1>1. Len(seqs) \in Nat \ {0} /\ seqs \in [1..Len(seqs) -> B]
  OBVIOUS
<1>2. FlattenSeq(seqs) = g[Len(seqs)]
  BY <1>1 DEF FlattenSeq, Joined
<1> HIDE DEF g
<1>3. PICK n \in Nat \ {0} : n = Len(seqs)
  BY <1>1
<1>4. seqs \in [1..n -> B]
  BY <1>1, <1>3
<1>5. PICK f \in [1..n -> B] : Flattens(f, seqs, n)
  <2>1. \A k \in Nat : k <= n => \E f \in [1..k -> B] : Flattens(f, seqs, k)
    BY <1>3, <1>4, FlattenPrefix
  <2> QED
    BY <2>1
<1>6. Is(f)
  BY <1>3, <1>5 DEF Flattens
<1>7. Is(g)
  BY <1>6 DEF g
<1>8. DOMAIN g = 1..n /\ Flattens(g, seqs, n)
  BY <1>3, <1>7 DEF Flattens
<1>9. g = [i \in 1..n |-> g[i]]
  BY <1>3, <1>7
<1> HIDE DEF Is
<1> DEFINE T == {i \in Nat : i + 1 <= n => g[i + 1] \in B}
<1>10. 0 \in T
  BY <1>4, <1>8 DEF Flattens
<1>11. ASSUME NEW i \in Nat, i \in T PROVE i + 1 \in T
  <2>1. ASSUME i + 2 <= n PROVE g[i + 2] \in B
    <3>1. g[i + 1] \in B /\ g[i + 2] = Joined(g[i + 1], seqs[i + 2]) /\ seqs[i + 2] \in B
      BY <1>4, <1>8, <1>11, <2>1 DEF Flattens
    <3> QED
      BY <3>1
  <2> QED
    BY <2>1
<1> HIDE DEF T
<1>12. \A i \in Nat : i \in T
  BY <1>10, <1>11, Induction
<1>13. ASSUME NEW i \in 1..n PROVE g[i] \in B
  <2>1. i - 1 \in Nat /\ i - 1 \in T
    BY <1>12
  <2> QED
    BY <2>1 DEF T
<1>14. g \in [1..n -> B]
  BY <1>9, <1>13
<1> QED
  BY <1>2, <1>3, <1>8, <1>14

\* Joining sequences is associative.
LEMMA JoinedAssociative ==
    ASSUME NEW A, NEW a \in Seq(A), NEW b \in Seq(A), NEW c \in Seq(A)
    PROVE  /\ Joined(a, b) \in Seq(A)
           /\ Joined(Joined(a, b), c) = Joined(a, Joined(b, c))
<1> DEFINE Joins(u, s, t) ==
              /\ u \in Seq(A) /\ Len(u) \in Nat /\ Len(u) = Len(s) + Len(t)
              /\ \A i \in 1..Len(s) : u[i] = s[i]
              /\ \A i \in 1..Len(t) : u[Len(s) + i] = t[i]
<1>1. ASSUME NEW s \in Seq(A), NEW t \in Seq(A) PROVE Joins(Joined(s, t), s, t)
  <2>1. PICK u : u = s \o t
    OBVIOUS
  <2>2. /\ u \in Seq(A) /\ Len(u) = Len(s) + Len(t)
        /\ \A i \in 1..(Len(s) + Len(t)) : u[i] = IF i <= Len(s) THEN s[i] ELSE t[i - Len(s)]
    BY <2>1, ConcatProperties
  <2>3. Len(s) \in Nat /\ Len(t) \in Nat
    OBVIOUS
  <2>4. ASSUME NEW i \in 1..Len(s) PROVE u[i] = s[i]
    BY <2>2, <2>3
  <2>5. ASSUME NEW i \in 1..Len(t) PROVE u[Len(s) + i] = t[i]
    <3> DEFINE k == Len(s) + i
    <3>1. k \in 1..(Len(s) + Len(t)) /\ ~(k <= Len(s)) /\ k - Len(s) = i
      BY <2>3
    <3>2. u[k] = t[k - Len(s)]
      BY <2>2, <3>1, Zenon
    <3> QED
      BY <3>1, <3>2, Zenon
  <2>6. Joins(u, s, t)
    BY <2>2, <2>3, <2>4, <2>5
  <2> QED
    BY <2>1, <2>6 DEF Joined
<1>2. PICK ab : ab = Joined(a, b)
  OBVIOUS
<1>3. PICK bc : bc = Joined(b, c)
  OBVIOUS
<1>4. PICK l : l = Joined(ab, c)
  OBVIOUS
<1>5. PICK r : r = Joined(a, bc)
  OBVIOUS
<1> HIDE DEF Joins
<1>6. Joins(ab, a, b) /\ Joins(bc, b, c)
  BY <1>1, <1>2, <1>3, Zenon
<1>7. ab \in Seq(A) /\ bc \in Seq(A)
  BY <1>6 DEF Joins
<1>8. Joins(l, ab, c) /\ Joins(r, a, bc)
  BY <1>1, <1>4, <1>5, <1>7, Zenon
<1>9. Len(a) \in Nat /\ Len(b) \in Nat /\ Len(c) \in Nat
  OBVIOUS
<1>10. Len(ab) = Len(a) + Len(b) /\ Len(bc) = Len(b) + Len(c) /\ Len(l) = Len(r)
  BY <1>6, <1>8, <1>9 DEF Joins
<1>11. ASSUME NEW i \in 1..Len(l) PROVE l[i] = r[i]
  <2>1. CASE i \in 1..Len(a)
    <3>1. i \in 1..Len(ab)
      BY <1>9, <1>10, <2>1
    <3> QED
      BY <1>6, <1>8, <2>1, <3>1, Zenon DEF Joins
  <2>2. CASE i \in (Len(a) + 1)..Len(ab)
    <3>1. PICK j \in 1..Len(b) : i = Len(a) + j
      <4>1. i - Len(a) \in 1..Len(b) /\ i = Len(a) + (i - Len(a))
        BY <1>9, <1>10, <2>2
      <4> QED
        BY <4>1
    <3>2. i \in 1..Len(ab) /\ j \in 1..Len(bc)
      BY <1>9, <1>10, <2>2
    <3>3. l[i] = b[j]
      BY <1>6, <1>8, <3>1, <3>2, Zenon DEF Joins
    <3>4. r[i] = b[j]
      BY <1>6, <1>8, <3>1, <3>2, Zenon DEF Joins
    <3> QED
      BY <3>3, <3>4
  <2>3. CASE i > Len(ab)
    <3>1. PICK j \in 1..Len(c) : i = Len(ab) + j
      <4>1. Len(l) = Len(ab) + Len(c)
        BY <1>8 DEF Joins
      <4>2. i - Len(ab) \in 1..Len(c) /\ i = Len(ab) + (i - Len(ab))
        BY <1>9, <1>10, <2>3, <4>1
      <4> QED
        BY <4>2
    <3>2. Len(b) + j \in 1..Len(bc) /\ i = Len(a) + (Len(b) + j)
      BY <1>9, <1>10, <3>1
    <3>3. l[i] = c[j]
      BY <1>8, <3>1, Zenon DEF Joins
    <3>4. r[i] = c[j]
      BY <1>6, <1>8, <3>1, <3>2, Zenon DEF Joins
    <3> QED
      BY <3>3, <3>4
  <2> QED
    BY <1>9, <1>10, <2>1, <2>2, <2>3
<1>12. l \in Seq(A) /\ r \in Seq(A)
  BY <1>8 DEF Joins
<1>13. l = r
  BY <1>10, <1>11, <1>12, SeqEqual
<1> QED
  BY <1>2, <1>3, <1>4, <1>5, <1>7, <1>13

\* FlattenSeq unfolded from the left: the first sequence, then the others.
LEMMA FlattenFirst ==
    ASSUME NEW A, NEW seqs \in Seq(Seq(A)), seqs # << >>
    PROVE  /\ FlattenSeq(seqs) = seqs[1] \o FlattenSeq(Tail(seqs))
           /\ FlattenSeq(seqs) \in Seq(A)
<1>1. \A a, b, c \in Seq(A) : /\ Joined(a, b) \in Seq(A)
                              /\ Joined(Joined(a, b), c) = Joined(a, Joined(b, c))
  BY JoinedAssociative
<1>2. PICK B : B = Seq(A)
  OBVIOUS
<1>3. PICK n \in Nat \ {0} : n = Len(seqs)
  OBVIOUS
<1> DEFINE t == Tail(seqs)
<1>4. /\ \A i \in 1..n : seqs[i] \in B
      /\ t \in Seq(B) /\ Len(t) = n - 1 /\ \A i \in 1..(n - 1) : t[i] = seqs[i + 1]
  BY <1>2, <1>3
<1> HIDE DEF t
<1>5. PICK f \in [1..n -> B] : FlattenSeq(seqs) = f[n] /\ Flattens(f, seqs, n)
  BY <1>1, <1>2, <1>3, FlattenDef
<1>6. FlattenSeq(seqs) \in B
  BY <1>5
<1>7. CASE n = 1
  <2>1. t = << >> /\ FlattenSeq(t) = << >>
    BY <1>4, <1>7 DEF FlattenSeq
  <2>2. f[n] = seqs[1]
    BY <1>5, <1>7 DEF Flattens
  <2>3. seqs[1] \o << >> = seqs[1]
    BY <1>2, <1>4
  <2> QED
    BY <1>2, <1>3, <1>5, <1>6, <2>1, <2>2, <2>3 DEF t
<1>8. CASE n > 1
  <2>1. t # << >>
    BY <1>4, <1>8
  <2>2. PICK g \in [1..(n - 1) -> B] : FlattenSeq(t) = g[n - 1] /\ Flattens(g, t, n - 1)
    <3>1. PICK g \in [1..Len(t) -> B] :
             FlattenSeq(t) = g[Len(t)] /\ Flattens(g, t, Len(t))
      BY <1>1, <1>2, <1>4, <2>1, FlattenDef
    <3> QED
      BY <1>4, <3>1
  <2> DEFINE T == {i \in Nat : i + 2 <= n => f[i + 2] = Joined(seqs[1], g[i + 1])}
  <2>3. 0 \in T
    <3>1. f[1] = seqs[1] /\ f[2] = Joined(f[1], seqs[2])
      BY <1>5, <1>8 DEF Flattens
    <3>2. g[1] = t[1]
      BY <1>8, <2>2 DEF Flattens
    <3>3. t[1] = seqs[2]
      BY <1>4, <1>8
    <3> QED
      BY <3>1, <3>2, <3>3
  <2>4. ASSUME NEW i \in Nat, i \in T PROVE i + 1 \in T
    <3>1. ASSUME i + 3 <= n PROVE f[i + 3] = Joined(seqs[1], g[i + 2])
      <4>1. f[i + 3] = Joined(f[i + 2], seqs[i + 3])
        BY <1>5, <3>1 DEF Flattens
      <4>2. g[i + 2] = Joined(g[i + 1], seqs[i + 3])
        BY <1>4, <2>2, <3>1 DEF Flattens
      <4>3. f[i + 2] = Joined(seqs[1], g[i + 1])
        BY <2>4, <3>1
      <4>4. seqs[1] \in B /\ g[i + 1] \in B /\ seqs[i + 3] \in B
        BY <1>4, <2>2, <3>1
      <4>5. Joined(Joined(seqs[1], g[i + 1]), seqs[i + 3])
              = Joined(seqs[1], Joined(g[i + 1], seqs[i + 3]))
        <5>1. \A a, b, c \in B : Joined(Joined(a, b), c) = Joined(a, Joined(b, c))
          BY <1>1, <1>2
        <5> QED
          BY <4>4, <5>1
      <4> QED
        BY <4>1, <4>2, <4>3, <4>5
    <3> QED
      BY <3>1
  <2> HIDE DEF T
  <2>5. \A i \in Nat : i \in T
    BY <2>3, <2>4, Induction
  <2>6. n - 2 \in Nat /\ n - 2 \in T
    BY <1>8, <2>5
  <2>7. f[n] = Joined(seqs[1], g[n - 1])
    BY <2>6, <1>8 DEF T
  <2> QED
    BY <1>2, <1>3, <1>5, <1>6, <2>2, <2>7 DEF Joined, t
<1> QED
  BY <1>7, <1>8

-----------------------------------------------------------------------------
(* What is encoded, and where the bytes of an item stand.                   *)

\* What is encoded, byte by byte.
LEMMA EncodeOfJson ==
    ASSUME NEW item \in Items, item.kind = "json"
    PROVE  /\ item.ok \in BOOLEAN /\ item.ended \in BOOLEAN
           /\ item = Json(item.ok, item.ended)
           /\ Encode(item) \in Seq(Alphabet)
           /\ Len(Encode(item)) \in Nat /\ Len(Encode(item)) \in {2, 3}
           /\ Encode(item)[1] = "brace"
           /\ Encode(item)[2] \in {"o", "x"}
           /\ Encode(item)[2] = "o" <=> item.ok
           /\ item.ended => Len(Encode(item)) = 3 /\ Encode(item)[3] = "nl"
           /\ ~item.ended => Len(Encode(item)) = 2
<1>1. PICK ok \in BOOLEAN, ended \in BOOLEAN : item = Json(ok, ended)
  BY DEF Items, Json, Frame
<1>2. item.ok = ok /\ item.ended = ended /\ item.kind = "json"
  BY <1>1 DEF Json
<1>3. PICK a, b, c \in Alphabet : a = "brace" /\ b = (IF ok THEN "o" ELSE "x") /\ c = "nl"
  BY DEF Alphabet
<1>4. <<a, b>> \in Seq(Alphabet) /\ <<c>> \in Seq(Alphabet)
  OBVIOUS
<1>5. Encode(item) = <<a, b>> \o (IF ended THEN <<c>> ELSE << >>)
  BY <1>2, <1>3 DEF Encode
<1>6. PICK e \in Seq(Alphabet) : /\ e = Encode(item)
                                 /\ Len(e) = IF ended THEN 3 ELSE 2
                                 /\ e[1] = a /\ e[2] = b /\ (ended => e[3] = c)
  <2>1. CASE ended
    <3>1. /\ <<a, b>> \o <<c>> \in Seq(Alphabet)
          /\ Len(<<a, b>> \o <<c>>) = 3
          /\ (<<a, b>> \o <<c>>)[1] = a
          /\ (<<a, b>> \o <<c>>)[2] = b
          /\ (<<a, b>> \o <<c>>)[3] = c
      OBVIOUS
    <3>2. Encode(item) = <<a, b>> \o <<c>>
      BY <1>5, <2>1
    <3> QED
      BY <2>1, <3>1, <3>2
  <2>2. CASE ~ended
    <3>1. Encode(item) = <<a, b>>
      BY <1>4, <1>5, <2>2, ConcatEmptySeq
    <3>2. Len(<<a, b>>) = 2 /\ <<a, b>>[1] = a /\ <<a, b>>[2] = b
      OBVIOUS
    <3> QED
      BY <1>4, <2>2, <3>1, <3>2
  <2> QED
    BY <2>1, <2>2
<1>7. Len(Encode(item)) \in Nat
  BY <1>6
<1> QED
  BY <1>1, <1>2, <1>3, <1>6, <1>7

\* The bytes of a frame: the magic, a version, a size, the body and a checksum.
LEMMA EncodeOfFrame ==
    ASSUME NEW item \in Items, item.kind # "json"
    PROVE  /\ item.kind = "frame"
           /\ item.sum \in {"k", "x"}
           /\ item = Frame(item.body, item.sum)
           /\ item.body \in Seq(Alphabet) /\ Len(item.body) \in {1, 2}
           /\ Encode(item) \in Seq(Alphabet)
           /\ Len(Encode(item)) = 5 + Len(item.body)
           /\ Encode(item)[1] = "A5"
           /\ Encode(item)[2] = "5A"
           /\ Encode(item)[3] = "v"
           /\ Encode(item)[4] = SizeByte(Len(item.body))
           /\ \A i \in 1..Len(item.body) : Encode(item)[4 + i] = item.body[i]
           /\ Encode(item)[5 + Len(item.body)] = item.sum
<1>1. PICK body \in Bodies, sum \in {"k", "x"} : item = Frame(body, sum)
  BY DEF Items, Json, Frame
<1>2. item.body = body /\ item.sum = sum /\ item.kind = "frame"
  BY <1>1 DEF Frame
<1>3. body \in Seq(Alphabet) /\ Len(body) \in {1, 2}
  BY BodiesOfFrames
<1>4. PICK d \in Alphabet : d = SizeByte(Len(body))
  BY DEF Alphabet, SizeByte
<1>5. "A5" \in Alphabet /\ "5A" \in Alphabet /\ "v" \in Alphabet /\ sum \in Alphabet
  BY DEF Alphabet
<1> DEFINE head == <<"A5", "5A", "v", d>>
           front == head \o body
           e == front \o <<sum>>
<1>6. /\ head \in Seq(Alphabet) /\ Len(head) = 4
      /\ head[1] = "A5" /\ head[2] = "5A" /\ head[3] = "v" /\ head[4] = d
  BY <1>5
<1>7. <<sum>> \in Seq(Alphabet) /\ Len(<<sum>>) = 1 /\ <<sum>>[1] = sum
  BY <1>5
<1> HIDE DEF head
<1>8. /\ front \in Seq(Alphabet) /\ Len(front) = 4 + Len(body)
      /\ \A i \in 1..(4 + Len(body)) : front[i] = IF i <= 4 THEN head[i] ELSE body[i - 4]
  <2>1. /\ front \in Seq(Alphabet) /\ Len(front) = Len(head) + Len(body)
        /\ \A i \in 1..(Len(head) + Len(body)) :
              front[i] = IF i <= Len(head) THEN head[i] ELSE body[i - Len(head)]
    BY <1>3, <1>6, ConcatProperties
  <2> QED
    BY <1>3, <1>6, <2>1
<1> HIDE DEF front
<1>9. /\ e \in Seq(Alphabet) /\ Len(e) = 5 + Len(body)
      /\ \A i \in 1..(4 + Len(body)) : e[i] = front[i]
      /\ e[5 + Len(body)] = sum
  BY <1>3, <1>7, <1>8, ConcatProperties
<1>10. Encode(item) = e
  BY <1>2, <1>4 DEF Encode, head, front
<1> HIDE DEF e
<1>11. /\ e[1] = "A5" /\ e[2] = "5A" /\ e[3] = "v" /\ e[4] = d
       /\ \A i \in 1..Len(body) : e[4 + i] = body[i]
  <2>1. \A i \in 1..4 : e[i] = head[i]
    BY <1>3, <1>8, <1>9
  <2>2. \A i \in 1..Len(body) : e[4 + i] = body[i]
    BY <1>3, <1>8, <1>9
  <2>3. 1 \in 1..4 /\ 2 \in 1..4 /\ 3 \in 1..4 /\ 4 \in 1..4
    OBVIOUS
  <2> QED
    BY <1>6, <2>1, <2>2, <2>3, Zenon
<1> QED
  BY <1>1, <1>2, <1>3, <1>4, <1>9, <1>10, <1>11

\* An item is encoded as bytes of the alphabet.
LEMMA EncodeType ==
    ASSUME NEW item \in Items
    PROVE  Encode(item) \in Seq(Alphabet)
BY EncodeOfJson, EncodeOfFrame

\* The bytes of a sequence of items: those of the first one, then of the others.
LEMMA BytesOf ==
    ASSUME NEW s \in Seq(Items)
    PROVE  /\ Bytes(s) \in Seq(Alphabet)
           /\ s = << >> => Bytes(s) = << >>
           /\ s # << >> => Bytes(s) = Encode(s[1]) \o Bytes(Tail(s))
<1> DEFINE E == [i \in DOMAIN s |-> Encode(s[i])]
<1>1. Len(s) \in Nat /\ DOMAIN s = 1..Len(s) /\ \A i \in 1..Len(s) : s[i] \in Items
  OBVIOUS
<1>2. \A i \in 1..Len(s) : Encode(s[i]) \in Seq(Alphabet)
  BY <1>1, EncodeType
<1>3. E \in Seq(Seq(Alphabet)) /\ Len(E) = Len(s) /\ \A i \in 1..Len(s) : E[i] = Encode(s[i])
  BY <1>1, <1>2
<1>4. Bytes(s) = FlattenSeq(E)
  BY DEF Bytes
<1>5. CASE s = << >>
  <2>1. E = << >>
    BY <1>3, <1>5
  <2> QED
    BY <1>4, <1>5, <2>1 DEF FlattenSeq
<1>6. CASE s # << >>
  <2>1. E # << >> /\ Len(s) > 0
    BY <1>1, <1>3, <1>6
  <2> DEFINE t == Tail(s)
             F == [i \in DOMAIN t |-> Encode(t[i])]
  <2>2. t \in Seq(Items) /\ Len(t) = Len(s) - 1 /\ DOMAIN t = 1..(Len(s) - 1)
        /\ \A i \in 1..(Len(s) - 1) : t[i] = s[i + 1]
    BY <1>1, <2>1
  <2>3. Tail(E) \in Seq(Seq(Alphabet)) /\ Len(Tail(E)) = Len(s) - 1
        /\ \A i \in 1..(Len(s) - 1) : Tail(E)[i] = E[i + 1]
    BY <1>1, <1>3, <2>1
  <2>9. \A i \in 1..(Len(s) - 1) : t[i] = s[i + 1] /\ Encode(t[i]) \in Seq(Alphabet)
    BY <1>1, <1>2, <2>1, <2>2
  <2> HIDE DEF t
  <2>4. F \in Seq(Seq(Alphabet)) /\ Len(F) = Len(s) - 1
        /\ \A i \in 1..(Len(s) - 1) : F[i] = Encode(s[i + 1])
    BY <1>1, <2>1, <2>2, <2>9
  <2> HIDE DEF E, F
  <2>5. Tail(E) = F
    <3>1. ASSUME NEW i \in 1..(Len(s) - 1) PROVE Tail(E)[i] = F[i]
      <4>1. i + 1 \in 1..Len(s)
        BY <1>1, <2>1
      <4>2. E[i + 1] = Encode(s[i + 1])
        BY <1>3, <4>1, Zenon
      <4> QED
        BY <2>3, <2>4, <4>2, Zenon
    <3> QED
      BY <1>1, <2>1, <2>3, <2>4, <3>1, SeqEqual
  <2>6. Bytes(t) = FlattenSeq(F)
    BY DEF Bytes, F
  <2>7. FlattenSeq(E) = E[1] \o FlattenSeq(Tail(E)) /\ FlattenSeq(E) \in Seq(Alphabet)
    BY <1>3, <2>1, FlattenFirst
  <2>8. E[1] = Encode(s[1])
    BY <1>1, <1>3, <2>1
  <2> QED
    BY <1>4, <1>6, <2>5, <2>6, <2>7, <2>8 DEF t
<1> QED
  BY <1>5, <1>6

\* An item has two bytes at least.
LEMMA EncodeLength ==
    ASSUME NEW item \in Items
    PROVE  Encode(item) \in Seq(Alphabet) /\ Len(Encode(item)) >= 2
<1>1. CASE item.kind = "json"
  <2>1. Encode(item) \in Seq(Alphabet) /\ Len(Encode(item)) \in {2, 3}
    BY <1>1, EncodeOfJson, Zenon
  <2> QED
    BY <2>1
<1>2. CASE item.kind # "json"
  BY <1>2, EncodeOfFrame
<1> QED
  BY <1>1, <1>2

\* The bytes of the items from the i-th on.
From(s, i) == Bytes(SubSeq(s, i, Len(s)))

\* What is sent from an item on begins with that item.
LEMMA FromOf ==
    ASSUME NEW s \in Seq(Items)
    PROVE  /\ From(s, Len(s) + 1) = << >>
           /\ \A i \in 1..(Len(s) + 1) : From(s, i) \in Seq(Alphabet)
           /\ \A i \in 1..Len(s) :
                 /\ s[i] \in Items
                 /\ From(s, i) = Encode(s[i]) \o From(s, i + 1)
           /\ From(s, 1) = Bytes(s)
<1>1. Len(s) \in Nat /\ \A i \in 1..Len(s) : s[i] \in Items
  OBVIOUS
<1>2. \A i \in 1..(Len(s) + 1) :
         /\ SubSeq(s, i, Len(s)) \in Seq(Items)
         /\ Len(SubSeq(s, i, Len(s))) = Len(s) + 1 - i
         /\ \A j \in 1..(Len(s) + 1 - i) : SubSeq(s, i, Len(s))[j] = s[i + j - 1]
  BY <1>1, SubSeqProperties
<1>3. SubSeq(s, Len(s) + 1, Len(s)) = << >>
  BY <1>1, <1>2
<1>4. ASSUME NEW i \in 1..Len(s)
      PROVE  From(s, i) = Encode(s[i]) \o From(s, i + 1)
  <2> DEFINE t == SubSeq(s, i, Len(s))
             u == SubSeq(s, i + 1, Len(s))
  <2>1. /\ t \in Seq(Items) /\ Len(t) = Len(s) + 1 - i
        /\ \A j \in 1..(Len(s) + 1 - i) : t[j] = s[i + j - 1]
        /\ u \in Seq(Items) /\ Len(u) = Len(s) - i
        /\ \A j \in 1..(Len(s) - i) : u[j] = s[i + j]
    BY <1>1, <1>2
  <2> HIDE DEF t, u
  <2>2. t # << >> /\ t[1] = s[i]
    BY <1>1, <2>1
  <2>3. Tail(t) \in Seq(Items) /\ Len(Tail(t)) = Len(s) - i
        /\ \A j \in 1..(Len(s) - i) : Tail(t)[j] = t[j + 1]
    BY <1>1, <2>1, <2>2
  <2>4. ASSUME NEW j \in 1..(Len(s) - i) PROVE Tail(t)[j] = u[j]
    <3>1. j + 1 \in 1..(Len(s) + 1 - i) /\ i + (j + 1) - 1 = i + j
      BY <1>1
    <3>2. Tail(t)[j] = t[j + 1] /\ t[j + 1] = s[i + (j + 1) - 1] /\ u[j] = s[i + j]
      BY <2>1, <2>3, <3>1
    <3> QED
      BY <3>1, <3>2
  <2>5. Tail(t) = u
    BY <2>1, <2>3, <2>4, SeqEqual
  <2>6. Bytes(t) = Encode(t[1]) \o Bytes(Tail(t))
    BY <2>1, <2>2, BytesOf
  <2> QED
    BY <2>2, <2>5, <2>6 DEF From, t, u
<1>5. SubSeq(s, 1, Len(s)) = s
  BY <1>1
<1> QED
  <2>1. From(s, Len(s) + 1) = << >>
    <3>1. << >> \in Seq(Items)
      OBVIOUS
    <3>2. Bytes(<< >>) = << >>
      BY <3>1, BytesOf
    <3> QED
      BY <1>3, <3>2, Zenon DEF From
  <2>2. \A i \in 1..(Len(s) + 1) : From(s, i) \in Seq(Alphabet)
    BY <1>2, BytesOf DEF From
  <2>3. From(s, 1) = Bytes(s)
    BY <1>5 DEF From
  <2> QED
    BY <1>1, <1>4, <2>1, <2>2, <2>3

\* The same byte by byte, with what is known of the item's own bytes.
LEMMA FromNext ==
    ASSUME NEW s \in Seq(Items), NEW i \in 1..Len(s)
    PROVE  LET e == Encode(s[i]) IN
           /\ s[i] \in Items
           /\ e \in Seq(Alphabet) /\ Len(e) \in Nat /\ Len(e) >= 2
           /\ From(s, i) \in Seq(Alphabet) /\ From(s, i + 1) \in Seq(Alphabet)
           /\ Len(From(s, i)) \in Nat /\ Len(From(s, i + 1)) \in Nat
           /\ Len(From(s, i)) = Len(e) + Len(From(s, i + 1))
           /\ \A p \in 1..Len(e) : From(s, i)[p] = e[p]
           /\ \A p \in 1..Len(From(s, i + 1)) : From(s, i)[Len(e) + p] = From(s, i + 1)[p]
<1> DEFINE e == Encode(s[i])
           f == From(s, i)
           g == From(s, i + 1)
<1>1. Len(s) \in Nat /\ i + 1 \in 1..(Len(s) + 1) /\ i \in 1..(Len(s) + 1)
  OBVIOUS
<1>2. s[i] \in Items /\ f \in Seq(Alphabet) /\ g \in Seq(Alphabet) /\ f = e \o g
  BY <1>1, FromOf
<1>3. e \in Seq(Alphabet) /\ Len(e) >= 2
  BY <1>2, EncodeLength
<1> HIDE DEF e, f, g
<1>4. Len(e) \in Nat /\ Len(f) \in Nat /\ Len(g) \in Nat
  BY <1>2, <1>3
<1>5. /\ Len(f) = Len(e) + Len(g)
      /\ \A p \in 1..(Len(e) + Len(g)) : f[p] = IF p <= Len(e) THEN e[p] ELSE g[p - Len(e)]
  BY <1>2, <1>3, ConcatProperties
<1>6. \A p \in 1..Len(e) : f[p] = e[p]
  BY <1>4, <1>5
<1>7. \A p \in 1..Len(g) : f[Len(e) + p] = g[p]
  BY <1>4, <1>5
<1> QED
  BY <1>2, <1>3, <1>4, <1>5, <1>6, <1>7 DEF e, f, g

\* The bytes from a later item on are the end of those from an earlier one on.
LEMMA FromLater ==
    ASSUME NEW s \in Seq(Items), NEW j \in 1..(Len(s) + 1), NEW i \in 1..j
    PROVE  /\ Len(From(s, i)) \in Nat /\ Len(From(s, j)) \in Nat
           /\ Len(From(s, j)) <= Len(From(s, i))
           /\ i < j => Len(From(s, j)) < Len(From(s, i))
           /\ \A p \in 1..Len(From(s, j)) :
                 From(s, i)[Len(From(s, i)) - Len(From(s, j)) + p] = From(s, j)[p]
<1> DEFINE n == Len(From(s, j))
           P(k) == /\ Len(From(s, k)) \in Nat
                   /\ n <= Len(From(s, k))
                   /\ k < j => n < Len(From(s, k))
                   /\ \A p \in 1..n : From(s, k)[Len(From(s, k)) - n + p] = From(s, j)[p]
           T == {d \in Nat : d < j => P(j - d)}
<1>1. Len(s) \in Nat /\ n \in Nat
  BY FromOf
<1>2. 0 \in T
  BY <1>1
<1>3. ASSUME NEW d \in Nat, d \in T PROVE d + 1 \in T
  <2>1. ASSUME d + 1 < j PROVE P(j - (d + 1))
    <3> DEFINE k == j - (d + 1)
    <3>1. k \in 1..Len(s) /\ k + 1 = j - d /\ d < j
      BY <1>1, <2>1
    <3>2. P(k + 1)
      BY <1>3, <3>1
    <3>3. PICK m \in Nat : m >= 2 /\ Len(From(s, k)) = m + Len(From(s, k + 1))
             /\ \A p \in 1..Len(From(s, k + 1)) : From(s, k)[m + p] = From(s, k + 1)[p]
      BY <3>1, FromNext
    <3> HIDE DEF k, n
    <3>4. Len(From(s, k)) \in Nat /\ n < Len(From(s, k))
      BY <1>1, <3>2, <3>3
    <3>5. ASSUME NEW p \in 1..n PROVE From(s, k)[Len(From(s, k)) - n + p] = From(s, j)[p]
      <4> DEFINE q == Len(From(s, k + 1)) - n + p
      <4>1. q \in 1..Len(From(s, k + 1)) /\ From(s, k + 1)[q] = From(s, j)[p]
        BY <1>1, <3>2
      <4>2. m + q = Len(From(s, k)) - n + p
        BY <1>1, <3>2, <3>3
      <4> QED
        BY <3>3, <4>1, <4>2
    <3>6. P(k)
      BY <1>1, <3>4, <3>5
    <3> HIDE DEF P
    <3> QED
      BY <3>6 DEF k
  <2> HIDE DEF P
  <2> QED
    BY <2>1
<1> HIDE DEF T
<1>4. \A d \in Nat : d \in T
  BY <1>2, <1>3, Induction
<1>5. j - i \in Nat /\ j - i \in T /\ j - i < j /\ j - (j - i) = i
  BY <1>1, <1>4
<1>6. P(i)
  <2> HIDE DEF P
  <2> QED
    BY <1>5 DEF T
<1> QED
  BY <1>1, <1>6

HasNewline(item) == item.kind = "json" /\ item.ended

\* Where a newline stands first in the bytes of an item: only at the end of a line.
LEMMA NewlineOf ==
    ASSUME NEW item \in Items, Plain(item)
    PROVE  /\ HasNewline(item) => /\ Len(Encode(item)) = 3 /\ Encode(item)[3] = "nl"
                            /\ Encode(item)[1] # "nl" /\ Encode(item)[2] # "nl"
           /\ ~HasNewline(item) => \A p \in 1..Len(Encode(item)) : Encode(item)[p] # "nl"
<1> DEFINE e == Encode(item)
<1>1. CASE item.kind = "json"
  <2>1. /\ e[1] = "brace" /\ e[2] \in {"o", "x"} /\ Len(e) \in Nat /\ Len(e) \in {2, 3}
        /\ HasNewline(item) => Len(e) = 3 /\ e[3] = "nl"
        /\ ~HasNewline(item) => Len(e) = 2
    BY <1>1, EncodeOfJson, Zenon DEF HasNewline
  <2>2. CASE HasNewline(item)
    BY <2>1, <2>2
  <2>3. CASE ~HasNewline(item)
    <3>1. ASSUME NEW p \in 1..2 PROVE e[p] # "nl"
      <4>1. p = 1 \/ p = 2
        OBVIOUS
      <4> QED
        BY <2>1, <4>1
    <3> QED
      BY <2>1, <2>3, <3>1
  <2> QED
    BY <2>2, <2>3
<1>2. CASE item.kind # "json"
  <2>1. /\ item.kind = "frame" /\ item.sum \in {"k", "x"} /\ item.body \in Seq(Alphabet)
        /\ Len(item.body) \in {1, 2} /\ Len(e) = 5 + Len(item.body)
        /\ e[1] = "A5" /\ e[2] = "5A" /\ e[3] = "v" /\ e[4] = SizeByte(Len(item.body))
        /\ \A i \in 1..Len(item.body) : e[4 + i] = item.body[i]
        /\ e[5 + Len(item.body)] = item.sum
    BY <1>2, EncodeOfFrame
  <2>2. \A i \in 1..Len(item.body) : item.body[i] # "nl"
    <3>1. DOMAIN item.body = 1..Len(item.body)
      BY <2>1
    <3>2. \A i \in DOMAIN item.body : item.body[i] \notin {"brace", "A5", "nl"}
      BY <2>1, Zenon DEF Plain
    <3> QED
      BY <3>1, <3>2
  <2>3. SizeByte(Len(item.body)) \in {"n1", "n2"}
    BY DEF SizeByte
  <2>4. PICK n \in {1, 2} : n = Len(item.body)
    BY <2>1
  <2> HIDE DEF e
  <2>5. e[4] # "nl" /\ e[5 + n] # "nl" /\ \A i \in 1..n : e[4 + i] # "nl"
    BY <2>1, <2>2, <2>3, <2>4
  <2>6. ASSUME NEW p \in 1..(5 + n) PROVE e[p] # "nl"
    <3>1. p \in {1, 2, 3, 4} \/ p = 5 + n \/ (p - 4 \in 1..n /\ p = 4 + (p - 4))
      OBVIOUS
    <3> QED
      BY <2>1, <2>5, <3>1
  <2> QED
    BY <1>2, <2>1, <2>4, <2>6 DEF HasNewline, e
<1> QED
  BY <1>1, <1>2

\* Where an object begins in the bytes of an item: at the start of a line that decodes.
LEMMA ObjectOf ==
    ASSUME NEW item \in Items, Plain(item)
    PROVE  \A p \in 1..Len(Encode(item)) :
              Encode(item)[p] = "brace" <=> item.kind = "json" /\ p = 1
<1> DEFINE e == Encode(item)
<1>1. CASE item.kind = "json"
  <2>1. /\ e[1] = "brace" /\ e[2] \in {"o", "x"} /\ Len(e) \in Nat /\ Len(e) \in {2, 3}
        /\ HasNewline(item) => Len(e) = 3 /\ e[3] = "nl"
        /\ ~HasNewline(item) => Len(e) = 2
    BY <1>1, EncodeOfJson, Zenon DEF HasNewline
  <2>2. PICK n \in Nat : n = Len(e)
    BY <2>1
  <2>3. ASSUME NEW p \in 1..n PROVE e[p] = "brace" <=> p = 1
    <3>1. p = 1 \/ p = 2 \/ (p = 3 /\ n = 3)
      BY <2>1, <2>2
    <3>2. n = 3 => e[3] = "nl"
      BY <2>1, <2>2
    <3> QED
      BY <2>1, <3>1, <3>2
  <2> QED
    BY <1>1, <2>2, <2>3
<1>2. CASE item.kind # "json"
  <2>1. /\ item.kind = "frame" /\ item.sum \in {"k", "x"} /\ item.body \in Seq(Alphabet)
        /\ Len(item.body) \in {1, 2} /\ Len(e) = 5 + Len(item.body)
        /\ e[1] = "A5" /\ e[2] = "5A" /\ e[3] = "v" /\ e[4] = SizeByte(Len(item.body))
        /\ \A i \in 1..Len(item.body) : e[4 + i] = item.body[i]
        /\ e[5 + Len(item.body)] = item.sum
    BY <1>2, EncodeOfFrame
  <2>2. \A i \in 1..Len(item.body) : item.body[i] # "brace"
    <3>1. DOMAIN item.body = 1..Len(item.body)
      BY <2>1
    <3>2. \A i \in DOMAIN item.body : item.body[i] \notin {"brace", "A5", "nl"}
      BY <2>1, Zenon DEF Plain
    <3> QED
      BY <3>1, <3>2
  <2>3. SizeByte(Len(item.body)) \in {"n1", "n2"}
    BY DEF SizeByte
  <2>4. PICK n \in {1, 2} : n = Len(item.body)
    BY <2>1
  <2> HIDE DEF e
  <2>5. e[4] # "brace" /\ e[5 + n] # "brace" /\ \A i \in 1..n : e[4 + i] # "brace"
    BY <2>1, <2>2, <2>3, <2>4
  <2>6. ASSUME NEW p \in 1..(5 + n) PROVE e[p] # "brace"
    <3>1. p \in {1, 2, 3, 4} \/ p = 5 + n \/ (p - 4 \in 1..n /\ p = 4 + (p - 4))
      OBVIOUS
    <3> QED
      BY <2>1, <2>5, <3>1
  <2> QED
    BY <1>2, <2>1, <2>4, <2>6 DEF e
<1> QED
  BY <1>1, <1>2

HasObjectUpTo(f, end) == \E p \in 1..(end - 1) : f[p] = "brace" /\ f[p + 1] = "o"
FirstNewline(f, end) == f[end] = "nl" /\ \A p \in 1..(end - 1) : f[p] # "nl"
Decodes(item) == item.kind = "json" /\ item.ok

\* No frame looks like anything else, up to the item that ends the line.
PlainLine(s, k) ==
    \A j \in k..Len(s) : Plain(s[j]) \/ \E h \in k..(j - 1) : HasNewline(s[h])

\* The items of which a line is made, when it ends with the e-th.
LineIs(s, k, end, e) ==
    /\ HasNewline(s[e]) /\ \A j \in k..(e - 1) : ~HasNewline(s[j])
    /\ end = Len(From(s, k)) - Len(From(s, e + 1))
    /\ HasObjectUpTo(From(s, k), end) <=> \E j \in k..e : Decodes(s[j])

\* An item that ends the line is the whole of it.
LEMMA LineEndsHere ==
    ASSUME NEW s \in Seq(Items), NEW k \in 1..Len(s), Plain(s[k]), HasNewline(s[k]),
           NEW end \in 1..Len(From(s, k)), FirstNewline(From(s, k), end)
    PROVE  LineIs(s, k, end, k)
<1> DEFINE f == From(s, k)
           e == Encode(s[k])
<1>1. /\ s[k] \in Items /\ Len(f) \in Nat /\ Len(From(s, k + 1)) \in Nat
      /\ Len(f) = Len(e) + Len(From(s, k + 1))
      /\ \A p \in 1..Len(e) : f[p] = e[p]
  BY FromNext
<1>2. s[k].kind = "json"
  BY DEF HasNewline
<1>3. /\ e[1] = "brace" /\ e[2] \in {"o", "x"} /\ (e[2] = "o" <=> Decodes(s[k]))
      /\ Len(e) = 3 /\ e[3] = "nl"
  BY <1>1, <1>2, EncodeOfJson, Zenon DEF HasNewline, Decodes
<1> HIDE DEF f, e
<1>4. f[1] = "brace" /\ f[2] \in {"o", "x"} /\ f[3] = "nl" /\ (f[2] = "o" <=> Decodes(s[k]))
      /\ Len(f) = 3 + Len(From(s, k + 1))
  <2>1. f[1] = e[1] /\ f[2] = e[2] /\ f[3] = e[3]
    BY <1>1, <1>3
  <2> QED
    BY <1>1, <1>3, <2>1
<1>5. FirstNewline(f, end) /\ end \in 1..Len(f)
  BY DEF f
<1>6. end = 3
  <2>1. end # 1 /\ end # 2
    BY <1>4, <1>5 DEF FirstNewline
  <2>2. ~(3 < end)
    BY <1>1, <1>4, <1>5 DEF FirstNewline
  <2> QED
    BY <1>1, <1>5, <2>1, <2>2
<1>7. HasObjectUpTo(f, 3) <=> Decodes(s[k])
  <2>1. HasObjectUpTo(f, 3) <=> \E p \in 1..2 : f[p] = "brace" /\ f[p + 1] = "o"
    BY DEF HasObjectUpTo
  <2>2. \A p \in 1..2 : f[p] = "brace" <=> p = 1
    BY <1>4
  <2>3. (\E p \in 1..2 : f[p] = "brace" /\ f[p + 1] = "o") <=> f[1] = "brace" /\ f[2] = "o"
    BY <2>2
  <2> QED
    BY <1>4, <2>1, <2>3
<1>8. k \in Int /\ k..(k - 1) = {} /\ k..k = {k}
  OBVIOUS
<1> QED
  <2>1. end = Len(f) - Len(From(s, k + 1))
    <3>1. PICK m \in Nat : m = Len(From(s, k + 1))
      BY <1>1
    <3>2. Len(f) - m = 3
      <4>1. Len(f) = 3 + Len(From(s, k + 1))
        BY <1>4, Zenon
      <4> QED
        BY <3>1, <4>1
    <3> QED
      BY <1>6, <3>1, <3>2
  <2>2. \A j \in k..(k - 1) : ~HasNewline(s[j])
    BY <1>8
  <2>3. HasObjectUpTo(f, end) <=> \E j \in k..k : Decodes(s[j])
    BY <1>6, <1>7, <1>8
  <2> QED
    BY <2>1, <2>2, <2>3 DEF LineIs, f

\* An item that does not is at the start of a line that goes on.
LEMMA LineGoesOn ==
    ASSUME NEW s \in Seq(Items), NEW k \in 1..Len(s), Plain(s[k]), ~HasNewline(s[k]),
           NEW end \in 1..Len(From(s, k)), FirstNewline(From(s, k), end)
    PROVE  \E d \in Nat :
              /\ d < end /\ end - d <= Len(From(s, k + 1))
              /\ FirstNewline(From(s, k + 1), end - d)
              /\ \A e \in (k + 1)..Len(s) : LineIs(s, k + 1, end - d, e) => LineIs(s, k, end, e)
<1> DEFINE f == From(s, k)
           g == From(s, k + 1)
           b == Encode(s[k])
<1>1. /\ s[k] \in Items /\ Len(f) \in Nat /\ Len(g) \in Nat /\ Len(b) \in Nat /\ Len(b) >= 2
      /\ Len(f) = Len(b) + Len(g)
      /\ \A p \in 1..Len(b) : f[p] = b[p]
      /\ \A p \in 1..Len(g) : f[Len(b) + p] = g[p]
  BY FromNext
<1>2. \A p \in 1..Len(b) : b[p] # "nl"
  BY <1>1, NewlineOf
<1>3. \A p \in 1..Len(b) : b[p] = "brace" <=> s[k].kind = "json" /\ p = 1
  BY <1>1, ObjectOf
<1>4. s[k].kind = "json" => (b[2] = "o" <=> Decodes(s[k]))
  BY <1>1, EncodeOfJson, Zenon DEF Decodes
<1>5. FirstNewline(f, end) /\ end \in 1..Len(f)
  OBVIOUS
<1> HIDE DEF f, g, b
<1>6. PICK d \in Nat : d = Len(b)
  BY <1>1
<1>7. /\ d >= 2 /\ \A p \in 1..d : f[p] = b[p]
      /\ \A p \in 1..Len(g) : f[d + p] = g[p]
      /\ Len(f) = d + Len(g)
  BY <1>1, <1>6
<1>8. d < end
  <2> SUFFICES ASSUME end <= d PROVE FALSE
    BY <1>5, <1>6
  <2>1. end \in 1..d /\ end \in 1..Len(b)
    BY <1>5, <1>6
  <2>2. f[end] = b[end] /\ b[end] # "nl"
    BY <1>2, <1>7, <2>1
  <2> QED
    BY <1>5, <2>2, Zenon DEF FirstNewline
<1>9. end - d \in 1..Len(g)
  BY <1>1, <1>5, <1>7, <1>8
<1>10. FirstNewline(g, end - d)
  <2>1. g[end - d] = "nl"
    BY <1>5, <1>7, <1>8, <1>9 DEF FirstNewline
  <2>2. ASSUME NEW p \in 1..(end - d - 1) PROVE g[p] # "nl"
    <3>1. d + p \in 1..(end - 1) /\ p \in 1..Len(g)
      BY <1>1, <1>5, <1>7, <1>8, <1>9
    <3> QED
      BY <1>5, <1>7, <3>1 DEF FirstNewline
  <2> QED
    BY <2>1, <2>2 DEF FirstNewline
<1>11. HasObjectUpTo(f, end) <=> Decodes(s[k]) \/ HasObjectUpTo(g, end - d)
  <2>1. ASSUME NEW p \in 1..(end - 1), f[p] = "brace", f[p + 1] = "o"
        PROVE  Decodes(s[k]) \/ HasObjectUpTo(g, end - d)
    <3>1. CASE p < d
      <4>1. p \in 1..d /\ p + 1 \in 1..d
        BY <1>5, <3>1
      <4>2. p = 1 /\ s[k].kind = "json"
        BY <1>3, <1>6, <1>7, <2>1, <4>1
      <4>3. b[2] = "o"
        BY <1>6, <1>7, <2>1, <4>1, <4>2
      <4> QED
        BY <1>4, <4>2, <4>3
    <3>2. CASE p = d
      <4>1. p \in 1..d /\ p # 1
        BY <1>7, <3>2
      <4> QED
        BY <1>3, <1>6, <1>7, <2>1, <4>1
    <3>3. CASE p > d
      <4>1. p - d \in 1..(end - d - 1) /\ p - d \in 1..Len(g) /\ p + 1 - d \in 1..Len(g)
            /\ d + (p - d) = p /\ d + (p + 1 - d) = p + 1 /\ p + 1 - d = (p - d) + 1
        BY <1>1, <1>5, <1>8, <1>9, <3>3
      <4>2. g[p - d] = "brace" /\ g[(p - d) + 1] = "o"
        BY <1>7, <2>1, <4>1
      <4> QED
        BY <4>1, <4>2 DEF HasObjectUpTo
    <3> QED
      BY <1>1, <1>5, <3>1, <3>2, <3>3
  <2>2. ASSUME Decodes(s[k]) PROVE HasObjectUpTo(f, end)
    <3>1. s[k].kind = "json" /\ b[2] = "o"
      BY <1>4, <2>2 DEF Decodes
    <3>2. 1 \in 1..d /\ 2 \in 1..d /\ 1 \in 1..(end - 1)
      BY <1>5, <1>7, <1>8
    <3>3. f[1] = "brace" /\ f[1 + 1] = "o"
      BY <1>3, <1>6, <1>7, <3>1, <3>2
    <3> QED
      BY <3>2, <3>3 DEF HasObjectUpTo
  <2>3. ASSUME NEW p \in 1..(end - d - 1), g[p] = "brace", g[p + 1] = "o"
        PROVE  HasObjectUpTo(f, end)
    <3>1. p \in 1..Len(g) /\ p + 1 \in 1..Len(g) /\ d + p \in 1..(end - 1)
          /\ d + (p + 1) = (d + p) + 1
      BY <1>1, <1>5, <1>8, <1>9
    <3>2. f[d + p] = "brace" /\ f[(d + p) + 1] = "o"
      BY <1>7, <2>3, <3>1
    <3> QED
      BY <3>1, <3>2 DEF HasObjectUpTo
  <2> QED
    BY <2>1, <2>2, <2>3 DEF HasObjectUpTo
<1>12. ASSUME NEW e \in (k + 1)..Len(s), LineIs(s, k + 1, end - d, e)
       PROVE  LineIs(s, k, end, e)
  <2>1. HasNewline(s[e]) /\ \A j \in k..(e - 1) : ~HasNewline(s[j])
    <3>1. \A j \in k..(e - 1) : j = k \/ j \in (k + 1)..(e - 1)
      OBVIOUS
    <3> QED
      BY <1>12, <3>1 DEF LineIs
  <2>2. end = Len(f) - Len(From(s, e + 1))
    <3>1. end - d = Len(g) - Len(From(s, e + 1))
      BY <1>12 DEF LineIs, g
    <3>2. PICK m \in Nat : m = Len(From(s, e + 1))
      <4>1. e \in 1..Len(s)
        OBVIOUS
      <4>2. Len(From(s, e + 1)) \in Nat
        BY <4>1, FromNext
      <4> QED
        BY <4>2
    <3>3. end - d = Len(g) - m
      BY <3>1, <3>2
    <3>4. end = Len(f) - m
      BY <1>1, <1>5, <1>7, <3>3
    <3> QED
      BY <3>2, <3>4
  <2>3. HasObjectUpTo(f, end) <=> \E j \in k..e : Decodes(s[j])
    <3>1. HasObjectUpTo(g, end - d) <=> \E j \in (k + 1)..e : Decodes(s[j])
      BY <1>12 DEF LineIs, g
    <3>2. \A j \in k..e : j = k \/ j \in (k + 1)..e
      OBVIOUS
    <3>3. k \in k..e /\ \A j \in (k + 1)..e : j \in k..e
      OBVIOUS
    <3> QED
      BY <1>11, <3>1, <3>2, <3>3
  <2> QED
    BY <2>1, <2>2, <2>3 DEF LineIs, f
<1> QED
  BY <1>1, <1>8, <1>9, <1>10, <1>12 DEF g

\* The line that the first newline ends consists of the items up to the first that
\* ends a line, and holds an object if one of them does.
LEMMA LineOf ==
    ASSUME NEW s \in Seq(Items), NEW k \in 1..(Len(s) + 1), PlainLine(s, k),
           NEW end \in 1..Len(From(s, k)), FirstNewline(From(s, k), end)
    PROVE  \E e \in k..Len(s) : LineIs(s, k, end, e)
<1> DEFINE P(i) == PlainLine(s, i) =>
                      \A z \in 1..Len(From(s, i)) :
                         FirstNewline(From(s, i), z) => \E e \in i..Len(s) : LineIs(s, i, z, e)
           T == {d \in Nat : d <= Len(s) => P(Len(s) + 1 - d)}
<1>1. Len(s) \in Nat
  OBVIOUS
<1>2. 0 \in T
  <2>1. Len(From(s, Len(s) + 1)) = 0
    BY FromOf
  <2>2. P(Len(s) + 1)
    BY <2>1
  <2> HIDE DEF P
  <2> QED
    BY <1>1, <2>2
<1>3. ASSUME NEW d \in Nat, d \in T PROVE d + 1 \in T
  <2>1. ASSUME d + 1 <= Len(s) PROVE P(Len(s) + 1 - (d + 1))
    <3>1. PICK i \in 1..Len(s) : i = Len(s) + 1 - (d + 1)
      BY <1>1, <2>1
    <3>2. P(i + 1)
      <4>1. d <= Len(s) /\ i + 1 = Len(s) + 1 - d
        BY <1>1, <2>1, <3>1
      <4> HIDE DEF P
      <4> QED
        BY <1>3, <4>1
    <3>3. ASSUME PlainLine(s, i), NEW z \in 1..Len(From(s, i)), FirstNewline(From(s, i), z)
          PROVE  \E e \in i..Len(s) : LineIs(s, i, z, e)
      <4>1. i \in i..Len(s) /\ i..(i - 1) = {}
        BY <1>1
      <4>2. Plain(s[i])
        BY <3>3, <4>1 DEF PlainLine
      <4>3. CASE HasNewline(s[i])
        BY <3>3, <4>1, <4>2, <4>3, LineEndsHere
      <4>4. CASE ~HasNewline(s[i])
        <5>1. PICK b \in Nat :
                 /\ b < z /\ z - b <= Len(From(s, i + 1))
                 /\ FirstNewline(From(s, i + 1), z - b)
                 /\ \A e \in (i + 1)..Len(s) : LineIs(s, i + 1, z - b, e) => LineIs(s, i, z, e)
          BY <3>3, <4>2, <4>4, LineGoesOn
        <5>2. z - b \in 1..Len(From(s, i + 1))
          <6>1. Len(From(s, i)) \in Nat /\ Len(From(s, i + 1)) \in Nat
            BY FromNext
          <6> QED
            BY <5>1, <6>1
        <5>3. PlainLine(s, i + 1)
          <6> SUFFICES ASSUME NEW j \in (i + 1)..Len(s)
                       PROVE  Plain(s[j]) \/ \E h \in (i + 1)..(j - 1) : HasNewline(s[h])
            BY DEF PlainLine
          <6>1. j \in i..Len(s)
            OBVIOUS
          <6>2. CASE Plain(s[j])
            BY <6>2
          <6>3. CASE \E h \in i..(j - 1) : HasNewline(s[h])
            <7>1. PICK h \in i..(j - 1) : HasNewline(s[h])
              BY <6>3
            <7>2. h # i
              BY <4>4, <7>1
            <7>3. h \in (i + 1)..(j - 1)
              BY <7>2
            <7> QED
              BY <7>1, <7>3
          <6> QED
            BY <3>3, <6>1, <6>2, <6>3 DEF PlainLine
        <5>4. PICK e \in (i + 1)..Len(s) : LineIs(s, i + 1, z - b, e)
          BY <3>2, <5>1, <5>2, <5>3
        <5>5. e \in i..Len(s)
          OBVIOUS
        <5> QED
          BY <5>1, <5>4, <5>5
      <4> QED
        BY <4>3, <4>4
    <3>4. P(i)
      BY <3>3
    <3> HIDE DEF P
    <3> QED
      BY <3>1, <3>4
  <2> HIDE DEF P
  <2> QED
    BY <2>1
<1> HIDE DEF T
<1>4. \A d \in Nat : d \in T
  BY <1>2, <1>3, Induction
<1>5. PICK d \in Nat : d <= Len(s) /\ k = Len(s) + 1 - d
  <2>1. Len(s) + 1 - k \in Nat /\ Len(s) + 1 - k <= Len(s) /\ k = Len(s) + 1 - (Len(s) + 1 - k)
    BY <1>1
  <2> QED
    BY <2>1
<1>6. P(k)
  <2> HIDE DEF P
  <2> QED
    BY <1>4, <1>5 DEF T
<1> QED
  BY <1>6

-----------------------------------------------------------------------------
(* The invariant of the parser.                                             *)

Line == From(sent, 1)
Left == Len(buf) + Len(unread)

\* The buffer and what is unread are the end of what was sent.
Follows ==
    /\ Left <= Len(Line)
    /\ \A p \in 1..Len(buf) : buf[p] = Line[Len(Line) - Left + p]
    /\ \A p \in 1..Len(unread) : unread[p] = Line[Len(Line) - Len(unread) + p]

Parsed == {JsonLine} \cup {Frame(b, "k") : b \in Seq(Alphabet)}

ParserTypes ==
    /\ sent \in Seq(Items) /\ buf \in Seq(Alphabet) /\ unread \in Seq(Alphabet)
    /\ parsing \in BOOLEAN
    /\ items \in Seq(Parsed)
    /\ split \subseteq DOMAIN sent
    /\ \A i \in split : sent[i].kind = "frame"
    /\ Follows

AllPlain == \A i \in DOMAIN sent : Plain(sent[i])

\* What was sent before the k-th item has been dealt with, but for some bytes in which
\* nothing begins; what was split from there on was split just now.
At(k) ==
    /\ ~Swallowed(k)
    /\ Len(From(sent, k)) <= Left
    /\ \A p \in 1..(Left - Len(From(sent, k))) :
          Line[Len(Line) - Left + p] \notin {"brace", "A5"}
    /\ Damaged = {} => Left = Len(From(sent, k))
    /\ ComesFrom({i \in 1..(k - 1) : Survives(i)})
    /\ \A i \in 1..(k - 1) : Left < Len(From(sent, i))
    /\ \A i \in split : i >= k /\ ~Swallowed(i) =>
                          parsing /\ Len(unread) = Len(From(sent, i)) - 1

ParserInv ==
    /\ ParserTypes
    /\ ~parsing => Incomplete
    /\ SplitAt(Len(unread)) \subseteq split
    /\ AllPlain \/ Damaged = {} => \E k \in 1..(Len(sent) + 1) : At(k)

\* What the buffer holds: first the bytes in which nothing begins, then the item.
LEMMA BufferOf ==
    ASSUME ParserTypes, NEW k \in 1..(Len(sent) + 1), At(k)
    PROVE  \E r \in Nat :
              /\ Len(buf) \in Nat /\ Len(unread) \in Nat /\ Len(From(sent, k)) \in Nat
              /\ r = Len(buf) + Len(unread) - Len(From(sent, k))
              /\ Damaged = {} => r = 0
              /\ \A p \in 1..Len(buf) :
                    /\ p <= r => buf[p] \notin {"brace", "A5"}
                    /\ p > r => /\ p - r \in 1..Len(From(sent, k))
                                /\ buf[p] = From(sent, k)[p - r]
<1> DEFINE f == From(sent, k)
           n == Len(Line)
<1>1. /\ sent \in Seq(Items) /\ Len(sent) \in Nat /\ buf \in Seq(Alphabet)
      /\ unread \in Seq(Alphabet) /\ Follows
  BY DEF ParserTypes
<1>2. /\ Len(f) \in Nat /\ n \in Nat /\ Len(f) <= n
      /\ \A p \in 1..Len(f) : Line[n - Len(f) + p] = f[p]
  BY <1>1, FromLater DEF Line
<1>3. Len(buf) \in Nat /\ Len(unread) \in Nat
  BY <1>1
<1>4. /\ Len(f) <= Left /\ (Damaged = {} => Left = Len(f))
      /\ \A p \in 1..(Left - Len(f)) : Line[n - Left + p] \notin {"brace", "A5"}
  BY DEF At
<1>5. Left = Len(buf) + Len(unread) /\ Left <= n
      /\ \A p \in 1..Len(buf) : buf[p] = Line[n - Left + p]
  BY <1>1 DEF Follows, Left
<1> HIDE DEF f, n
<1>6. PICK r \in Nat : r = Left - Len(f)
  <2>1. Left \in Nat
    BY <1>3, <1>5
  <2>2. Left - Len(f) \in Nat
    BY <1>2, <1>4, <2>1
  <2> QED
    BY <2>2
<1>7. ASSUME NEW p \in 1..Len(buf), p <= r
      PROVE  buf[p] \notin {"brace", "A5"}
  <2>1. p \in 1..(Left - Len(f))
    BY <1>6, <1>7
  <2> QED
    BY <1>4, <1>5, <2>1, Zenon
<1>8. ASSUME NEW p \in 1..Len(buf), p > r
      PROVE  p - r \in 1..Len(f) /\ buf[p] = f[p - r]
  <2>1. p - r \in 1..Len(f) /\ n - Left + p = n - Len(f) + (p - r)
    BY <1>2, <1>3, <1>5, <1>6, <1>8
  <2> QED
    BY <1>2, <1>5, <2>1
<1> QED
  <2>1. r = Len(buf) + Len(unread) - Len(f)
    BY <1>5, <1>6
  <2>2. Damaged = {} => r = 0
    BY <1>2, <1>4, <1>6
  <2> QED
    BY <1>2, <1>3, <1>7, <1>8, <2>1, <2>2, Zenon DEF f

\* The item that the buffer starts with, when it is known to be an item.
LEMMA BufferStarts ==
    ASSUME ParserTypes, NEW k \in 1..(Len(sent) + 1), At(k), buf # << >>,
           buf[1] \in {"brace", "A5"}
    PROVE  /\ k \in 1..Len(sent)
           /\ Len(buf) \in Nat /\ Len(unread) \in Nat
           /\ Len(buf) + Len(unread) = Len(From(sent, k))
           /\ \A p \in 1..Len(buf) : /\ p \in 1..Len(From(sent, k))
                                     /\ buf[p] = From(sent, k)[p]
           /\ \A p \in 1..Len(buf) : p <= Len(Encode(sent[k])) => buf[p] = Encode(sent[k])[p]
           /\ buf[1] = Encode(sent[k])[1]
<1>1. PICK r \in Nat :
         /\ Len(buf) \in Nat /\ Len(unread) \in Nat /\ Len(From(sent, k)) \in Nat
         /\ r = Len(buf) + Len(unread) - Len(From(sent, k))
         /\ \A p \in 1..Len(buf) :
               /\ p <= r => buf[p] \notin {"brace", "A5"}
               /\ p > r => /\ p - r \in 1..Len(From(sent, k))
                           /\ buf[p] = From(sent, k)[p - r]
  BY BufferOf
<1>2. /\ sent \in Seq(Items) /\ Len(sent) \in Nat /\ buf \in Seq(Alphabet)
      /\ unread \in Seq(Alphabet)
  BY DEF ParserTypes
<1>3. 1 \in 1..Len(buf)
  BY <1>1, <1>2
<1>4. r = 0
  BY <1>1, <1>3
<1>5. ASSUME NEW p \in 1..Len(buf)
      PROVE  p \in 1..Len(From(sent, k)) /\ buf[p] = From(sent, k)[p]
  <2>1. p > r /\ p - r = p
    <3>1. Len(buf) \in Nat
      BY <1>1, Zenon
    <3> QED
      BY <1>4, <3>1
  <2>2. p - r \in 1..Len(From(sent, k)) /\ buf[p] = From(sent, k)[p - r]
    BY <1>1, <2>1, Zenon
  <2> QED
    BY <2>1, <2>2
<1>6. k \in 1..Len(sent)
  <2>1. k # Len(sent) + 1
    <3> SUFFICES ASSUME k = Len(sent) + 1 PROVE FALSE
      OBVIOUS
    <3>1. From(sent, k) = << >>
      BY <1>2, FromOf
    <3>2. Len(From(sent, k)) = 0
      BY <3>1
    <3> QED
      BY <1>3, <1>5, <3>2
  <2> QED
    BY <1>2, <2>1
<1>7. /\ Len(Encode(sent[k])) \in Nat /\ Len(Encode(sent[k])) >= 2
      /\ \A p \in 1..Len(Encode(sent[k])) : From(sent, k)[p] = Encode(sent[k])[p]
  BY <1>2, <1>6, FromNext
<1>8. \A p \in 1..Len(buf) : p <= Len(Encode(sent[k])) => buf[p] = Encode(sent[k])[p]
  BY <1>5, <1>7
<1>9. Len(buf) + Len(unread) = Len(From(sent, k))
  BY <1>1, <1>4
<1> QED
  BY <1>1, <1>3, <1>5, <1>6, <1>7, <1>8, <1>9

\* What a drop of the first m bytes of the buffer leaves.
LEMMA DropOf ==
    ASSUME ParserTypes, NEW m \in Nat, m <= Len(buf),
           buf' = SubSeq(buf, m + 1, Len(buf)), unread' = unread, sent' = sent
    PROVE  /\ buf' \in Seq(Alphabet) /\ Len(buf') = Len(buf) - m
           /\ Len(buf) \in Nat /\ Len(unread) \in Nat
           /\ Left' = Left - m
           /\ Follows'
<1>1. /\ buf \in Seq(Alphabet) /\ unread \in Seq(Alphabet) /\ sent \in Seq(Items)
      /\ Follows /\ Len(buf) \in Nat /\ Len(unread) \in Nat
  BY DEF ParserTypes
<1>2. \A i \in (m + 1)..Len(buf) : buf[i] \in Alphabet
  BY <1>1
<1>3. buf' \in Seq(Alphabet) /\ Len(buf') = Len(buf) - m
      /\ \A p \in 1..(Len(buf) - m) : buf'[p] = buf[m + p]
  <2>1. Len(SubSeq(buf, m + 1, Len(buf))) = Len(buf) - m
    BY <1>1, <1>2, SubSeqProperties
  <2>2. /\ SubSeq(buf, m + 1, Len(buf)) \in Seq(Alphabet)
        /\ \A p \in 1..(Len(buf) - m) : SubSeq(buf, m + 1, Len(buf))[p] = buf[m + p]
    BY <1>1, <1>2, <2>1, SubSeqProperties
  <2> QED
    BY <2>1, <2>2
<1>4. Left' = Left - m
  <2>1. Left' = Len(buf') + Len(unread)
    BY DEF Left
  <2>2. Len(buf') = Len(buf) - m
    BY <1>3
  <2>3. Len(buf) \in Nat /\ Len(unread) \in Nat
    BY <1>1
  <2> QED
    BY <2>1, <2>2, <2>3 DEF Left
<1>5. PICK n \in Nat : n = Len(Line) /\ n = Len(Line)'
  <2>1. Len(Line) \in Nat
    BY <1>1, FromLater DEF Line
  <2>2. Len(Line)' = Len(Line)
    BY DEF Line, From
  <2> QED
    BY <2>1, <2>2
<1>6. PICK l \in Nat : l = Left /\ l = Len(buf) + Len(unread)
  BY <1>1 DEF Left
<1>7. l <= n
  BY <1>1, <1>5, <1>6 DEF Follows
<1>8. Line' = Line
  BY DEF Line, From
<1>9. ASSUME NEW p \in 1..Len(buf') PROVE buf'[p] = Line[n - (l - m) + p]
  <2>1. m + p \in 1..Len(buf) /\ p \in 1..(Len(buf) - m)
    BY <1>1, <1>3
  <2>2. buf[m + p] = Line[n - l + (m + p)]
    BY <1>1, <1>5, <1>6, <2>1 DEF Follows
  <2>3. n - l + (m + p) = n - (l - m) + p
    OBVIOUS
  <2> QED
    BY <1>3, <2>1, <2>2, <2>3
<1>10. Follows'
  <2>1. Left' <= n
    BY <1>4, <1>6, <1>7
  <2>2. \A p \in 1..Len(unread) : unread[p] = Line[n - Len(unread) + p]
    BY <1>1, <1>5 DEF Follows
  <2> QED
    BY <1>4, <1>5, <1>6, <1>8, <1>9, <2>1, <2>2 DEF Follows
<1> QED
  BY <1>1, <1>3, <1>4, <1>10

-----------------------------------------------------------------------------
(* What happens to an item after the others.                                *)

\* What survives of what was sent before the k-th item.
Kept(k) == {i \in 1..(k - 1) : Survives(i)}

\* ComesFrom, of any items and what was sent.
Came(its, s, set) ==
    \E from \in [DOMAIN its -> DOMAIN s] :
        /\ {from[m] : m \in DOMAIN its} = set
        /\ \A m, l \in DOMAIN its : m < l => from[m] < from[l]
        /\ \A m \in DOMAIN its :
              its[m] = IF s[from[m]].kind = "json" THEN JsonLine ELSE s[from[m]]

\* ComesFrom of the items before the k-th is Came.
LEMMA CameFrom ==
    ASSUME NEW k
    PROVE  ComesFrom({i \in 1..(k - 1) : Survives(i)}) <=> Came(items, sent, Kept(k))
BY DEF ComesFrom, Came, Kept, IsLine

\* As long as nothing is sent or split, what happened to an item stays as it is.
LEMMA Frozen ==
    ASSUME sent' = sent, split' = split
    PROVE  /\ Damaged' = Damaged
           /\ \A i : Swallowed(i)' <=> Swallowed(i)
           /\ \A i : Survives(i)' <=> Survives(i)
           /\ \A k : Kept(k)' = Kept(k)
<1>1. Damaged' = Damaged
  BY DEF Damaged
<1>2. \A i : Swallowed(i)' <=> Swallowed(i)
  BY DEF Swallowed, EndsLine, IsLine
<1>3. ASSUME NEW i PROVE Survives(i)' <=> Survives(i)
  <2>1. IsLine(i)' <=> IsLine(i)
    BY DEF IsLine
  <2>2. LineYields(i)' <=> LineYields(i)
    BY DEF LineYields, EndsLine, IsLine
  <2> QED
    BY <1>1, <1>2, <2>1, <2>2 DEF Survives
<1>4. \A k : Kept(k)' = Kept(k)
  BY <1>3 DEF Kept
<1> QED
  BY <1>1, <1>2, <1>3, <1>4

\* One more item, of what was sent after all that the others come from.
LEMMA CameNext ==
    ASSUME NEW s \in Seq(Items), NEW its \in Seq(Parsed), NEW set, NEW k \in 1..Len(s),
           Came(its, s, set), \A i \in set : i < k
    PROVE  Came(Append(its, IF s[k].kind = "json" THEN JsonLine ELSE s[k]), s, set \cup {k})
<1> DEFINE x == IF s[k].kind = "json" THEN JsonLine ELSE s[k]
           new == Append(its, x)
           n == Len(its)
<1>1. n \in Nat /\ DOMAIN its = 1..n /\ DOMAIN s = 1..Len(s) /\ Len(s) \in Nat
  OBVIOUS
<1>2. PICK from \in [1..n -> 1..Len(s)] :
         /\ {from[m] : m \in 1..n} = set
         /\ \A m, l \in 1..n : m < l => from[m] < from[l]
         /\ \A m \in 1..n :
               its[m] = IF s[from[m]].kind = "json" THEN JsonLine ELSE s[from[m]]
  BY <1>1, Zenon DEF Came
<1>3. DOMAIN new = 1..(n + 1) /\ new[n + 1] = x /\ \A m \in 1..n : new[m] = its[m]
  BY <1>1
<1> HIDE DEF new, x, n
<1> DEFINE g == [m \in 1..(n + 1) |-> IF m = n + 1 THEN k ELSE from[m]]
<1>4. g \in [1..(n + 1) -> 1..Len(s)] /\ g[n + 1] = k /\ \A m \in 1..n : g[m] = from[m]
  BY <1>1, <1>2
<1>5. \A m \in 1..(n + 1) : m = n + 1 \/ m \in 1..n
  BY <1>1
<1>6. n + 1 \in 1..(n + 1) /\ 1..n \subseteq 1..(n + 1)
  BY <1>1
<1> HIDE DEF g
<1>7. {g[m] : m \in 1..(n + 1)} = set \cup {k}
  BY <1>2, <1>4, <1>5, <1>6
<1>8. ASSUME NEW m \in 1..(n + 1), NEW l \in 1..(n + 1), m < l PROVE g[m] < g[l]
  <2>1. m \in 1..n
    BY <1>1, <1>8
  <2>2. from[m] \in set /\ from[m] < k
    BY <1>2, <2>1
  <2>3. CASE l = n + 1
    BY <1>4, <2>1, <2>2, <2>3
  <2>4. CASE l \in 1..n
    BY <1>2, <1>4, <1>8, <2>1, <2>4
  <2> QED
    BY <1>5, <2>3, <2>4
<1>9. ASSUME NEW m \in 1..(n + 1)
      PROVE  new[m] = IF s[g[m]].kind = "json" THEN JsonLine ELSE s[g[m]]
  <2>1. CASE m = n + 1
    BY <1>3, <1>4, <2>1, Zenon DEF x
  <2>2. CASE m \in 1..n
    BY <1>2, <1>3, <1>4, <2>2, Zenon
  <2> QED
    BY <1>5, <2>1, <2>2
<1> QED
  <2>1. g \in [DOMAIN new -> DOMAIN s]
    BY <1>1, <1>3, <1>4
  <2>2. /\ {g[m] : m \in DOMAIN new} = set \cup {k}
        /\ \A m, l \in DOMAIN new : m < l => g[m] < g[l]
        /\ \A m \in DOMAIN new :
              new[m] = IF s[g[m]].kind = "json" THEN JsonLine ELSE s[g[m]]
    <3>1. DOMAIN new = 1..(n + 1)
      BY <1>3
    <3> QED
      BY <1>7, <1>8, <1>9, <3>1, Zenon
  <2>3. Came(new, s, set \cup {k})
    BY <2>1, <2>2, Zenon DEF Came
  <2> QED
    BY <2>3 DEF new, x

\* A frame that no line swallows leaves the next item unswallowed too.
LEMMA AfterFrame ==
    ASSUME sent \in Seq(Items), NEW k \in 1..Len(sent), ~Swallowed(k), ~IsLine(k)
    PROVE  /\ ~Swallowed(k + 1)
           /\ Survives(k) <=> k \notin Damaged
           /\ Kept(k + 1) = Kept(k) \cup (IF k \in Damaged THEN {} ELSE {k})
<1>1. ~Swallowed(k + 1)
  <2> SUFFICES ASSUME NEW j \in 1..k, IsLine(j), \A i \in j..k : ~EndsLine(i) PROVE FALSE
    BY DEF Swallowed
  <2>1. j \in 1..(k - 1)
    BY DEF IsLine
  <2>2. \A i \in j..(k - 1) : i \in j..k
    OBVIOUS
  <2> QED
    BY <2>1, <2>2 DEF Swallowed
<1>2. Survives(k) <=> k \notin Damaged
  BY DEF Survives
<1>3. 1..k = 1..(k - 1) \cup {k} /\ k + 1 - 1 = k
  OBVIOUS
<1> QED
  BY <1>1, <1>2, <1>3 DEF Kept

\* The items of a line that ends with the e-th one.
LEMMA AfterLine ==
    ASSUME sent \in Seq(Items), NEW k \in 1..Len(sent), ~Swallowed(k), IsLine(k),
           NEW e \in k..Len(sent), EndsLine(e), \A j \in k..(e - 1) : ~EndsLine(j)
    PROVE  /\ ~Swallowed(e + 1)
           /\ Survives(k) <=> \E j \in k..e : IsLine(j) /\ sent[j].ok
           /\ Kept(e + 1) = Kept(k) \cup (IF Survives(k) THEN {k} ELSE {})
<1>1. ~Swallowed(e + 1)
  <2> SUFFICES ASSUME NEW j \in 1..e, \A i \in j..e : ~EndsLine(i) PROVE FALSE
    BY DEF Swallowed
  <2> QED
    OBVIOUS
<1>2. Survives(k) <=> \E j \in k..e : IsLine(j) /\ sent[j].ok
  <2>1. ASSUME NEW end \in k..Len(sent), EndsLine(end), \A j \in k..(end - 1) : ~EndsLine(j)
        PROVE  end = e
    <3>1. ~(end < e) /\ ~(e < end)
      BY <2>1
    <3> QED
      BY <3>1
  <2>2. LineYields(k) <=> \E j \in k..e : IsLine(j) /\ sent[j].ok
    BY <2>1 DEF LineYields
  <2> QED
    BY <2>2 DEF Survives
<1>3. ASSUME NEW i \in (k + 1)..e PROVE ~Survives(i)
  <2>1. k \in 1..(i - 1) /\ \A j \in k..(i - 1) : j \in k..(e - 1)
    OBVIOUS
  <2>2. Swallowed(i)
    BY <2>1 DEF Swallowed
  <2> QED
    BY <2>2 DEF Survives
<1>4. \A i \in 1..e : i \in 1..(k - 1) \/ i = k \/ i \in (k + 1)..e
  OBVIOUS
<1>5. k \in 1..e /\ 1..(k - 1) \subseteq 1..e /\ e + 1 - 1 = e
  OBVIOUS
<1> QED
  BY <1>1, <1>2, <1>3, <1>4, <1>5 DEF Kept

\* What follows a line that has not ended is swallowed.
LEMMA WithinLine ==
    ASSUME sent \in Seq(Items), NEW k \in 1..Len(sent), IsLine(k),
           NEW i \in (k + 1)..(Len(sent) + 1), \A j \in k..(i - 1) : ~EndsLine(j)
    PROVE  Swallowed(i)
<1>1. k \in 1..(i - 1)
  OBVIOUS
<1> QED
  BY <1>1 DEF Swallowed

-----------------------------------------------------------------------------
(* The steps of the parser.                                                 *)

\* What has to hold for the k-th item to be next after a step of the parser.
LEMMA AtNext ==
    ASSUME sent' = sent, split' = split, unread' = unread, NEW k,
           ~Swallowed(k), Len(From(sent, k)) <= Left',
           \A p \in 1..(Left' - Len(From(sent, k))) :
              Line[Len(Line) - Left' + p] \notin {"brace", "A5"},
           Damaged = {} => Left' = Len(From(sent, k)),
           Came(items', sent, Kept(k)),
           \A i \in 1..(k - 1) : Left' < Len(From(sent, i)),
           \A i \in split : i >= k /\ ~Swallowed(i) =>
                               parsing' /\ Len(unread) = Len(From(sent, i)) - 1
    PROVE  At(k)'
<1>1. \A i : From(sent, i)' = From(sent, i)
  BY DEF From
<1>2. Line' = Line
  BY DEF Line, From
<1>3. /\ Damaged' = Damaged /\ Kept(k)' = Kept(k)
      /\ \A i : Swallowed(i)' <=> Swallowed(i)
  BY Frozen
<1>4. ComesFrom({i \in 1..(k - 1) : Survives(i)})'
  <2>1. {i \in 1..(k - 1) : Survives(i)}' = Kept(k)
    BY <1>3 DEF Kept
  <2> QED
    BY <2>1 DEF ComesFrom, Came, IsLine
<1> QED
  BY <1>1, <1>2, <1>3, <1>4 DEF At

\* An item is next right away, once all the bytes before it are gone.
LEMMA Lands ==
    ASSUME ParserTypes, NEW k \in 1..(Len(sent) + 1), At(k), parsing,
           UNCHANGED <<sent, unread, parsing, split>>,
           NEW m \in k..(Len(sent) + 1), ~Swallowed(m), Left' = Len(From(sent, m)),
           Came(items', sent, Kept(m))
    PROVE  At(m)'
<1>1. sent \in Seq(Items) /\ Len(sent) \in Nat /\ m \in 1..(Len(sent) + 1)
  BY DEF ParserTypes
<1>2. \A i \in 1..(m - 1) : Left' < Len(From(sent, i))
  BY <1>1, FromLater
<1>3. Len(From(sent, m)) \in Nat
  BY <1>1, FromOf
<1>4. \A p \in 1..(Left' - Len(From(sent, m))) :
         Line[Len(Line) - Left' + p] \notin {"brace", "A5"}
  <2>1. 1..(Left' - Len(From(sent, m))) = {}
    BY <1>3
  <2> QED
    BY <2>1
<1>5. \A i \in split : i >= m /\ ~Swallowed(i) =>
                          parsing' /\ Len(unread) = Len(From(sent, i)) - 1
  <2>1. \A i \in split : i \in Nat
    BY <1>1 DEF ParserTypes
  <2>2. \A i \in split : i >= m => i >= k
    BY <2>1
  <2> QED
    BY <2>2 DEF At
<1> QED
  BY <1>2, <1>3, <1>4, <1>5, AtNext

\* The line that the buffer starts with.
LEMMA AtTheLine ==
    ASSUME ParserTypes, NEW k \in 1..(Len(sent) + 1), At(k), AllPlain \/ Damaged = {}, AtJson
    PROVE  k \in 1..Len(sent) /\ sent[k] \in Items /\ IsLine(k) /\ PlainLine(sent, k)
<1>1. sent \in Seq(Items) /\ Len(sent) \in Nat /\ DOMAIN sent = 1..Len(sent)
  BY DEF ParserTypes
<1>2. buf # << >> /\ buf[1] = "brace"
  BY DEF AtJson
<1>3. k \in 1..Len(sent) /\ buf[1] = Encode(sent[k])[1]
  <2>1. buf[1] \in {"brace", "A5"}
    BY <1>2
  <2> QED
    BY <1>2, <2>1, BufferStarts
<1>4. sent[k] \in Items
  BY <1>1, <1>3
<1>5. sent[k].kind = "json"
  <2> SUFFICES ASSUME sent[k].kind # "json" PROVE FALSE
    OBVIOUS
  <2>1. Encode(sent[k])[1] = "A5"
    BY <1>4, EncodeOfFrame, Zenon
  <2> QED
    BY <1>2, <1>3, <2>1
<1>6. PlainLine(sent, k)
  <2>1. CASE AllPlain
    BY <1>1, <1>3, <2>1 DEF AllPlain, PlainLine
  <2>2. CASE Damaged = {}
    <3>1. sent[k] = JsonLine
      BY <1>1, <1>3, <1>5, <2>2 DEF Damaged
    <3>2. HasNewline(sent[k])
      BY <1>5, <3>1 DEF HasNewline, JsonLine, Json
    <3>3. Plain(sent[k])
      BY <1>5 DEF Plain
    <3>4. \A j \in k..Len(sent) : j = k \/ k \in k..(j - 1)
      OBVIOUS
    <3> QED
      BY <3>2, <3>3, <3>4 DEF PlainLine
  <2> QED
    BY <2>1, <2>2
<1> QED
  BY <1>3, <1>4, <1>5, <1>6 DEF IsLine

\* A line is taken: the next item is the one after the item that ends it.
LEMMA StepTakeJson ==
    ASSUME ParserTypes, NEW k \in 1..(Len(sent) + 1), At(k), AllPlain \/ Damaged = {}, TakeJson
    PROVE  \E m \in 1..(Len(sent) + 1) : At(m)'
<1> DEFINE f == From(sent, k)
<1>1. /\ sent \in Seq(Items) /\ Len(sent) \in Nat /\ DOMAIN sent = 1..Len(sent)
      /\ items \in Seq(Parsed) /\ buf \in Seq(Alphabet) /\ Len(buf) \in Nat
      /\ DOMAIN buf = 1..Len(buf)
  BY DEF ParserTypes
<1>2. AtJson /\ parsing /\ UNCHANGED <<sent, unread, parsing, split>>
  BY DEF TakeJson
<1>3. PICK end \in 1..Len(buf) :
         /\ buf[end] = "nl" /\ \A i \in 1..(end - 1) : buf[i] # "nl"
         /\ Dropping(end)
         /\ items' = IF HasObject(end) THEN Append(items, JsonLine) ELSE items
  BY <1>1 DEF TakeJson
<1>4. k \in 1..Len(sent) /\ sent[k] \in Items /\ IsLine(k) /\ PlainLine(sent, k)
  BY <1>2, AtTheLine
<1>5. /\ Len(buf) + Len(unread) = Len(f) /\ Len(unread) \in Nat
      /\ \A p \in 1..Len(buf) : p \in 1..Len(f) /\ buf[p] = f[p]
  BY <1>2, BufferStarts DEF AtJson
<1>6. end \in 1..Len(f) /\ FirstNewline(f, end)
  BY <1>1, <1>3, <1>5 DEF FirstNewline
<1>7. PICK e \in k..Len(sent) : LineIs(sent, k, end, e)
  BY <1>1, <1>4, <1>6, LineOf
<1>8. HasObject(end) <=> HasObjectUpTo(f, end)
  <2>1. \A p \in 1..(end - 1) : p \in 1..Len(buf) /\ p + 1 \in 1..Len(buf)
    BY <1>1
  <2> QED
    BY <1>5, <2>1 DEF HasObject, HasObjectUpTo
<1>9. /\ EndsLine(e) /\ \A j \in k..(e - 1) : ~EndsLine(j)
      /\ end = Len(f) - Len(From(sent, e + 1))
      /\ HasObject(end) <=> \E j \in k..e : IsLine(j) /\ sent[j].ok
  BY <1>7, <1>8 DEF LineIs, EndsLine, IsLine, HasNewline, Decodes
<1>10. ~Swallowed(k)
  BY DEF At
<1>11. /\ ~Swallowed(e + 1) /\ (Survives(k) <=> HasObject(end))
       /\ Kept(e + 1) = Kept(k) \cup (IF Survives(k) THEN {k} ELSE {})
  BY <1>1, <1>4, <1>9, <1>10, AfterLine
<1>12. Left' = Len(From(sent, e + 1))
  <2>1. Left' = Left - end
    <3>1. /\ buf' = SubSeq(buf, end + 1, Len(buf)) /\ unread' = unread /\ sent' = sent
          /\ end \in Nat /\ end <= Len(buf)
      BY <1>1, <1>2, <1>3 DEF Dropping
    <3> QED
      BY <3>1, DropOf
  <2>2. Left = Len(f)
    BY <1>5 DEF Left
  <2>3. Len(f) \in Nat /\ Len(From(sent, e + 1)) \in Nat
    BY <1>1, <1>4, FromOf
  <2> HIDE DEF f
  <2> QED
    BY <1>9, <2>1, <2>2, <2>3
<1>13. Came(items', sent, Kept(e + 1))
  <2>1. Came(items, sent, Kept(k))
    BY CameFrom DEF At
  <2>2. CASE ~HasObject(end)
    <3>1. Kept(e + 1) = Kept(k)
      BY <1>11, <2>2
    <3> QED
      BY <1>3, <2>1, <2>2, <3>1
  <2>3. CASE HasObject(end)
    <3>1. Kept(e + 1) = Kept(k) \cup {k} /\ items' = Append(items, JsonLine)
      BY <1>3, <1>11, <2>3
    <3>2. \A i \in Kept(k) : i < k
      BY DEF Kept
    <3>3. Came(Append(items, IF sent[k].kind = "json" THEN JsonLine ELSE sent[k]), sent,
               Kept(k) \cup {k})
      BY <1>1, <1>4, <2>1, <3>2, CameNext
    <3> QED
      BY <1>4, <3>1, <3>3 DEF IsLine
  <2> QED
    BY <2>2, <2>3
<1>14. e + 1 \in k..(Len(sent) + 1) /\ e + 1 \in 1..(Len(sent) + 1)
  BY <1>1
<1>15. At(e + 1)'
  BY <1>2, <1>11, <1>12, <1>13, <1>14, Lands
<1> QED
  BY <1>14, <1>15

\* Nothing begins in a frame after its first byte.
LEMMA TailOf ==
    ASSUME NEW item \in Items, item.kind # "json", Plain(item)
    PROVE  \A p \in 2..Len(Encode(item)) : Encode(item)[p] \notin {"brace", "A5"}
<1> DEFINE e == Encode(item)
<1>1. /\ item.kind = "frame" /\ item.sum \in {"k", "x"} /\ item.body \in Seq(Alphabet)
      /\ Len(item.body) \in {1, 2} /\ Len(e) = 5 + Len(item.body)
      /\ e[1] = "A5" /\ e[2] = "5A" /\ e[3] = "v" /\ e[4] = SizeByte(Len(item.body))
      /\ \A i \in 1..Len(item.body) : e[4 + i] = item.body[i]
      /\ e[5 + Len(item.body)] = item.sum
  BY EncodeOfFrame
<1>2. \A i \in 1..Len(item.body) : item.body[i] \notin {"brace", "A5"}
  <2>1. DOMAIN item.body = 1..Len(item.body)
    BY <1>1
  <2>2. \A i \in DOMAIN item.body : item.body[i] \notin {"brace", "A5", "nl"}
    BY <1>1, Zenon DEF Plain
  <2> QED
    BY <2>1, <2>2
<1>3. SizeByte(Len(item.body)) \in {"n1", "n2"}
  BY DEF SizeByte
<1>4. PICK n \in {1, 2} : n = Len(item.body)
  BY <1>1
<1> HIDE DEF e
<1>5. /\ e[4] \notin {"brace", "A5"} /\ e[5 + n] \notin {"brace", "A5"}
      /\ \A i \in 1..n : e[4 + i] \notin {"brace", "A5"}
  BY <1>1, <1>2, <1>3, <1>4
<1>6. ASSUME NEW p \in 2..(5 + n) PROVE e[p] \notin {"brace", "A5"}
  <2>1. p \in {2, 3, 4} \/ p = 5 + n \/ (p - 4 \in 1..n /\ p = 4 + (p - 4))
    OBVIOUS
  <2> QED
    BY <1>1, <1>5, <2>1
<1> QED
  BY <1>1, <1>4, <1>6 DEF e

\* The frame that the buffer starts with; its magic was not split.
LEMMA AtTheFrame ==
    ASSUME ParserTypes, NEW k \in 1..(Len(sent) + 1), At(k), AtFrame
    PROVE  /\ k \in 1..Len(sent) /\ sent[k] \in Items /\ ~IsLine(k) /\ k \notin split
           /\ Len(buf) \in Nat /\ Len(unread) \in Nat
           /\ Len(buf) + Len(unread) = Len(From(sent, k))
           /\ \A p \in 1..Len(buf) : p <= Len(Encode(sent[k])) => buf[p] = Encode(sent[k])[p]
<1>1. sent \in Seq(Items) /\ Len(sent) \in Nat /\ DOMAIN sent = 1..Len(sent)
      /\ buf \in Seq(Alphabet) /\ Len(buf) \in Nat
  BY DEF ParserTypes
<1>2. buf # << >> /\ buf[1] = "A5"
  BY <1>1 DEF AtFrame
<1>3. Len(buf) >= 2
  BY DEF AtFrame
<1>4. /\ k \in 1..Len(sent) /\ buf[1] = Encode(sent[k])[1]
      /\ Len(buf) \in Nat /\ Len(unread) \in Nat
      /\ Len(buf) + Len(unread) = Len(From(sent, k))
      /\ \A p \in 1..Len(buf) : p <= Len(Encode(sent[k])) => buf[p] = Encode(sent[k])[p]
  <2>1. buf[1] \in {"brace", "A5"}
    BY <1>2
  <2> QED
    BY <1>2, <2>1, BufferStarts, Zenon
<1>5. sent[k] \in Items
  BY <1>1, <1>4
<1>6. sent[k].kind # "json"
  <2> SUFFICES ASSUME sent[k].kind = "json" PROVE FALSE
    OBVIOUS
  <2>1. Encode(sent[k])[1] = "brace"
    BY <1>5, EncodeOfJson, Zenon
  <2>2. buf[1] = "brace"
    BY <1>4, <2>1, Zenon
  <2> QED
    BY <1>2, <2>2
<1>7. k \notin split
  <2> SUFFICES ASSUME k \in split PROVE FALSE
    OBVIOUS
  <2>1. Len(unread) = Len(From(sent, k)) - 1
    <3>1. k >= k /\ ~Swallowed(k)
      BY DEF At
    <3> QED
      BY <3>1 DEF At
  <2>2. Len(buf) + Len(unread) = Len(From(sent, k)) /\ Len(unread) \in Nat /\ Len(buf) \in Nat
    BY <1>4, Zenon
  <2>3. Len(From(sent, k)) \in Nat
    BY <2>2
  <2> QED
    BY <1>3, <2>1, <2>2, <2>3
<1> QED
  BY <1>4, <1>5, <1>6, <1>7, Zenon DEF IsLine

\* What the parser reads of that frame, once it has all of it.
LEMMA WholeFrame ==
    ASSUME ParserTypes, NEW k \in 1..(Len(sent) + 1), At(k), AtFrame, Len(buf) >= 6
    PROVE  \E n \in {1, 2} :
              /\ n = Len(sent[k].body) /\ n = (IF buf[4] = "n2" THEN 2 ELSE 1)
              /\ buf[3] = "v"
              /\ sent[k] = Frame(sent[k].body, sent[k].sum) /\ sent[k].sum \in {"k", "x"}
              /\ sent[k].kind = "frame"
              /\ Len(Encode(sent[k])) = 5 + n
              /\ Len(buf) >= 5 + n => /\ buf[5 + n] = sent[k].sum
                                      /\ SubSeq(buf, 5, 4 + n) = sent[k].body
<1> DEFINE item == sent[k]
           e == Encode(item)
<1>1. /\ item \in Items /\ item.kind # "json" /\ Len(buf) \in Nat /\ buf \in Seq(Alphabet)
      /\ \A p \in 1..Len(buf) : p <= Len(e) => buf[p] = e[p]
  BY AtTheFrame DEF ParserTypes, IsLine
<1>2. /\ item.kind = "frame" /\ item.sum \in {"k", "x"} /\ item.body \in Seq(Alphabet)
      /\ item = Frame(item.body, item.sum)
      /\ Len(item.body) \in {1, 2} /\ Len(e) = 5 + Len(item.body)
      /\ e[3] = "v" /\ e[4] = SizeByte(Len(item.body))
      /\ \A i \in 1..Len(item.body) : e[4 + i] = item.body[i]
      /\ e[5 + Len(item.body)] = item.sum
  BY <1>1, EncodeOfFrame, Zenon
<1> HIDE DEF e
<1>3. PICK n \in {1, 2} : n = Len(item.body)
  BY <1>2
<1>4. Len(e) = 5 + n /\ e[4] = SizeByte(n) /\ e[5 + n] = item.sum
  BY <1>2, <1>3, Zenon
<1> HIDE DEF item
<1>5. buf[3] = e[3] /\ buf[4] = e[4]
  <2>1. 3 \in 1..Len(buf) /\ 4 \in 1..Len(buf) /\ 3 <= Len(e) /\ 4 <= Len(e)
    BY <1>1, <1>4
  <2> QED
    BY <1>1, <2>1
<1>6. n = (IF buf[4] = "n2" THEN 2 ELSE 1)
  BY <1>4, <1>5 DEF SizeByte
<1>7. ASSUME Len(buf) >= 5 + n
      PROVE  buf[5 + n] = item.sum /\ SubSeq(buf, 5, 4 + n) = item.body
  <2>1. 5 + n \in 1..Len(buf) /\ 5 + n <= Len(e)
    BY <1>1, <1>4, <1>7
  <2>2. buf[5 + n] = e[5 + n]
    BY <1>1, <2>1
  <2>3. ASSUME NEW i \in 1..n PROVE buf[4 + i] = item.body[i]
    <3>1. 4 + i \in 1..Len(buf) /\ 4 + i <= Len(e)
      BY <1>1, <1>4, <1>7
    <3>2. buf[4 + i] = e[4 + i]
      BY <1>1, <3>1
    <3> QED
      BY <1>2, <1>3, <3>2
  <2> DEFINE body == SubSeq(buf, 5, 4 + n)
  <2>4. body \in Seq(Alphabet) /\ Len(body) = n /\ \A i \in 1..n : body[i] = buf[4 + i]
    <3>1. \A i \in 5..(4 + n) : buf[i] \in Alphabet
      BY <1>1, <1>7
    <3>2. Len(body) = n
      BY <1>1, <3>1, SubSeqProperties
    <3>3. body \in Seq(Alphabet) /\ \A i \in 1..n : body[i] = buf[5 + i - 1]
      BY <1>1, <3>1, <3>2, SubSeqProperties
    <3>4. \A i \in 1..n : 5 + i - 1 = 4 + i
      OBVIOUS
    <3> QED
      BY <3>2, <3>3, <3>4
  <2> HIDE DEF body
  <2>5. body = item.body
    <3>1. item.body \in Seq(Alphabet) /\ Len(item.body) = n
      BY <1>2, <1>3, Zenon
    <3>2. PICK b : b = item.body
      OBVIOUS
    <3>3. b \in Seq(Alphabet) /\ Len(b) = n /\ \A i \in 1..n : body[i] = b[i]
      BY <2>3, <2>4, <3>1, <3>2, Zenon
    <3>4. body = b
      BY <2>4, <3>3, SeqEqual
    <3> QED
      BY <3>2, <3>4
  <2> QED
    BY <1>4, <2>2, <2>5 DEF body
<1> QED
  BY <1>2, <1>3, <1>4, <1>5, <1>6, <1>7, Zenon DEF item, e

\* A damaged frame has lost its first byte: nothing begins in the rest of it.
LEMMA FrameLost ==
    ASSUME ParserTypes, NEW k \in 1..Len(sent), At(k), ~IsLine(k), k \in Damaged, AllPlain,
           UNCHANGED <<sent, unread, items, split>>, Left' = Len(From(sent, k)) - 1,
           parsing' \/ Len(unread) = Len(From(sent, k)) - 1, parsing
    PROVE  At(k + 1)'
<1> DEFINE f == From(sent, k)
           g == From(sent, k + 1)
           e == Encode(sent[k])
<1>1. /\ sent \in Seq(Items) /\ Len(sent) \in Nat /\ DOMAIN sent = 1..Len(sent)
      /\ split \subseteq 1..Len(sent) /\ k + 1 - 1 = k
  BY DEF ParserTypes
<1>2. /\ sent[k] \in Items /\ Len(e) \in Nat /\ Len(f) \in Nat /\ Len(g) \in Nat
      /\ Len(e) >= 2 /\ Len(f) = Len(e) + Len(g)
      /\ \A p \in 1..Len(e) : f[p] = e[p]
  BY <1>1, FromNext
<1>3. \A p \in 2..Len(e) : e[p] \notin {"brace", "A5"}
  BY <1>1, <1>2, TailOf DEF AllPlain, IsLine
<1>4. ~Swallowed(k + 1) /\ Kept(k + 1) = Kept(k)
  BY <1>1, AfterFrame DEF At
<1>5. Came(items', sent, Kept(k + 1))
  BY <1>4, CameFrom DEF At
<1>6. /\ Len(Line) \in Nat /\ Len(f) <= Len(Line)
      /\ \A q \in 1..Len(f) : Line[Len(Line) - Len(f) + q] = f[q]
  BY <1>1, FromLater DEF Line
<1> HIDE DEF f, g, e
<1>7. ASSUME NEW p \in 1..(Left' - Len(g))
      PROVE  Line[Len(Line) - Left' + p] \notin {"brace", "A5"}
  <2>1. Left' = Len(f) - 1
    BY DEF f
  <2>2. 1 + p \in 1..Len(f) /\ 1 + p \in 2..Len(e) /\ 1 + p \in 1..Len(e)
    BY <1>2, <2>1
  <2>3. Len(Line) - Len(f) + (1 + p) = Len(Line) - Left' + p
    <3>1. Len(f) \in Nat /\ Len(Line) \in Nat /\ p \in Int
      BY <1>2, <1>6, <2>2
    <3> QED
      BY <2>1, <3>1
  <2>4. Line[Len(Line) - Left' + p] = e[1 + p]
    BY <1>2, <1>6, <2>2, <2>3
  <2> QED
    BY <1>3, <2>2, <2>4
<1>8. Len(g) <= Left'
  BY <1>2 DEF f
<1>9. ASSUME NEW i \in 1..k PROVE Left' < Len(From(sent, i))
  <2>1. Len(f) <= Len(From(sent, i)) /\ Len(From(sent, i)) \in Nat
    BY <1>1, FromLater DEF f
  <2>2. Left' = Len(f) - 1
    BY DEF f
  <2> QED
    BY <1>2, <2>1, <2>2
<1>10. ASSUME NEW i \in split, i >= k + 1, ~Swallowed(i)
       PROVE  parsing' /\ Len(unread) = Len(From(sent, i)) - 1
  <2>1. i \in 1..Len(sent) /\ i >= k /\ k < i /\ k \in 1..i /\ i \in 1..(Len(sent) + 1)
    BY <1>1, <1>10
  <2>2. Len(unread) = Len(From(sent, i)) - 1
    BY <1>10, <2>1 DEF At
  <2>3. Len(From(sent, i)) < Len(f) /\ Len(From(sent, i)) \in Nat
    BY <1>1, <2>1, FromLater DEF f
  <2>4. parsing' \/ Len(unread) = Len(f) - 1
    BY DEF f
  <2>5. Len(unread) # Len(f) - 1
    BY <1>2, <2>2, <2>3
  <2> QED
    BY <2>2, <2>4, <2>5
<1>11. Damaged # {}
  OBVIOUS
<1>12. \A i \in 1..(k + 1 - 1) : Left' < Len(From(sent, i))
  BY <1>1, <1>9
<1>13. /\ Len(From(sent, k + 1)) <= Left'
       /\ \A p \in 1..(Left' - Len(From(sent, k + 1))) :
             Line[Len(Line) - Left' + p] \notin {"brace", "A5"}
  BY <1>7, <1>8 DEF g
<1>14. \A i \in split : i >= k + 1 /\ ~Swallowed(i) =>
                           parsing' /\ Len(unread) = Len(From(sent, i)) - 1
  BY <1>10
<1> QED
  <2> DEFINE m == k + 1
  <2>1. /\ ~Swallowed(m) /\ Len(From(sent, m)) <= Left'
        /\ \A p \in 1..(Left' - Len(From(sent, m))) :
              Line[Len(Line) - Left' + p] \notin {"brace", "A5"}
        /\ Came(items', sent, Kept(m))
        /\ \A i \in 1..(m - 1) : Left' < Len(From(sent, i))
        /\ \A i \in split : i >= m /\ ~Swallowed(i) =>
                               parsing' /\ Len(unread) = Len(From(sent, i)) - 1
    <3>1. ~Swallowed(m)
      BY <1>4
    <3>2. Came(items', sent, Kept(m))
      BY <1>5
    <3>3. Len(From(sent, m)) <= Left'
      BY <1>13
    <3>4. \A p \in 1..(Left' - Len(From(sent, m))) :
              Line[Len(Line) - Left' + p] \notin {"brace", "A5"}
      BY <1>13
    <3>5. \A i \in 1..(m - 1) : Left' < Len(From(sent, i))
      BY <1>12
    <3>6. \A i \in split : i >= m /\ ~Swallowed(i) =>
                               parsing' /\ Len(unread) = Len(From(sent, i)) - 1
      BY <1>14
    <3> QED
      BY <3>1, <3>2, <3>3, <3>4, <3>5, <3>6
  <2> HIDE DEF m
  <2>2. Damaged = {} => Left' = Len(From(sent, m))
    BY <1>11
  <2>3. At(m)'
    BY <2>1, <2>2, AtNext
  <2> QED
    BY <2>3 DEF m

\* A frame is taken, or one byte of it is dropped and nothing begins in the rest.
LEMMA StepTakeFrame ==
    ASSUME ParserTypes, NEW k \in 1..(Len(sent) + 1), At(k), AllPlain \/ Damaged = {}, TakeFrame
    PROVE  \E m \in 1..(Len(sent) + 1) : At(m)'
<1> DEFINE f == From(sent, k)
           g == From(sent, k + 1)
<1>1. /\ sent \in Seq(Items) /\ Len(sent) \in Nat /\ DOMAIN sent = 1..Len(sent)
      /\ items \in Seq(Parsed) /\ split \subseteq 1..Len(sent)
  BY DEF ParserTypes
<1>2. AtFrame /\ Len(buf) >= 6 /\ parsing /\ UNCHANGED <<sent, unread, parsing, split>>
  BY DEF TakeFrame
<1>3. /\ k \in 1..Len(sent) /\ sent[k] \in Items /\ ~IsLine(k) /\ k \notin split
      /\ Len(buf) \in Nat /\ Len(unread) \in Nat
      /\ Len(buf) + Len(unread) = Len(f)
  BY <1>2, AtTheFrame, Zenon
<1>4. PICK n \in {1, 2} :
         /\ n = Len(sent[k].body) /\ n = (IF buf[4] = "n2" THEN 2 ELSE 1)
         /\ buf[3] = "v"
         /\ sent[k] = Frame(sent[k].body, sent[k].sum) /\ sent[k].sum \in {"k", "x"}
         /\ sent[k].kind = "frame"
         /\ Len(Encode(sent[k])) = 5 + n
         /\ Len(buf) >= 5 + n => /\ buf[5 + n] = sent[k].sum
                                 /\ SubSeq(buf, 5, 4 + n) = sent[k].body
  BY <1>2, WholeFrame
<1>5. /\ Len(buf) >= 5 + n
      /\ IF buf[5 + n] = "k"
         THEN Dropping(5 + n) /\ items' = Append(items, Frame(SubSeq(buf, 5, 4 + n), "k"))
         ELSE Dropping(1) /\ UNCHANGED items
  BY <1>4 DEF TakeFrame
<1>6. /\ Len(f) = 5 + n + Len(g) /\ Len(f) \in Nat /\ Len(g) \in Nat
      /\ \A p \in 1..(5 + n) : f[p] = Encode(sent[k])[p]
  <2>1. /\ Len(f) = Len(Encode(sent[k])) + Len(g) /\ Len(f) \in Nat /\ Len(g) \in Nat
        /\ \A p \in 1..Len(Encode(sent[k])) : f[p] = Encode(sent[k])[p]
    BY <1>1, <1>3, FromNext
  <2>2. Len(Encode(sent[k])) = 5 + n
    BY <1>4, Zenon
  <2> QED
    BY <2>1, <2>2
<1>7. /\ ~Swallowed(k + 1)
      /\ Kept(k + 1) = Kept(k) \cup (IF k \in Damaged THEN {} ELSE {k})
  BY <1>1, <1>3, AfterFrame DEF At
<1>8. k \in Damaged <=> sent[k].sum # "k"
  <2>1. sent[k].kind = "frame"
    BY <1>4, Zenon
  <2> QED
    BY <1>1, <1>3, <2>1 DEF Damaged
<1>9. k + 1 \in k..(Len(sent) + 1) /\ k + 1 \in 1..(Len(sent) + 1)
  BY <1>1, <1>3
<1>10. Came(items, sent, Kept(k))
  BY CameFrom DEF At
<1>11. Left = Len(f)
  BY <1>3 DEF Left
<1>12. CASE sent[k].sum = "k"
  <2>1. Dropping(5 + n) /\ items' = Append(items, Frame(SubSeq(buf, 5, 4 + n), "k"))
    BY <1>4, <1>5, <1>12
  <2>2. Left' = Len(g)
    <3>1. /\ buf' = SubSeq(buf, (5 + n) + 1, Len(buf)) /\ unread' = unread /\ sent' = sent
          /\ 5 + n \in Nat /\ 5 + n <= Len(buf)
      BY <1>2, <1>5, <2>1 DEF Dropping
    <3>2. Left' = Left - (5 + n)
      BY <3>1, DropOf
    <3> HIDE DEF f, g
    <3> QED
      BY <1>6, <1>11, <3>2
  <2>3. items' = Append(items, sent[k])
    <3>1. SubSeq(buf, 5, 4 + n) = sent[k].body
      BY <1>4, <1>5, Zenon
    <3> QED
      BY <1>4, <1>12, <2>1, <3>1, Zenon
  <2>4. Came(items', sent, Kept(k + 1))
    <3>1. \A i \in Kept(k) : i < k
      BY DEF Kept
    <3>2. Came(Append(items, IF sent[k].kind = "json" THEN JsonLine ELSE sent[k]), sent,
               Kept(k) \cup {k})
      BY <1>1, <1>3, <1>10, <3>1, CameNext
    <3>3. Kept(k + 1) = Kept(k) \cup {k}
      BY <1>7, <1>8, <1>12
    <3> QED
      BY <1>3, <2>3, <3>2, <3>3 DEF IsLine
  <2>5. At(k + 1)'
    BY <1>2, <1>7, <1>9, <2>2, <2>4, Lands
  <2> QED
    BY <1>9, <2>5
<1>13. CASE sent[k].sum # "k"
  <2>1. Dropping(1) /\ UNCHANGED items
    BY <1>4, <1>5, <1>13
  <2>2. Left' = Len(f) - 1
    <3>1. /\ buf' = SubSeq(buf, 1 + 1, Len(buf)) /\ unread' = unread /\ sent' = sent
          /\ 1 \in Nat /\ 1 <= Len(buf)
      BY <1>2, <2>1 DEF Dropping
    <3>2. Left' = Left - 1
      BY <3>1, DropOf
    <3> QED
      BY <1>11, <3>2
  <2>3. k \in Damaged /\ AllPlain
    BY <1>8, <1>13
  <2>4. At(k + 1)'
    BY <1>2, <1>3, <2>1, <2>2, <2>3, FrameLost
  <2> QED
    BY <1>9, <2>4
<1> QED
  BY <1>12, <1>13

\* What stands in the buffer after the bytes in which nothing begins.
LEMMA BufferGoesOn ==
    ASSUME ParserTypes, NEW k \in 1..(Len(sent) + 1), At(k), NEW r \in Nat, r < Len(buf),
           r = Len(buf) + Len(unread) - Len(From(sent, k))
    PROVE  /\ k \in 1..Len(sent)
           /\ buf[r + 1] = "brace" \/ (buf[r + 1] = "A5" /\ ~IsLine(k))
           /\ buf[r + 1] = "A5" /\ r + 2 <= Len(buf) => buf[r + 2] = "5A"
<1> DEFINE f == From(sent, k)
           e == Encode(sent[k])
<1>1. sent \in Seq(Items) /\ Len(sent) \in Nat /\ Len(buf) \in Nat
  BY DEF ParserTypes
<1>2. /\ Len(f) \in Nat
      /\ \A p \in 1..Len(buf) : p > r => p - r \in 1..Len(f) /\ buf[p] = f[p - r]
  BY BufferOf
<1>3. r + 1 \in 1..Len(buf) /\ r + 1 > r /\ r + 1 - r = 1
  BY <1>1
<1>4. 1 \in 1..Len(f) /\ buf[r + 1] = f[1]
  BY <1>2, <1>3
<1>5. k \in 1..Len(sent)
  <2>1. k # Len(sent) + 1
    <3> SUFFICES ASSUME k = Len(sent) + 1 PROVE FALSE
      OBVIOUS
    <3>1. f = << >>
      BY <1>1, FromOf
    <3>2. Len(f) = 0
      BY <3>1
    <3> QED
      BY <1>4, <3>2
  <2> QED
    BY <1>1, <2>1
<1>6. /\ sent[k] \in Items /\ Len(e) \in Nat /\ Len(e) >= 2
      /\ \A p \in 1..Len(e) : f[p] = e[p]
  BY <1>1, <1>5, FromNext
<1>7. buf[r + 1] = e[1]
  BY <1>4, <1>6
<1>8. ASSUME r + 2 <= Len(buf) PROVE buf[r + 2] = e[2]
  <2>1. r + 2 \in 1..Len(buf) /\ r + 2 > r /\ r + 2 - r = 2 /\ 2 \in 1..Len(e)
    BY <1>1, <1>6, <1>8
  <2> QED
    BY <1>2, <1>6, <2>1
<1>9. CASE IsLine(k)
  <2>1. e[1] = "brace"
    BY <1>6, <1>9, EncodeOfJson, Zenon DEF IsLine
  <2> QED
    BY <1>5, <1>7, <2>1
<1>10. CASE ~IsLine(k)
  <2>1. e[1] = "A5" /\ e[2] = "5A"
    BY <1>6, <1>10, EncodeOfFrame, Zenon DEF IsLine
  <2> QED
    BY <1>5, <1>7, <1>8, <1>10, <2>1
<1> QED
  BY <1>9, <1>10

\* A line in the buffer that has ended has its newline there.
LEMMA NewlineInBuffer ==
    ASSUME ParserTypes, NEW k \in 1..(Len(sent) + 1), At(k), AtJson,
           NEW j \in k..Len(sent), EndsLine(j), Len(unread) <= Len(From(sent, j + 1))
    PROVE  Contains(buf, "nl")
<1> DEFINE f == From(sent, k)
           g == From(sent, j)
           h == From(sent, j + 1)
           e == Encode(sent[j])
<1>1. sent \in Seq(Items) /\ Len(sent) \in Nat
  BY DEF ParserTypes
<1>2. /\ k \in 1..Len(sent) /\ Len(buf) \in Nat /\ Len(unread) \in Nat
      /\ Len(buf) + Len(unread) = Len(f)
      /\ \A p \in 1..Len(buf) : p \in 1..Len(f) /\ buf[p] = f[p]
  <2>1. buf # << >> /\ buf[1] \in {"brace", "A5"}
    BY DEF AtJson
  <2> QED
    BY <2>1, BufferStarts
<1>3. j \in 1..Len(sent) /\ k \in 1..j /\ j \in 1..(Len(sent) + 1)
  BY <1>2
<1>4. /\ sent[j] \in Items /\ Len(g) = Len(e) + Len(h) /\ Len(g) \in Nat /\ Len(h) \in Nat
      /\ \A p \in 1..Len(e) : g[p] = e[p]
  BY <1>1, <1>3, FromNext
<1>5. Len(e) = 3 /\ e[3] = "nl"
  BY <1>4, EncodeOfJson, Zenon DEF EndsLine, IsLine
<1>6. /\ Len(f) \in Nat /\ Len(g) <= Len(f)
      /\ \A p \in 1..Len(g) : f[Len(f) - Len(g) + p] = g[p]
  BY <1>1, <1>3, FromLater
<1> HIDE DEF f, g, h, e
<1>7. Len(g) = 3 + Len(h) /\ g[3] = "nl"
  <2>1. 3 \in 1..Len(e)
    BY <1>5
  <2> QED
    BY <1>4, <1>5, <2>1
<1>8. Len(f) - Len(g) + 3 \in 1..Len(buf)
  <2>1. Len(unread) <= Len(h)
    BY DEF h
  <2> QED
    BY <1>2, <1>4, <1>6, <1>7, <2>1
<1>9. f[Len(f) - Len(g) + 3] = "nl"
  <2>1. 3 \in 1..Len(g)
    BY <1>4, <1>7
  <2> QED
    BY <1>6, <1>7, <2>1
<1> QED
  BY <1>2, <1>8, <1>9 DEF Contains

\* When more bytes are needed, nothing is split from the next item on.
LEMMA NothingSplit ==
    ASSUME ParserTypes, NEW k \in 1..(Len(sent) + 1), At(k), Incomplete,
           NEW i \in split, i >= k, ~Swallowed(i)
    PROVE  FALSE
<1> DEFINE f == From(sent, k)
           g == From(sent, i)
<1>1. /\ sent \in Seq(Items) /\ Len(sent) \in Nat /\ Len(buf) \in Nat /\ Len(unread) \in Nat
      /\ i \in 1..Len(sent) /\ sent[i].kind = "frame"
  BY DEF ParserTypes
<1>2. Len(unread) = Len(g) - 1
  BY DEF At
<1>3. Len(f) \in Nat /\ Len(g) \in Nat /\ Len(g) <= Len(f) /\ k \in 1..i
      /\ i \in 1..(Len(sent) + 1)
  BY <1>1, FromLater
<1>4. buf # << >>
  <2> SUFFICES ASSUME buf = << >> PROVE FALSE
    OBVIOUS
  <2>1. Len(f) <= Len(buf) + Len(unread) /\ Len(buf) = 0
    BY DEF At, Left
  <2> QED
    BY <1>2, <1>3, <2>1
<1>5. CASE AtJson /\ ~Contains(buf, "nl")
  <2>1. k \in 1..Len(sent) /\ IsLine(k)
    <3>1. k \in 1..Len(sent) /\ buf[1] = Encode(sent[k])[1]
      <4>1. buf # << >> /\ buf[1] \in {"brace", "A5"}
        BY <1>5 DEF AtJson
      <4> QED
        BY <4>1, BufferStarts
    <3>2. sent[k] \in Items /\ buf[1] = "brace"
      BY <1>1, <1>5, <3>1 DEF AtJson
    <3>3. sent[k].kind # "json" => Encode(sent[k])[1] = "A5"
      BY <3>2, EncodeOfFrame, Zenon
    <3> QED
      BY <3>1, <3>2, <3>3 DEF IsLine
  <2>2. k # i
    BY <1>1, <2>1 DEF IsLine
  <2>3. ASSUME NEW j \in k..(i - 1), EndsLine(j) PROVE FALSE
    <3>1. j \in k..Len(sent) /\ j + 1 \in 1..i /\ j \in 1..Len(sent)
      BY <1>1, <1>3, <2>1
    <3>2. Len(g) <= Len(From(sent, j + 1)) /\ Len(From(sent, j + 1)) \in Nat
      BY <1>1, <1>3, <3>1, FromLater
    <3>3. Len(unread) <= Len(From(sent, j + 1))
      BY <1>2, <1>3, <3>2
    <3> QED
      BY <1>5, <2>3, <3>1, <3>3, NewlineInBuffer
  <2>4. i \in (k + 1)..(Len(sent) + 1)
    BY <1>1, <1>3, <2>2
  <2> QED
    BY <1>1, <2>1, <2>3, <2>4, WithinLine
<1>6. CASE AtFrame
  <2>1. /\ k \in 1..Len(sent) /\ k \notin split
        /\ Len(buf) + Len(unread) = Len(f)
    BY <1>6, AtTheFrame, Zenon
  <2>2. k # i /\ k + 1 \in 1..i
    BY <1>3, <2>1
  <2>3. Len(f) = Len(Encode(sent[k])) + Len(From(sent, k + 1)) /\ Len(From(sent, k + 1)) \in Nat
    BY <1>1, <2>1, FromNext
  <2>4. Len(g) <= Len(From(sent, k + 1))
    BY <1>1, <1>3, <2>2, FromLater
  <2>5. PICK n \in {1, 2} : Len(Encode(sent[k])) = 5 + n
    <3>1. sent[k] \in Items /\ sent[k].kind # "json"
      BY <1>6, AtTheFrame, Zenon DEF IsLine
    <3>2. /\ Len(Encode(sent[k])) = 5 + Len(sent[k].body)
          /\ Len(sent[k].body) \in {1, 2}
      BY <3>1, EncodeOfFrame, Zenon
    <3> QED
      BY <3>2
  <2>6. Len(buf) >= 6 + n
    BY <1>1, <1>2, <1>3, <2>1, <2>3, <2>4, <2>5
  <2>7. n = (IF buf[4] = "n2" THEN 2 ELSE 1)
    <3>1. Len(buf) >= 6
      BY <1>1, <2>6
    <3>2. PICK m \in {1, 2} : m = (IF buf[4] = "n2" THEN 2 ELSE 1)
                              /\ Len(Encode(sent[k])) = 5 + m
      BY <1>6, <3>1, WholeFrame
    <3> QED
      BY <2>5, <3>2
  <2>8. buf[1] # "brace"
    BY <1>6 DEF AtFrame
  <2>9. ~(Len(buf) < 6) /\ ~(Len(buf) < 5 + (IF buf[4] = "n2" THEN 2 ELSE 1))
    BY <1>1, <2>6, <2>7
  <2> QED
    BY <1>4, <2>8, <2>9 DEF Incomplete, AtJson
<1> QED
  BY <1>4, <1>5, <1>6 DEF Incomplete

\* Nothing is taken, and the next item stays the next.
LEMMA StepNeedMore ==
    ASSUME ParserTypes, NEW k \in 1..(Len(sent) + 1), At(k), NeedMore
    PROVE  At(k)'
<1>1. Incomplete /\ UNCHANGED <<sent, unread, buf, items, split>>
  BY DEF NeedMore
<1>2. \A i \in split : i >= k /\ ~Swallowed(i) =>
                          parsing' /\ Len(unread) = Len(From(sent, i)) - 1
  BY <1>1, NothingSplit
<1>3. Left' = Left
  BY <1>1 DEF Left
<1>4. Came(items', sent, Kept(k))
  BY <1>1, CameFrom DEF At
<1> QED
  BY <1>1, <1>2, <1>3, <1>4, AtNext DEF At

\* The buffer is cleared: of the next item it held nothing, or the lone A5 of a frame
\* whose magic was split.
LEMMA StepClear ==
    ASSUME ParserTypes, NEW k \in 1..(Len(sent) + 1), At(k), AllPlain \/ Damaged = {},
           SplitAt(Len(unread)) \subseteq split,
           parsing, buf # << >>, \A i \in 1..Len(buf) : buf[i] # "brace",
           \A i \in 1..Len(buf) : ~(i < Len(buf) /\ buf[i] = "A5" /\ buf[i + 1] = "5A"),
           buf' = << >>, parsing' = FALSE, UNCHANGED <<sent, unread, items, split>>
    PROVE  \E m \in 1..(Len(sent) + 1) : At(m)'
<1> DEFINE f == From(sent, k)
<1>1. /\ sent \in Seq(Items) /\ Len(sent) \in Nat /\ DOMAIN sent = 1..Len(sent)
      /\ split \subseteq 1..Len(sent) /\ buf \in Seq(Alphabet)
  BY DEF ParserTypes
<1>2. PICK r \in Nat :
         /\ Len(buf) \in Nat /\ Len(unread) \in Nat /\ Len(f) \in Nat
         /\ r = Len(buf) + Len(unread) - Len(f)
         /\ Damaged = {} => r = 0
  BY BufferOf, Zenon
<1>3. Left' = Len(unread) /\ Left = Len(buf) + Len(unread) /\ Len(buf) > 0
  <2>1. Len(buf) > 0
    BY <1>1, <1>2
  <2>2. Len(<< >>) = 0
    OBVIOUS
  <2> QED
    BY <1>2, <2>1, <2>2 DEF Left
<1>4. CASE Len(buf) <= r
  <2>1. Damaged # {}
    BY <1>2, <1>3, <1>4
  <2>2. Len(f) <= Left'
    BY <1>2, <1>3, <1>4
  <2>3. ASSUME NEW p \in 1..(Left' - Len(f))
        PROVE  Line[Len(Line) - Left' + p] \notin {"brace", "A5"}
    <3>1. Len(buf) + p \in 1..(Left - Len(f))
      BY <1>2, <1>3
    <3>2. Line[Len(Line) - Left + (Len(buf) + p)] \notin {"brace", "A5"}
      BY <3>1 DEF At
    <3>3. Len(Line) \in Nat
      BY <1>1, FromLater DEF Line
    <3>4. Len(Line) - Left + (Len(buf) + p) = Len(Line) - Left' + p
      BY <1>2, <1>3, <3>3
    <3> QED
      BY <3>2, <3>4
  <2>4. ASSUME NEW i \in 1..(k - 1) PROVE Left' < Len(From(sent, i))
    <3>1. Left < Len(From(sent, i))
      BY DEF At
    <3>2. Len(From(sent, i)) \in Nat
      BY <1>1, FromOf
    <3> QED
      BY <1>2, <1>3, <3>1, <3>2
  <2>5. ASSUME NEW i \in split, i >= k, ~Swallowed(i) PROVE FALSE
    <3>1. Len(unread) = Len(From(sent, i)) - 1
      BY <2>5 DEF At
    <3>2. i \in 1..(Len(sent) + 1) /\ k \in 1..i
      BY <1>1, <2>5
    <3>3. Len(From(sent, i)) <= Len(f) /\ Len(From(sent, i)) \in Nat
      BY <1>1, <3>2, FromLater
    <3> QED
      BY <1>2, <1>3, <2>2, <3>1, <3>3
  <2>6. Came(items', sent, Kept(k)) /\ ~Swallowed(k)
    BY CameFrom DEF At
  <2>7. At(k)'
    BY <2>1, <2>2, <2>3, <2>4, <2>5, <2>6, AtNext
  <2> QED
    BY <2>7
<1>5. CASE r < Len(buf)
  <2>1. /\ k \in 1..Len(sent)
        /\ buf[r + 1] = "brace" \/ (buf[r + 1] = "A5" /\ ~IsLine(k))
        /\ buf[r + 1] = "A5" /\ r + 2 <= Len(buf) => buf[r + 2] = "5A"
    BY <1>2, <1>5, BufferGoesOn
  <2>2. r + 1 \in 1..Len(buf) /\ (r + 1) + 1 = r + 2
    BY <1>2, <1>5
  <2>3. buf[r + 1] = "A5" /\ ~IsLine(k)
    BY <2>1, <2>2
  <2>4. ~(r + 2 <= Len(buf))
    <3>1. r + 2 <= Len(buf) => r + 1 < Len(buf) /\ buf[r + 2] = "5A"
      BY <1>2, <2>1, <2>3
    <3> QED
      BY <2>2, <2>3, <3>1
  <2>5. Len(unread) = Len(f) - 1
    BY <1>2, <1>5, <2>4
  <2>6. k \in Damaged
    <3>1. sent[k].kind = "frame"
      <4>1. sent[k] \in Items
        BY <1>1, <2>1
      <4> QED
        BY <2>3, <4>1, EncodeOfFrame, Zenon DEF IsLine
    <3>2. k \in SplitAt(Len(unread))
      BY <1>1, <2>1, <2>5, <3>1 DEF SplitAt, From
    <3> QED
      BY <3>2 DEF Damaged
  <2>7. AllPlain
    BY <2>6
  <2>8. Left' = Len(f) - 1
    BY <1>3, <2>5
  <2>9. At(k + 1)'
    BY <2>1, <2>3, <2>5, <2>6, <2>7, <2>8, FrameLost
  <2>10. k + 1 \in 1..(Len(sent) + 1)
    BY <1>1, <2>1
  <2> QED
    BY <2>9, <2>10
<1> QED
  BY <1>2, <1>4, <1>5

\* Or it is cut back to where the next item begins.
LEMMA StepSkip ==
    ASSUME ParserTypes, NEW k \in 1..(Len(sent) + 1), At(k), NEW z \in 1..Len(buf),
           buf[z] = "brace" \/ (z < Len(buf) /\ buf[z] = "A5" /\ buf[z + 1] = "5A"),
           \A i \in 1..Len(buf) :
              buf[i] = "brace" \/ (i < Len(buf) /\ buf[i] = "A5" /\ buf[i + 1] = "5A") => z <= i,
           Dropping(z - 1), parsing, UNCHANGED <<sent, unread, parsing, items, split>>
    PROVE  At(k)'
<1> DEFINE f == From(sent, k)
<1>1. sent \in Seq(Items) /\ Len(sent) \in Nat
  BY DEF ParserTypes
<1>2. PICK r \in Nat :
         /\ Len(buf) \in Nat /\ Len(unread) \in Nat /\ Len(f) \in Nat
         /\ r = Len(buf) + Len(unread) - Len(f)
         /\ \A p \in 1..Len(buf) : p <= r => buf[p] \notin {"brace", "A5"}
  BY BufferOf, Zenon
<1>3. ~(z <= r)
  BY <1>2
<1>4. r < Len(buf)
  BY <1>2, <1>3
<1>5. /\ buf[r + 1] = "brace" \/ buf[r + 1] = "A5"
      /\ buf[r + 1] = "A5" /\ r + 2 <= Len(buf) => buf[r + 2] = "5A"
  BY <1>2, <1>4, BufferGoesOn
<1>6. z <= r + 1
  <2> SUFFICES ASSUME z > r + 1 PROVE FALSE
    BY <1>2
  <2>1. r + 1 \in 1..Len(buf) /\ r + 2 <= Len(buf) /\ r + 1 < Len(buf) /\ (r + 1) + 1 = r + 2
        /\ ~(z <= r + 1)
    BY <1>2
  <2>2. buf[r + 1] = "brace" \/ (r + 1 < Len(buf) /\ buf[r + 1] = "A5" /\ buf[(r + 1) + 1] = "5A")
    BY <1>5, <2>1
  <2> QED
    BY <2>1, <2>2
<1>7. z - 1 = r
  <2>1. z \in Nat
    OBVIOUS
  <2> QED
    BY <1>3, <1>6, <2>1
<1>8. Left' = Len(f)
  <2>1. /\ buf' = SubSeq(buf, r + 1, Len(buf)) /\ unread' = unread /\ sent' = sent
        /\ r <= Len(buf)
    <3>1. buf' = SubSeq(buf, (z - 1) + 1, Len(buf))
      BY DEF Dropping
    <3>2. Len(buf) \in Nat
      BY <1>2, Zenon
    <3>3. r <= Len(buf)
      BY <1>4, <3>2
    <3> QED
      BY <1>7, <3>1, <3>3
  <2>2. Left' = Left - r
    BY <2>1, DropOf
  <2> QED
    BY <1>2, <2>2 DEF Left
<1>9. Came(items', sent, Kept(k)) /\ ~Swallowed(k) /\ k \in k..(Len(sent) + 1)
  BY CameFrom DEF At
<1> QED
  BY <1>8, <1>9, Lands

\* Dropping what is no start keeps the parser at some item.
LEMMA StepResync ==
    ASSUME ParserTypes, NEW k \in 1..(Len(sent) + 1), At(k), AllPlain \/ Damaged = {},
           SplitAt(Len(unread)) \subseteq split, Resync
    PROVE  \E m \in 1..(Len(sent) + 1) : At(m)'
<1> DEFINE starts == {i \in DOMAIN buf :
                         \/ buf[i] = "brace"
                         \/ i < Len(buf) /\ buf[i] = "A5" /\ buf[i + 1] = "5A"}
<1>1. /\ parsing /\ buf # << >> /\ UNCHANGED <<sent, unread, items, split>>
      /\ DOMAIN buf = 1..Len(buf)
  BY DEF Resync, ParserTypes
<1>2. CASE starts = {}
  <2>1. buf' = << >> /\ parsing' = FALSE
    BY <1>2 DEF Resync
  <2>2. /\ \A i \in 1..Len(buf) : buf[i] # "brace"
        /\ \A i \in 1..Len(buf) : ~(i < Len(buf) /\ buf[i] = "A5" /\ buf[i + 1] = "5A")
    BY <1>1, <1>2
  <2> QED
    BY <1>1, <2>1, <2>2, StepClear
<1>3. CASE starts # {}
  <2>1. UNCHANGED parsing /\ \E i \in starts : (\A j \in starts : i <= j) /\ Dropping(i - 1)
    BY <1>3 DEF Resync
  <2>2. PICK z \in starts : (\A j \in starts : z <= j) /\ Dropping(z - 1)
    BY <2>1
  <2>3. /\ z \in 1..Len(buf)
        /\ buf[z] = "brace" \/ (z < Len(buf) /\ buf[z] = "A5" /\ buf[z + 1] = "5A")
        /\ \A i \in 1..Len(buf) :
              buf[i] = "brace" \/ (i < Len(buf) /\ buf[i] = "A5" /\ buf[i + 1] = "5A") => z <= i
    BY <1>1, <2>2
  <2>4. At(k)'
    BY <1>1, <2>1, <2>2, <2>3, StepSkip
  <2> QED
    BY <2>4
<1> QED
  BY <1>2, <1>3

\* A read moves bytes from the line to the buffer.
LEMMA ReadOf ==
    ASSUME ParserTypes, NEW n \in 1..MaxChunk, Read(n)
    PROVE  /\ Left' = Left /\ Line' = Line /\ Follows'
           /\ buf' \in Seq(Alphabet) /\ unread' \in Seq(Alphabet)
           /\ Len(unread) \in Nat /\ Len(unread') \in Nat /\ Len(unread') < Len(unread)
           /\ Len(buf) \in Nat
<1>1. /\ sent \in Seq(Items) /\ buf \in Seq(Alphabet) /\ unread \in Seq(Alphabet) /\ Follows
  BY DEF ParserTypes
<1>2. /\ n \in 1..Len(unread) /\ buf' = buf \o SubSeq(unread, 1, n)
      /\ unread' = SubSeq(unread, n + 1, Len(unread)) /\ sent' = sent
  BY DEF Read
<1>3. Len(buf) \in Nat /\ Len(unread) \in Nat /\ n \in Nat
  BY <1>1, <1>2
<1> DEFINE taken == SubSeq(unread, 1, n)
           rest == SubSeq(unread, n + 1, Len(unread))
<1>4. /\ taken \in Seq(Alphabet) /\ Len(taken) = n
      /\ \A p \in 1..n : taken[p] = unread[p]
  <2>1. \A i \in 1..n : unread[i] \in Alphabet
    BY <1>1, <1>2
  <2>2. Len(taken) = n
    BY <1>2, <1>3, <2>1, SubSeqProperties
  <2>3. taken \in Seq(Alphabet) /\ \A p \in 1..n : taken[p] = unread[1 + p - 1]
    BY <1>2, <1>3, <2>1, <2>2, SubSeqProperties
  <2>4. \A p \in 1..n : 1 + p - 1 = p
    BY <1>3
  <2> QED
    BY <2>2, <2>3, <2>4
<1>5. /\ rest \in Seq(Alphabet) /\ Len(rest) = Len(unread) - n
      /\ \A p \in 1..(Len(unread) - n) : rest[p] = unread[n + p]
  <2>1. \A i \in (n + 1)..Len(unread) : unread[i] \in Alphabet
    BY <1>1, <1>3
  <2>2. Len(rest) = Len(unread) - n
    BY <1>2, <1>3, <2>1, SubSeqProperties
  <2>3. rest \in Seq(Alphabet) /\ \A p \in 1..(Len(unread) - n) : rest[p] = unread[n + 1 + p - 1]
    BY <1>2, <1>3, <2>1, <2>2, SubSeqProperties
  <2>4. \A p \in 1..(Len(unread) - n) : n + 1 + p - 1 = n + p
    BY <1>3
  <2> QED
    BY <2>2, <2>3, <2>4
<1> HIDE DEF taken, rest
<1>6. buf' = buf \o taken /\ unread' = rest
  BY <1>2 DEF taken, rest
<1>7. /\ buf' \in Seq(Alphabet) /\ Len(buf') = Len(buf) + n
      /\ \A p \in 1..(Len(buf) + n) :
            buf'[p] = IF p <= Len(buf) THEN buf[p] ELSE taken[p - Len(buf)]
  <2>1. /\ buf' \in Seq(Alphabet) /\ Len(buf') = Len(buf) + Len(taken)
        /\ \A p \in 1..(Len(buf) + Len(taken)) :
              buf'[p] = IF p <= Len(buf) THEN buf[p] ELSE taken[p - Len(buf)]
    BY <1>1, <1>4, <1>6, ConcatProperties
  <2>2. Len(taken) = n
    BY <1>4
  <2> QED
    BY <2>1, <2>2
<1>8. Len(unread') = Len(unread) - n /\ unread' \in Seq(Alphabet)
  BY <1>5, <1>6
<1>9. Left' = Left
  <2>1. Left' = Len(buf') + Len(unread')
    BY DEF Left
  <2>2. Len(buf') = Len(buf) + n
    BY <1>7
  <2> QED
    BY <1>3, <1>8, <2>1, <2>2 DEF Left
<1>10. Line' = Line
  BY <1>2 DEF Line, From
<1>11. PICK N \in Nat : N = Len(Line)
  BY <1>1, FromLater DEF Line
<1>12. PICK l \in Nat : l = Left /\ l = Len(buf) + Len(unread) /\ l <= N
  BY <1>1, <1>3, <1>11 DEF Left, Follows
<1>13. /\ \A p \in 1..Len(buf) : buf[p] = Line[N - l + p]
       /\ \A p \in 1..Len(unread) : unread[p] = Line[N - Len(unread) + p]
  BY <1>1, <1>11, <1>12 DEF Follows
<1>14. ASSUME NEW p \in 1..Len(buf') PROVE buf'[p] = Line[N - l + p]
  <2>1. p \in 1..(Len(buf) + n) /\ Len(buf) + n \in Nat
    BY <1>3, <1>7
  <2>2. CASE p <= Len(buf)
    <3>1. p \in 1..Len(buf) /\ buf'[p] = buf[p]
      BY <1>3, <1>7, <2>1, <2>2
    <3> QED
      BY <1>13, <3>1
  <2>3. CASE ~(p <= Len(buf))
    <3>1. buf'[p] = taken[p - Len(buf)] /\ p - Len(buf) \in 1..n
      BY <1>3, <1>7, <2>1, <2>3
    <3>2. p - Len(buf) \in 1..Len(unread)
      BY <1>2, <1>3, <3>1
    <3>3. unread[p - Len(buf)] = Line[N - Len(unread) + (p - Len(buf))]
      BY <1>13, <3>2
    <3>4. N - Len(unread) + (p - Len(buf)) = N - l + p
      BY <1>3, <1>12, <2>1
    <3> QED
      BY <1>4, <3>1, <3>3, <3>4
  <2> QED
    BY <2>2, <2>3
<1>15. ASSUME NEW p \in 1..Len(unread') PROVE unread'[p] = Line[N - Len(unread') + p]
  <2>1. p \in 1..(Len(unread) - n) /\ n + p \in 1..Len(unread)
    BY <1>3, <1>8
  <2>2. unread'[p] = unread[n + p] /\ unread[n + p] = Line[N - Len(unread) + (n + p)]
    BY <1>5, <1>6, <1>13, <2>1
  <2>3. N - Len(unread) + (n + p) = N - Len(unread') + p
    BY <1>3, <1>8, <2>1
  <2> QED
    BY <2>2, <2>3
<1>16. Follows'
  <2>1. Left' <= N
    BY <1>9, <1>12
  <2>2. Len(Line)' = N
    BY <1>10, <1>11
  <2> QED
    BY <1>9, <1>10, <1>12, <1>14, <1>15, <2>1, <2>2 DEF Follows
<1>17. Len(unread') \in Nat /\ Len(unread') < Len(unread)
  <2>1. Len(unread') \in Nat
    BY <1>8
  <2> QED
    BY <1>2, <1>3, <1>8, <2>1
<1> QED
  BY <1>3, <1>7, <1>8, <1>9, <1>10, <1>16, <1>17

\* The next item stays the next; what is split now comes after it.
LEMMA StepRead ==
    ASSUME ParserTypes, NEW k \in 1..(Len(sent) + 1), At(k), NEW n \in 1..MaxChunk, Read(n)
    PROVE  At(k)' /\ (Damaged' = {} => Damaged = {})
<1>1. /\ sent \in Seq(Items) /\ Len(sent) \in Nat /\ DOMAIN sent = 1..Len(sent)
      /\ split \subseteq 1..Len(sent)
  BY DEF ParserTypes
<1>2. /\ Left' = Left /\ Line' = Line /\ Len(unread) \in Nat /\ Len(unread') \in Nat
      /\ Len(unread') < Len(unread) /\ Len(buf) \in Nat
  BY ReadOf
<1>3. /\ ~parsing /\ parsing' = TRUE /\ sent' = sent /\ items' = items
      /\ split' = split \cup SplitAt(Len(unread'))
  BY DEF Read
<1>4. /\ \A i : Swallowed(i)' <=> Swallowed(i)
      /\ \A i : IsLine(i)' <=> IsLine(i)
      /\ \A i : LineYields(i)' <=> LineYields(i)
      /\ \A i : From(sent, i)' = From(sent, i)
  BY <1>3 DEF Swallowed, EndsLine, IsLine, LineYields, From
<1>5. Damaged' = Damaged \cup SplitAt(Len(unread'))
  BY <1>3 DEF Damaged
<1>6. ASSUME NEW i \in SplitAt(Len(unread'))
      PROVE  i \in 1..Len(sent) /\ Len(unread') = Len(From(sent, i)) - 1
  BY <1>1 DEF SplitAt, From
<1>7. ASSUME NEW i \in 1..(k - 1) PROVE i \notin SplitAt(Len(unread'))
  <2> SUFFICES ASSUME i \in SplitAt(Len(unread')) PROVE FALSE
    OBVIOUS
  <2>1. Len(unread') = Len(From(sent, i)) - 1 /\ Left < Len(From(sent, i))
    BY <1>6 DEF At
  <2>2. Len(From(sent, i)) \in Nat /\ Left = Len(buf) + Len(unread)
    BY <1>1, FromOf DEF Left
  <2> QED
    BY <1>2, <2>1, <2>2
<1>8. \A i \in 1..(k - 1) : Survives(i)' <=> Survives(i)
  BY <1>4, <1>5, <1>7 DEF Survives
<1>9. ComesFrom({i \in 1..(k - 1) : Survives(i)})'
  <2>1. {i \in 1..(k - 1) : Survives(i)}' = {i \in 1..(k - 1) : Survives(i)}
    BY <1>8
  <2>2. ComesFrom({i \in 1..(k - 1) : Survives(i)})
    BY DEF At
  <2> QED
    BY <1>3, <2>1, <2>2 DEF ComesFrom, IsLine
<1>10. Damaged' = {} => Damaged = {}
  BY <1>5
<1>11. ASSUME NEW i \in split', i >= k, ~Swallowed(i)'
       PROVE  parsing' /\ Len(unread') = Len(From(sent, i)') - 1
  <2>1. i \notin split
    BY <1>3, <1>4, <1>11 DEF At
  <2>2. i \in SplitAt(Len(unread'))
    BY <1>3, <2>1
  <2> QED
    BY <1>3, <1>4, <1>6, <2>2
<1>12. At(k)'
  <2>1. ~Swallowed(k)' /\ Len(From(sent, k)') <= Left'
    BY <1>2, <1>4 DEF At
  <2>2. \A p \in 1..(Left' - Len(From(sent, k)')) :
           Line'[Len(Line') - Left' + p] \notin {"brace", "A5"}
    BY <1>2, <1>4 DEF At
  <2>3. Damaged' = {} => Left' = Len(From(sent, k)')
    BY <1>2, <1>4, <1>10 DEF At
  <2>4. \A i \in 1..(k - 1) : Left' < Len(From(sent, i)')
    BY <1>2, <1>4 DEF At
  <2> QED
    BY <1>9, <1>11, <2>1, <2>2, <2>3, <2>4 DEF At
<1> QED
  BY <1>10, <1>12

\* Each step keeps the types and leaves the buffer and what is unread the end of the line.
LEMMA StepTypes ==
    ASSUME ParserTypes, FNext
    PROVE  ParserTypes'
<1>1. /\ sent \in Seq(Items) /\ buf \in Seq(Alphabet) /\ unread \in Seq(Alphabet)
      /\ items \in Seq(Parsed) /\ split \subseteq DOMAIN sent /\ Follows
      /\ \A i \in split : sent[i].kind = "frame"
      /\ Len(buf) \in Nat /\ Len(unread) \in Nat
  BY DEF ParserTypes
<1>2. JsonLine \in Parsed
  BY DEF Parsed
<1>3. ASSUME NEW n \in 1..MaxChunk, Read(n) PROVE ParserTypes'
  <2>1. /\ sent' = sent /\ items' = items /\ parsing' = TRUE
        /\ split' = split \cup SplitAt(Len(unread'))
    BY <1>3 DEF Read
  <2>2. \A i \in SplitAt(Len(unread')) : i \in DOMAIN sent /\ sent[i].kind = "frame"
    BY DEF SplitAt
  <2>3. Follows' /\ buf' \in Seq(Alphabet) /\ unread' \in Seq(Alphabet)
    BY <1>3, ReadOf
  <2> QED
    BY <1>1, <2>1, <2>2, <2>3 DEF ParserTypes
<1>4. ASSUME NEW m \in Nat, m <= Len(buf), buf' = SubSeq(buf, m + 1, Len(buf)),
             UNCHANGED <<sent, unread, split>>, parsing' \in BOOLEAN, items' \in Seq(Parsed)
      PROVE  ParserTypes'
  <2>1. buf' \in Seq(Alphabet) /\ Follows'
    BY <1>4, DropOf
  <2> QED
    BY <1>1, <1>4, <2>1 DEF ParserTypes
<1>5. ASSUME NeedMore PROVE ParserTypes'
  <2>1. Left' = Left /\ Line' = Line
    BY <1>5 DEF NeedMore, Left, Line, From
  <2> QED
    BY <1>1, <1>5, <2>1 DEF NeedMore, ParserTypes, Follows
<1>6. ASSUME TakeJson PROVE ParserTypes'
  <2>1. PICK end \in 1..Len(buf) :
           /\ Dropping(end)
           /\ items' = IF HasObject(end) THEN Append(items, JsonLine) ELSE items
    <3>1. DOMAIN buf = 1..Len(buf)
      BY <1>1
    <3> QED
      BY <1>6, <3>1 DEF TakeJson
  <2>2. items' \in Seq(Parsed)
    BY <1>1, <1>2, <2>1
  <2>3. /\ end \in Nat /\ end <= Len(buf) /\ buf' = SubSeq(buf, end + 1, Len(buf))
    BY <1>1, <2>1 DEF Dropping
  <2>4. UNCHANGED <<sent, unread, split>> /\ parsing' \in BOOLEAN
    BY <1>6 DEF TakeJson
  <2> QED
    BY <1>4, <2>2, <2>3, <2>4
<1>7. ASSUME TakeFrame PROVE ParserTypes'
  <2>1. UNCHANGED <<sent, unread, split>> /\ parsing' \in BOOLEAN /\ Len(buf) >= 6
    BY <1>7 DEF TakeFrame
  <2>2. PICK n \in {1, 2} : n = (IF buf[4] = "n2" THEN 2 ELSE 1)
    OBVIOUS
  <2>3. \/ Dropping(1) /\ UNCHANGED items
        \/ /\ Len(buf) >= 5 + n /\ Dropping(5 + n)
           /\ items' = Append(items, Frame(SubSeq(buf, 5, 4 + n), "k"))
    BY <1>7, <2>2 DEF TakeFrame
  <2>4. CASE Dropping(1) /\ UNCHANGED items
    <3>1. /\ 1 \in Nat /\ 1 <= Len(buf) /\ buf' = SubSeq(buf, 1 + 1, Len(buf))
          /\ items' \in Seq(Parsed)
      BY <1>1, <2>1, <2>4 DEF Dropping
    <3> QED
      BY <1>4, <2>1, <3>1
  <2>5. CASE /\ Len(buf) >= 5 + n /\ Dropping(5 + n)
             /\ items' = Append(items, Frame(SubSeq(buf, 5, 4 + n), "k"))
    <3>1. SubSeq(buf, 5, 4 + n) \in Seq(Alphabet)
      <4>1. \A i \in 5..(4 + n) : buf[i] \in Alphabet
        BY <1>1, <2>5
      <4> QED
        BY <1>1, <4>1, SubSeqProperties
    <3>2. Frame(SubSeq(buf, 5, 4 + n), "k") \in Parsed
      BY <3>1, Zenon DEF Parsed
    <3>3. items' \in Seq(Parsed)
      BY <1>1, <2>5, <3>2, AppendProperties
    <3>4. /\ 5 + n \in Nat /\ 5 + n <= Len(buf) /\ buf' = SubSeq(buf, (5 + n) + 1, Len(buf))
      BY <1>1, <2>5 DEF Dropping
    <3> QED
      BY <1>4, <2>1, <3>3, <3>4
  <2> QED
    BY <2>3, <2>4, <2>5
<1>8. ASSUME Resync PROVE ParserTypes'
  <2>1. UNCHANGED <<sent, unread, items, split>> /\ parsing' \in BOOLEAN
    BY <1>1, <1>8 DEF Resync, ParserTypes
  <2>2. buf' = << >> \/ \E i \in DOMAIN buf : Dropping(i - 1)
    BY <1>8 DEF Resync
  <2>3. CASE buf' = << >>
    <3>1. SubSeq(buf, Len(buf) + 1, Len(buf)) = << >>
      BY <1>1
    <3>2. buf' = SubSeq(buf, Len(buf) + 1, Len(buf)) /\ Len(buf) <= Len(buf)
      BY <1>1, <2>3, <3>1
    <3>3. items' \in Seq(Parsed) /\ UNCHANGED <<sent, unread, split>> /\ parsing' \in BOOLEAN
      BY <1>1, <2>1
    <3> QED
      BY <1>1, <1>4, <3>2, <3>3
  <2>4. CASE \E i \in DOMAIN buf : Dropping(i - 1)
    <3>1. PICK i \in 1..Len(buf) : Dropping(i - 1)
      <4>1. DOMAIN buf = 1..Len(buf)
        BY <1>1
      <4> QED
        BY <2>4, <4>1
    <3>2. i - 1 \in Nat /\ i - 1 <= Len(buf)
      BY <1>1
    <3>3. buf' = SubSeq(buf, (i - 1) + 1, Len(buf))
      BY <3>1 DEF Dropping
    <3> QED
      BY <1>1, <1>4, <2>1, <3>2, <3>3
  <2> QED
    BY <2>2, <2>3, <2>4
<1> QED
  BY <1>3, <1>5, <1>6, <1>7, <1>8 DEF FNext, Extract

\* Before anything is read, the first item is next.
LEMMA ParserStart ==
    ASSUME FInit
    PROVE  ParserInv
<1>1. sent \in Seq(Items) /\ Len(sent) \in Nat /\ DOMAIN sent = 1..Len(sent)
  BY ParserBounds DEF FInit, BoundedSeq, SeqOf
<1>2. /\ unread = Bytes(sent) /\ buf = << >> /\ parsing = FALSE /\ items = << >> /\ split = {}
  BY DEF FInit
<1>3. /\ Line = unread /\ Len(Line) \in Nat /\ unread \in Seq(Alphabet)
      /\ unread = From(sent, 1)
  BY <1>1, <1>2, FromOf, 1 \in 1..(Len(sent) + 1) DEF Line
<1>4. Len(buf) = 0 /\ Left = Len(Line)
  <2>1. Len(buf) = 0
    BY <1>2
  <2> QED
    BY <1>3, <2>1 DEF Left
<1>5. Follows
  BY <1>3, <1>4 DEF Follows
<1>6. ParserTypes
  <2>1. buf \in Seq(Alphabet) /\ items \in Seq(Parsed)
    BY <1>2
  <2>2. parsing \in BOOLEAN /\ split \subseteq DOMAIN sent /\ \A i \in split : FALSE
    BY <1>2
  <2> QED
    BY <1>1, <1>3, <1>5, <2>1, <2>2 DEF ParserTypes
<1>7. SplitAt(Len(unread)) = {}
  <2> SUFFICES ASSUME NEW i \in SplitAt(Len(unread)) PROVE FALSE
    OBVIOUS
  <2>1. i \in 1..Len(sent) /\ Len(unread) = Len(From(sent, i)) - 1
    BY <1>1 DEF SplitAt, From
  <2>2. i \in 1..(Len(sent) + 1) /\ 1 \in 1..i
    BY <1>1, <2>1
  <2>3. Len(From(sent, i)) <= Len(Line) /\ Len(From(sent, i)) \in Nat
    BY <1>1, <2>2, FromLater DEF Line
  <2> QED
    BY <1>3, <2>1, <2>3
<1>8. At(1)
  <2>1. 1..(1 - 1) = {}
    OBVIOUS
  <2>2. ~Swallowed(1)
    BY <2>1 DEF Swallowed
  <2>3. ComesFrom({})
    <3> DEFINE none == [m \in {} |-> m]
    <3>1. DOMAIN items = {} /\ none \in [{} -> DOMAIN sent] /\ {none[m] : m \in {}} = {}
      BY <1>2
    <3> HIDE DEF none
    <3> QED
      BY <3>1 DEF ComesFrom
  <2>4. ComesFrom({i \in 1..(1 - 1) : Survives(i)})
    <3>1. {i \in 1..(1 - 1) : Survives(i)} = {}
      BY <2>1
    <3> QED
      BY <2>3, <3>1
  <2>5. Left = Len(From(sent, 1)) /\ Len(From(sent, 1)) \in Nat
    BY <1>3, <1>4
  <2>6. 1..(Left - Len(From(sent, 1))) = {}
    BY <2>5
  <2> QED
    BY <1>2, <2>1, <2>2, <2>4, <2>5, <2>6 DEF At
<1>9. 1 \in 1..(Len(sent) + 1)
  BY <1>1
<1>10. Incomplete
  BY <1>2 DEF Incomplete
<1> QED
  BY <1>6, <1>7, <1>8, <1>9, <1>10 DEF ParserInv

\* Every step of the parser keeps some item the next one.
LEMMA ParserStep ==
    ASSUME ParserInv, [FNext]_fvars
    PROVE  ParserInv'
<1>1. /\ ParserTypes /\ (~parsing => Incomplete) /\ SplitAt(Len(unread)) \subseteq split
      /\ AllPlain \/ Damaged = {} => \E k \in 1..(Len(sent) + 1) : At(k)
  BY DEF ParserInv
<1>2. CASE UNCHANGED fvars
  <2>1. ParserTypes'
    BY <1>1, <1>2 DEF ParserTypes, Follows, Left, Line, From, fvars
  <2>2. Incomplete' <=> Incomplete
    BY <1>2 DEF Incomplete, AtJson, AtFrame, fvars
  <2>3. SplitAt(Len(unread))' = SplitAt(Len(unread))
    BY <1>2 DEF SplitAt, fvars
  <2>4. ASSUME NEW k \in 1..(Len(sent) + 1), At(k) PROVE At(k)'
    <3>1. Left' = Left /\ sent' = sent /\ split' = split /\ unread' = unread /\ items' = items
          /\ parsing' = parsing
      BY <1>2 DEF Left, fvars
    <3>2. Came(items', sent, Kept(k))
      BY <2>4, <3>1, CameFrom DEF At
    <3> QED
      BY <2>4, <3>1, <3>2, AtNext DEF At
  <2>5. Damaged' = Damaged /\ AllPlain' = AllPlain
    BY <1>2 DEF Damaged, AllPlain, fvars
  <2> QED
    BY <1>1, <1>2, <2>1, <2>2, <2>3, <2>4, <2>5 DEF ParserInv, fvars
<1>3. CASE FNext
  <2>1. ParserTypes'
    BY <1>1, <1>3, StepTypes
  <2>2. ~parsing' => Incomplete'
    <3>1. ASSUME NeedMore PROVE Incomplete'
      BY <3>1 DEF NeedMore, Incomplete, AtJson, AtFrame
    <3>2. ASSUME Resync, ~parsing' PROVE Incomplete'
      BY <3>2 DEF Resync, Incomplete
    <3>3. ASSUME NEW n \in 1..MaxChunk, Read(n) PROVE parsing'
      BY <3>3 DEF Read
    <3>4. ASSUME TakeJson \/ TakeFrame PROVE parsing'
      BY <3>4 DEF TakeJson, TakeFrame
    <3> QED
      BY <1>3, <3>1, <3>2, <3>3, <3>4 DEF FNext, Extract
  <2>3. SplitAt(Len(unread))' \subseteq split'
    <3>1. ASSUME NEW n \in 1..MaxChunk, Read(n) PROVE SplitAt(Len(unread))' \subseteq split'
      BY <3>1 DEF Read, SplitAt
    <3>2. ASSUME Extract PROVE UNCHANGED <<sent, unread, split>>
      BY <3>2 DEF Extract, NeedMore, TakeJson, TakeFrame, Resync
    <3>3. ASSUME UNCHANGED <<sent, unread, split>>
          PROVE  SplitAt(Len(unread))' \subseteq split'
      BY <1>1, <3>3 DEF SplitAt
    <3> QED
      BY <1>3, <3>1, <3>2, <3>3 DEF FNext
  <2>4. sent' = sent /\ AllPlain' = AllPlain
    BY <1>3 DEF FNext, Extract, Read, NeedMore, TakeJson, TakeFrame, Resync, AllPlain
  <2>5. ASSUME AllPlain \/ Damaged' = {} PROVE \E m \in 1..(Len(sent) + 1) : At(m)'
    <3>1. Damaged' = {} => Damaged = {}
      <4>1. split \subseteq split'
        BY <1>3 DEF FNext, Extract, Read, NeedMore, TakeJson, TakeFrame, Resync
      <4> QED
        BY <2>4, <4>1 DEF Damaged
    <3>2. PICK k \in 1..(Len(sent) + 1) : At(k)
      BY <1>1, <2>5, <3>1
    <3>3. AllPlain \/ Damaged = {}
      BY <2>5, <3>1
    <3>4. ASSUME NEW n \in 1..MaxChunk, Read(n) PROVE At(k)'
      BY <1>1, <3>2, <3>4, StepRead
    <3>5. ASSUME NeedMore PROVE At(k)'
      BY <1>1, <3>2, <3>5, StepNeedMore
    <3>6. ASSUME TakeJson PROVE \E m \in 1..(Len(sent) + 1) : At(m)'
      BY <1>1, <3>2, <3>3, <3>6, StepTakeJson
    <3>7. ASSUME TakeFrame PROVE \E m \in 1..(Len(sent) + 1) : At(m)'
      BY <1>1, <3>2, <3>3, <3>7, StepTakeFrame
    <3>8. ASSUME Resync PROVE \E m \in 1..(Len(sent) + 1) : At(m)'
      BY <1>1, <3>2, <3>3, <3>8, StepResync
    <3> QED
      BY <1>3, <3>4, <3>5, <3>6, <3>7, <3>8 DEF FNext, Extract
  <2>6. AllPlain' \/ Damaged' = {} => \E m \in 1..(Len(sent') + 1) : At(m)'
    BY <2>4, <2>5
  <2> QED
    BY <2>1, <2>2, <2>3, <2>6 DEF ParserInv
<1> QED
  BY <1>2, <1>3

\* The inductive invariant of the parser.
THEOREM ParserInvariant == FSpec => []ParserInv
<1>1. FInit => ParserInv
  BY ParserStart
<1>2. ParserInv /\ [FNext]_fvars => ParserInv'
  BY ParserStep
<1> QED
  BY <1>1, <1>2, PTL DEF FSpec

-----------------------------------------------------------------------------
(* What the invariant of the parser says once the line is drained.          *)

\* A sequence with the same elements as another, as far as it goes, is a prefix of it.
LEMMA PrefixOf ==
    ASSUME NEW A, NEW s \in Seq(A), NEW t \in Seq(A), Len(s) <= Len(t),
           \A i \in 1..Len(s) : s[i] = t[i]
    PROVE  IsPrefix(s, t)
<1>1. Len(s) \in Nat /\ Len(t) \in Nat
  OBVIOUS
<1>2. SubSeq(s, 1, Len(s)) = s
  OBVIOUS
<1> DEFINE u == SubSeq(t, 1, Len(s))
<1>3. u \in Seq(A) /\ Len(u) = Len(s) /\ \A i \in 1..Len(s) : u[i] = t[i]
  <2>1. \A i \in 1..Len(s) : t[i] \in A
    BY <1>1
  <2>2. Len(u) = Len(s)
    BY <1>1, <2>1, SubSeqProperties
  <2>3. u \in Seq(A) /\ \A i \in 1..Len(s) : u[i] = t[1 + i - 1]
    BY <1>1, <2>1, <2>2, SubSeqProperties
  <2>4. \A i \in 1..Len(s) : 1 + i - 1 = i
    BY <1>1
  <2> QED
    BY <2>2, <2>3, <2>4
<1> HIDE DEF u
<1>4. s = u
  BY <1>3, SeqEqual
<1> QED
  BY <1>2, <1>4 DEF IsPrefix, u

\* The positions of a strictly increasing sequence that takes all values up to h.
LEMMA Increasing ==
    ASSUME NEW n \in Nat, NEW h \in Nat, NEW f \in [1..n -> Nat],
           {f[m] : m \in 1..n} = 1..h, \A m, l \in 1..n : m < l => f[m] < f[l]
    PROVE  n = h /\ \A m \in 1..n : f[m] = m
<1> DEFINE T == {m \in Nat : m <= h => m <= n /\ \A l \in 1..m : f[l] = l}
<1>1. 0 \in T
  OBVIOUS
<1>2. ASSUME NEW m \in Nat, m \in T PROVE m + 1 \in T
  <2>1. ASSUME m + 1 <= h PROVE m + 1 <= n /\ \A l \in 1..(m + 1) : f[l] = l
    <3>1. m <= n /\ \A l \in 1..m : f[l] = l
      BY <1>2, <2>1
    <3>2. PICK j \in 1..n : f[j] = m + 1
      <4>1. m + 1 \in 1..h
        BY <2>1
      <4>2. m + 1 \in {f[j] : j \in 1..n}
        BY <4>1
      <4> QED
        BY <4>2
    <3>3. ~(j <= m)
      BY <3>1, <3>2
    <3>4. m + 1 \in 1..n
      BY <3>3
    <3>5. f[m + 1] <= m + 1
      BY <3>2, <3>3, <3>4
    <3>6. f[m + 1] >= m + 1
      <4>1. f[m + 1] \in 1..h
        BY <3>4
      <4>2. CASE m = 0
        BY <4>1, <4>2
      <4>3. CASE m > 0
        <5>1. m \in 1..n /\ m \in 1..m /\ m < m + 1
          BY <3>1, <4>3
        <5>2. f[m] = m /\ f[m] < f[m + 1]
          BY <3>1, <3>4, <5>1
        <5> QED
          BY <4>1, <5>2
      <4> QED
        BY <4>2, <4>3
    <3>7. f[m + 1] = m + 1
      BY <3>4, <3>5, <3>6
    <3>8. \A l \in 1..(m + 1) : l = m + 1 \/ l \in 1..m
      OBVIOUS
    <3> QED
      BY <3>1, <3>4, <3>7, <3>8
  <2> QED
    BY <2>1
<1> HIDE DEF T
<1>3. h \in T
  BY <1>1, <1>2, Induction
<1>4. h <= n /\ \A l \in 1..h : f[l] = l
  BY <1>3 DEF T
<1>5. ~(h < n)
  <2> SUFFICES ASSUME h < n PROVE FALSE
    OBVIOUS
  <2>1. h + 1 \in 1..n
    OBVIOUS
  <2>2. f[h + 1] \in 1..h
    BY <2>1
  <2>3. f[h + 1] \in 1..n /\ f[f[h + 1]] = f[h + 1] /\ f[h + 1] < h + 1
    BY <1>4, <2>2
  <2>4. f[f[h + 1]] < f[h + 1]
    BY <2>1, <2>3
  <2> QED
    BY <2>2, <2>3, <2>4
<1> QED
  BY <1>4, <1>5

\* Once nothing more comes, nothing is left in the buffer that would survive.
LEMMA NothingLeft ==
    ASSUME ParserTypes, NEW k \in 1..(Len(sent) + 1), At(k), Incomplete, unread = << >>,
           NEW i \in k..Len(sent)
    PROVE  ~Survives(i)
<1>1. /\ sent \in Seq(Items) /\ Len(sent) \in Nat /\ Len(buf) \in Nat /\ Len(unread) = 0
  BY DEF ParserTypes
<1>2. k \in 1..Len(sent) /\ i \in 1..Len(sent)
  BY <1>1
<1>3. /\ sent[k] \in Items /\ Len(Encode(sent[k])) \in Nat /\ Len(Encode(sent[k])) >= 2
      /\ Len(From(sent, k + 1)) \in Nat
      /\ Len(From(sent, k)) = Len(Encode(sent[k])) + Len(From(sent, k + 1))
  BY <1>1, <1>2, FromNext
<1>4. buf # << >>
  <2> SUFFICES ASSUME buf = << >> PROVE FALSE
    OBVIOUS
  <2>1. Len(From(sent, k)) <= 0
    <3>1. Len(buf) = 0
      OBVIOUS
    <3> QED
      BY <1>1, <3>1 DEF At, Left
  <2> QED
    BY <1>3, <2>1
<1>5. CASE AtJson /\ ~Contains(buf, "nl")
  <2>1. ASSUME NEW j \in k..Len(sent), EndsLine(j) PROVE FALSE
    <3>1. j \in 1..Len(sent)
      BY <1>2
    <3>2. Len(From(sent, j + 1)) \in Nat
      BY <1>1, <3>1, FromNext
    <3>3. Len(unread) <= Len(From(sent, j + 1))
      BY <1>1, <3>2
    <3> QED
      BY <1>5, <2>1, <3>3, NewlineInBuffer
  <2>2. IsLine(k)
    <3>1. buf[1] = Encode(sent[k])[1]
      <4>1. buf # << >> /\ buf[1] \in {"brace", "A5"}
        BY <1>5 DEF AtJson
      <4> QED
        BY <4>1, BufferStarts
    <3>2. buf[1] = "brace"
      BY <1>5 DEF AtJson
    <3>3. sent[k].kind # "json" => Encode(sent[k])[1] = "A5"
      BY <1>3, EncodeOfFrame, Zenon
    <3> QED
      BY <3>1, <3>2, <3>3 DEF IsLine
  <2>3. CASE i = k
    <3>1. ~LineYields(k)
      BY <2>1 DEF LineYields
    <3> QED
      BY <2>2, <2>3, <3>1 DEF Survives
  <2>4. CASE i # k
    <3>1. i \in (k + 1)..(Len(sent) + 1) /\ \A j \in k..(i - 1) : j \in k..Len(sent)
      BY <1>1, <1>2, <2>4
    <3>2. Swallowed(i)
      BY <1>1, <1>2, <2>1, <2>2, <3>1, WithinLine
    <3> QED
      BY <3>2 DEF Survives
  <2> QED
    BY <2>3, <2>4
<1>6. CASE AtFrame
  <2>1. Len(buf) = Len(From(sent, k))
    <3>1. Len(buf) + Len(unread) = Len(From(sent, k))
      BY <1>6, AtTheFrame, Zenon
    <3> QED
      BY <1>1, <3>1
  <2>2. PICK n \in {1, 2} : Len(Encode(sent[k])) = 5 + n
    <3>1. sent[k] \in Items /\ sent[k].kind # "json"
      BY <1>6, AtTheFrame, Zenon DEF IsLine
    <3>2. /\ Len(Encode(sent[k])) = 5 + Len(sent[k].body)
          /\ Len(sent[k].body) \in {1, 2}
      BY <3>1, EncodeOfFrame, Zenon
    <3> QED
      BY <3>2
  <2>3. Len(buf) >= 5 + n /\ Len(buf) >= 6
    BY <1>3, <2>1, <2>2
  <2>4. n = (IF buf[4] = "n2" THEN 2 ELSE 1)
    <3>1. PICK m \in {1, 2} : m = (IF buf[4] = "n2" THEN 2 ELSE 1)
                              /\ Len(Encode(sent[k])) = 5 + m
      BY <1>6, <2>3, WholeFrame
    <3> QED
      BY <2>2, <3>1
  <2>5. buf[1] # "brace"
    BY <1>6 DEF AtFrame
  <2>6. ~(Len(buf) < 6) /\ ~(Len(buf) < 5 + (IF buf[4] = "n2" THEN 2 ELSE 1))
    BY <1>1, <2>3, <2>4
  <2> QED
    BY <1>4, <2>5, <2>6 DEF Incomplete, AtJson
<1> QED
  BY <1>4, <1>5, <1>6 DEF Incomplete

\* Without damage everything survives, and comes out as it was sent.
LEMMA Undamaged ==
    ASSUME ParserTypes, Damaged = {}, NEW k \in 1..(Len(sent) + 1), At(k)
    PROVE  /\ \A i \in 1..Len(sent) : Survives(i)
           /\ Len(items) = k - 1 /\ \A i \in 1..(k - 1) : items[i] = sent[i]
<1>1. /\ sent \in Seq(Items) /\ Len(sent) \in Nat /\ DOMAIN sent = 1..Len(sent)
      /\ items \in Seq(Parsed) /\ Len(items) \in Nat /\ DOMAIN items = 1..Len(items)
  BY DEF ParserTypes
<1>2. \A i \in 1..Len(sent) : IsLine(i) => sent[i] = JsonLine /\ EndsLine(i)
  <2>1. ASSUME NEW i \in 1..Len(sent), IsLine(i) PROVE sent[i] = JsonLine
    BY <1>1, <2>1 DEF Damaged, IsLine
  <2> QED
    BY <2>1 DEF EndsLine, JsonLine, Json
<1>3. ASSUME NEW i \in 1..Len(sent) PROVE Survives(i)
  <2>1. ~Swallowed(i)
    <3> SUFFICES ASSUME NEW j \in 1..(i - 1), IsLine(j), \A m \in j..(i - 1) : ~EndsLine(m)
                 PROVE  FALSE
      BY DEF Swallowed
    <3>1. j \in 1..Len(sent) /\ j \in j..(i - 1)
      OBVIOUS
    <3> QED
      BY <1>2, <3>1
  <2>2. IsLine(i) => LineYields(i)
    <3> SUFFICES ASSUME IsLine(i) PROVE LineYields(i)
      OBVIOUS
    <3>1. i \in i..Len(sent) /\ i..(i - 1) = {} /\ i \in i..i
      OBVIOUS
    <3>2. EndsLine(i) /\ sent[i].ok
      BY <1>2 DEF JsonLine, Json
    <3> QED
      BY <3>1, <3>2 DEF LineYields
  <2> QED
    BY <2>1, <2>2 DEF Survives
<1>4. Kept(k) = 1..(k - 1)
  <2>1. \A i \in 1..(k - 1) : i \in 1..Len(sent)
    BY <1>1
  <2> QED
    BY <1>3, <2>1 DEF Kept
<1>5. PICK n \in Nat : n = Len(items)
  BY <1>1
<1>6. Came(items, sent, 1..(k - 1))
  BY <1>4, CameFrom DEF At
<1>7. PICK from \in [1..n -> 1..Len(sent)] :
         /\ {from[m] : m \in 1..n} = 1..(k - 1)
         /\ \A m, l \in 1..n : m < l => from[m] < from[l]
         /\ \A m \in 1..n :
               items[m] = IF sent[from[m]].kind = "json" THEN JsonLine ELSE sent[from[m]]
  <2>1. DOMAIN items = 1..n /\ DOMAIN sent = 1..Len(sent)
    BY <1>1, <1>5
  <2> QED
    BY <1>6, <2>1, Zenon DEF Came
<1>8. n = k - 1 /\ \A m \in 1..n : from[m] = m
  <2>1. from \in [1..n -> Nat] /\ k - 1 \in Nat
    BY <1>1
  <2> QED
    BY <1>7, <2>1, Increasing
<1>9. ASSUME NEW i \in 1..(k - 1) PROVE items[i] = sent[i]
  <2>1. i \in 1..n /\ i \in 1..Len(sent) /\ from[i] = i
    BY <1>1, <1>8
  <2>2. items[i] = IF sent[i].kind = "json" THEN JsonLine ELSE sent[i]
    BY <1>7, <2>1
  <2> QED
    BY <1>2, <2>1, <2>2 DEF IsLine
<1> QED
  BY <1>3, <1>5, <1>8, <1>9

\* What the invariant says of the buffer is what the type invariant says.
LEMMA InvGivesTypes == ParserInv => FTypeOK
<1> SUFFICES ASSUME ParserInv PROVE FTypeOK
  OBVIOUS
<1>1. /\ sent \in Seq(Items) /\ buf \in Seq(Alphabet) /\ unread \in Seq(Alphabet)
      /\ parsing \in BOOLEAN /\ items \in Seq(Parsed) /\ split \subseteq DOMAIN sent /\ Follows
  BY DEF ParserInv, ParserTypes
<1>2. \A i \in DOMAIN items : items[i].kind \in {"json", "frame"}
  <2>1. \A x \in Parsed : x.kind \in {"json", "frame"}
    BY DEF Parsed, JsonLine, Json, Frame
  <2> QED
    BY <1>1, <2>1
<1> DEFINE rest == buf \o unread
           B == Bytes(sent)
<1>3. /\ Len(buf) \in Nat /\ Len(unread) \in Nat /\ rest \in Seq(Alphabet)
      /\ Len(rest) = Len(buf) + Len(unread)
      /\ \A p \in 1..(Len(buf) + Len(unread)) :
            rest[p] = IF p <= Len(buf) THEN buf[p] ELSE unread[p - Len(buf)]
  BY <1>1, ConcatProperties
<1>4. B = Line /\ B \in Seq(Alphabet)
  BY <1>1, FromOf, BytesOf DEF Line
<1> HIDE DEF rest, B
<1>5. Len(B) \in Nat /\ Len(rest) <= Len(B)
  BY <1>1, <1>3, <1>4 DEF Follows, Left
<1>6. ASSUME NEW p \in 1..Len(rest) PROVE rest[p] = B[Len(B) - Len(rest) + p]
  <2>1. CASE p <= Len(buf)
    <3>1. p \in 1..Len(buf) /\ rest[p] = buf[p]
      BY <1>3, <2>1
    <3>2. buf[p] = B[Len(B) - Left + p]
      BY <1>1, <1>4, <3>1 DEF Follows
    <3> QED
      BY <1>3, <3>1, <3>2 DEF Left
  <2>2. CASE ~(p <= Len(buf))
    <3>1. p - Len(buf) \in 1..Len(unread) /\ rest[p] = unread[p - Len(buf)]
      BY <1>3, <2>2
    <3>2. unread[p - Len(buf)] = B[Len(B) - Len(unread) + (p - Len(buf))]
      BY <1>1, <1>4, <3>1 DEF Follows
    <3>3. Len(B) - Len(unread) + (p - Len(buf)) = Len(B) - Len(rest) + p
      BY <1>3, <1>5
    <3> QED
      BY <3>1, <3>2, <3>3
  <2> QED
    BY <2>1, <2>2
<1>7. IsSuffix(rest, B)
  <2> DEFINE r == Reverse(rest)
             b == Reverse(B)
  <2>1. /\ r \in Seq(Alphabet) /\ Len(r) = Len(rest)
        /\ \A i \in 1..Len(rest) : r[i] = rest[Len(rest) - i + 1]
    <3>1. \A i \in 1..Len(rest) : Len(rest) - i + 1 \in 1..Len(rest)
      BY <1>3
    <3> QED
      BY <1>3, <3>1 DEF Reverse
  <2>2. /\ b \in Seq(Alphabet) /\ Len(b) = Len(B)
        /\ \A i \in 1..Len(B) : b[i] = B[Len(B) - i + 1]
    <3>1. \A i \in 1..Len(B) : Len(B) - i + 1 \in 1..Len(B)
      BY <1>5
    <3> QED
      BY <1>4, <1>5, <3>1 DEF Reverse
  <2> HIDE DEF r, b
  <2>3. ASSUME NEW i \in 1..Len(rest) PROVE r[i] = b[i]
    <3>1. /\ Len(rest) - i + 1 \in 1..Len(rest) /\ i \in 1..Len(B)
          /\ Len(B) - Len(rest) + (Len(rest) - i + 1) = Len(B) - i + 1
      BY <1>3, <1>5
    <3>2. rest[Len(rest) - i + 1] = B[Len(B) - Len(rest) + (Len(rest) - i + 1)]
      BY <1>6, <3>1
    <3> QED
      BY <2>1, <2>2, <3>1, <3>2
  <2>4. IsPrefix(r, b)
    <3>1. Len(r) <= Len(b) /\ \A i \in 1..Len(r) : r[i] = b[i]
      BY <1>5, <2>1, <2>2, <2>3
    <3> QED
      BY <2>1, <2>2, <3>1, PrefixOf
  <2> QED
    BY <2>4 DEF IsSuffix, r, b
<1> QED
  BY <1>1, <1>2, <1>7 DEF FTypeOK, rest, B

\* Undamaged, what comes out is what was sent.
LEMMA InvGivesParsing == ParserInv => ParsesWhatWasSent
<1> SUFFICES ASSUME ParserInv, Damaged = {}
             PROVE  IsPrefix(items, sent) /\ (Drained => items = sent)
  BY DEF ParsesWhatWasSent
<1>1. /\ ParserTypes /\ sent \in Seq(Items) /\ Len(sent) \in Nat /\ items \in Seq(Parsed)
      /\ ~parsing => Incomplete
  BY DEF ParserInv, ParserTypes
<1>2. PICK k \in 1..(Len(sent) + 1) : At(k)
  BY DEF ParserInv
<1>3. /\ \A i \in 1..Len(sent) : Survives(i)
      /\ Len(items) = k - 1 /\ \A i \in 1..(k - 1) : items[i] = sent[i]
  BY <1>1, <1>2, Undamaged
<1> DEFINE A == Items \cup Parsed
<1>4. items \in Seq(A) /\ sent \in Seq(A)
  BY <1>1
<1> HIDE DEF A
<1>5. Len(items) <= Len(sent) /\ \A i \in 1..Len(items) : items[i] = sent[i]
  BY <1>1, <1>3
<1>6. IsPrefix(items, sent)
  BY <1>4, <1>5, PrefixOf
<1>7. ASSUME Drained PROVE items = sent
  <2>1. \A i \in k..Len(sent) : ~Survives(i)
    BY <1>1, <1>2, <1>7, NothingLeft DEF Drained
  <2>2. k = Len(sent) + 1
    <3>1. ~(k \in 1..Len(sent))
      <4> SUFFICES ASSUME k \in 1..Len(sent) PROVE FALSE
        OBVIOUS
      <4>1. k \in k..Len(sent)
        OBVIOUS
      <4> QED
        BY <1>3, <2>1, <4>1
    <3> QED
      BY <1>1, <3>1
  <2>3. Len(items) = Len(sent)
    BY <1>1, <1>3, <2>2
  <2> QED
    BY <1>4, <1>5, <2>3, SeqEqual
<1> QED
  BY <1>6, <1>7

\* When the line is drained, everything that survives has come out.
LEMMA InvGivesContainment == ParserInv => DamageIsContained
<1> SUFFICES ASSUME ParserInv, Drained, AllPlain
             PROVE  ComesFrom({i \in DOMAIN sent : Survives(i)})
  BY DEF DamageIsContained, AllPlain
<1>1. /\ ParserTypes /\ Len(sent) \in Nat /\ DOMAIN sent = 1..Len(sent) /\ Incomplete
  BY DEF ParserInv, ParserTypes, Drained
<1>2. PICK k \in 1..(Len(sent) + 1) : At(k)
  BY DEF ParserInv
<1>3. \A i \in k..Len(sent) : ~Survives(i)
  BY <1>1, <1>2, NothingLeft DEF Drained
<1>4. \A i \in 1..Len(sent) : i \in 1..(k - 1) \/ i \in k..Len(sent)
  BY <1>1
<1>5. \A i \in 1..(k - 1) : i \in 1..Len(sent)
  BY <1>1
<1>6. {i \in DOMAIN sent : Survives(i)} = {i \in 1..(k - 1) : Survives(i)}
  BY <1>1, <1>3, <1>4, <1>5
<1> QED
  BY <1>2, <1>6 DEF At

\* Whatever is sent and however it is cut into chunks, the buffer and what is unread are
\* the end of what was sent, and what was extracted are lines and frames.
THEOREM ParserTypeCorrect == FSpec => []FTypeOK
BY ParserInvariant, InvGivesTypes, PTL

\* _read_loop and _extract_item yield what was sent, as long as nothing was damaged and no
\* chunk ended within a magic.
THEOREM ParserParsesWhatWasSent == FSpec => []ParsesWhatWasSent
BY ParserInvariant, InvGivesParsing, PTL

\* Damage costs the item that it befell, and a lost newline what runs into its line; all
\* else comes out of _read_loop, once and in the order in which it was sent.
THEOREM ParserDamageIsContained == FSpec => []DamageIsContained
BY ParserInvariant, InvGivesContainment, PTL
=============================================================================
