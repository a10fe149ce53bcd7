-------------------- MODULE VersionTolerantWriterProofs --------------------
(***************************************************************************)
(* Proofs about the writers of VersionTolerantWriter, for every sequence   *)
(* of calls, every buffer size, every set of values and both builds.       *)
(***************************************************************************)
EXTENDS VersionTolerantWriter, SequenceTheorems, WellFoundedInduction, TLAPS

-----------------------------------------------------------------------------
(***************************************************************************)
(* The inductive invariant.                                                *)
(***************************************************************************)
Data == 0 .. 255

Writers ==
    [mode : {"owned", "vec", "fixed"}, buf : Seq(Data), pos : Nat,
     error : WriterErrors, threw : BOOLEAN]

\* The write position is inside the buffer.
IsWriter(x) == x \in Writers /\ x.pos <= Len(x.buf)

\* Outside an object's scope its members are those of the next object.
NoObject ==
    phase = "none" =>
        body_ = NewWriter("owned", <<>>) /\ lengths_ = <<>> /\ members = <<>> /\ ~ finished_

\* While every member was serialized the buffered bytes are the members, and the
\* recorded lengths theirs.
Buffered ==
    ~ memberFailed /\ ~ finished_ =>
        /\ ~ WriterFailed(body_) /\ ~ body_.threw
        /\ GetSpan(body_) = Flatten(members)
        /\ Len(lengths_) = Len(members)
        /\ \A i \in 1 .. Len(members) : lengths_[i] = Len(members[i])

\* What a failed member leaves behind is something that only emptying w removes,
\* or an object that has still to be emitted.
Remains ==
    memberFailed => WriterFailed(w) \/ Size(w) > 0 \/ (phase # "none" /\ ~ finished_)

Inv ==
    /\ TypeOK
    /\ IsWriter(w) /\ IsWriter(body_)
    /\ intended \in Seq(Nat) /\ members \in Seq(Seq(Data))
    /\ NoObject
    /\ phase = "open" => ~ body_.threw
    /\ Buffered
    /\ Remains
    /\ NoSilentLoss

-----------------------------------------------------------------------------
(***************************************************************************)
(* Induction, with a set in the place of the predicate.                    *)
(***************************************************************************)
\* A set of naturals that is not empty has a least element.
LEMMA Least ==
    ASSUME NEW T \in SUBSET Nat, T # {}
    PROVE  \E m \in T : \A k \in T : m <= k
<1> DEFINE R == OpToRel(<, Nat)
<1>1. IsWellFoundedOn(R, Nat)
  BY NatLessThanWellFounded
<1>2. \A x, y \in Nat : y < x => <<y, x>> \in R
  BY DEF OpToRel
<1> HIDE DEF R
<1>3. PICK m \in T : \A y \in T : ~ (<<y, m>> \in R)
  BY <1>1, WFMin
<1>4. ASSUME NEW k \in T PROVE m <= k
  <2>1. m \in Nat /\ k \in Nat /\ ~ (k < m)
    BY <1>2, <1>3
  <2> QED BY <2>1
<1> QED BY <1>4

\* A set that holds 0 and the successor of each natural it holds is all of them.
LEMMA Induct ==
    ASSUME NEW S, 0 \in S, \A n \in Nat : n \in S => n + 1 \in S
    PROVE  Nat \subseteq S
<1> DEFINE T == Nat \ S
<1> SUFFICES ASSUME T # {} PROVE FALSE
  OBVIOUS
<1>1. PICK m \in T : \A k \in T : m <= k
  BY Least
<1>2. m # 0 /\ m - 1 \in Nat
  BY <1>1
<1>3. m - 1 \in S
  BY <1>1, <1>2
<1>4. (m - 1) + 1 \in S
  BY <1>2, <1>3
<1> QED BY <1>1, <1>4

\* The same for sequences, which grow at their end.
LEMMA InductSeq ==
    ASSUME NEW E, NEW T, <<>> \in T,
           \A s \in Seq(E), e \in E : s \in T => Append(s, e) \in T
    PROVE  Seq(E) \subseteq T
<1> DEFINE S == {n \in Nat : \A s \in Seq(E) : Len(s) = n => s \in T}
<1>1. 0 \in S
  <2>1. \A s \in Seq(E) : Len(s) = 0 => s = <<>>
    BY EmptySeq
  <2> QED BY <2>1
<1>2. ASSUME NEW n \in Nat, n \in S PROVE n + 1 \in S
  <2> SUFFICES ASSUME NEW s \in Seq(E), Len(s) = n + 1 PROVE s \in T
    OBVIOUS
  <2>1. s # <<>>
    BY EmptySeq
  <2>2. PICK f \in Seq(E), e \in E : s = Append(f, e)
    BY <2>1, SequenceEmptyOrAppend
  <2>3. Len(s) = Len(f) + 1 /\ Len(f) \in Nat
    BY <2>2, AppendProperties, LenProperties
  <2>4. Len(f) = n
    BY <2>3
  <2> QED BY <1>2, <2>2, <2>4
<1> HIDE DEF S
<1>3. Nat \subseteq S
  BY <1>1, <1>2, Induct
<1>4. ASSUME NEW s \in Seq(E) PROVE s \in T
  <2>1. Len(s) \in S
    BY <1>3, LenProperties
  <2> QED BY <2>1 DEF S
<1> QED BY <1>4

-----------------------------------------------------------------------------
(***************************************************************************)
(* Flatten.                                                                *)
(***************************************************************************)
\* A function on 1 .. n is a sequence of length n.
LEMMA FunctionIsSeq ==
    ASSUME NEW E, NEW n \in Nat, NEW f \in [1 .. n -> E]
    PROVE  f \in Seq(E) /\ Len(f) = n
  OBVIOUS

\* g[k] is the first k sequences of ss, one after the other.
Joins(g, n, ss) == g = [k \in 0 .. n |-> IF k = 0 THEN <<>> ELSE g[k - 1] \o ss[k]]

\* The function that Flatten's recursive definition asks for exists.
LEMMA JoinsExist ==
    ASSUME NEW n \in Nat, NEW ss
    PROVE  \E g : Joins(g, n, ss)
<1> DEFINE S == {m \in Nat : \E g : Joins(g, m, ss)}
<1>1. 0 \in S
  <2> DEFINE g == [k \in 0 .. 0 |-> <<>>]
  <2>1. Joins(g, 0, ss)
    BY DEF Joins
  <2> QED BY <2>1
<1>2. ASSUME NEW m \in Nat, m \in S PROVE m + 1 \in S
  <2>1. PICK g : Joins(g, m, ss)
    BY <1>2
  <2>x. PICK x : x = g[m] \o ss[m + 1]
    OBVIOUS
  <2> DEFINE h == [k \in 0 .. m + 1 |-> IF k = m + 1 THEN x ELSE g[k]]
  <2>2. ASSUME NEW k \in 0 .. m + 1
        PROVE  h[k] = IF k = 0 THEN <<>> ELSE h[k - 1] \o ss[k]
    <3>1. \A l \in 0 .. m : g[l] = IF l = 0 THEN <<>> ELSE g[l - 1] \o ss[l]
      BY <2>1, Zenon DEF Joins
    <3>2. \A l \in 0 .. m : h[l] = g[l]
      OBVIOUS
    <3>3. h[m + 1] = g[m] \o ss[m + 1]
      BY <2>x
    <3> HIDE DEF h
    <3>4. CASE k = m + 1
      <4>1. k # 0 /\ k - 1 = m /\ m \in 0 .. m
        BY <3>4
      <4> QED BY <3>2, <3>3, <3>4, <4>1
    <3>5. CASE k # m + 1
      <4>1. k \in 0 .. m /\ (k # 0 => k - 1 \in 0 .. m)
        BY <3>5
      <4> QED BY <3>1, <3>2, <4>1
    <3> QED BY <3>4, <3>5
  <2>3. Joins(h, m + 1, ss)
    BY <2>2 DEF Joins
  <2> HIDE DEF h
  <2> QED BY <2>3
<1> HIDE DEF S
<1>3. n \in S
  BY <1>1, <1>2, Induct
<1> QED BY <1>3 DEF S

\* A join depends on the sequences joined only.
LEMMA JoinsSame ==
    ASSUME NEW m \in Nat, NEW n \in Nat, NEW ss, NEW tt, NEW g, NEW h,
           Joins(g, m, ss), Joins(h, n, tt), m <= n, \A k \in 1 .. m : ss[k] = tt[k]
    PROVE  g[m] = h[m]
<1> DEFINE S == {k \in Nat : k <= m => g[k] = h[k]}
<1>1. \A k \in 0 .. m : g[k] = IF k = 0 THEN <<>> ELSE g[k - 1] \o ss[k]
  BY Zenon DEF Joins
<1>2. \A k \in 0 .. n : h[k] = IF k = 0 THEN <<>> ELSE h[k - 1] \o tt[k]
  BY Zenon DEF Joins
<1>3. 0 \in S
  BY <1>1, <1>2
<1>4. ASSUME NEW k \in Nat, k \in S PROVE k + 1 \in S
  <2> SUFFICES ASSUME k + 1 <= m PROVE g[k + 1] = h[k + 1]
    OBVIOUS
  <2>1. PICK l : l = k + 1
    OBVIOUS
  <2>2. l \in 0 .. m /\ l \in 0 .. n /\ l \in 1 .. m /\ l # 0 /\ l - 1 = k /\ k <= m
    BY <2>1
  <2>3. g[l] = g[k] \o ss[l] /\ h[l] = h[k] \o tt[l]
    BY <1>1, <1>2, <2>2
  <2>4. g[k] = h[k] /\ ss[l] = tt[l]
    BY <1>4, <2>2
  <2> QED BY <2>1, <2>3, <2>4
<1> HIDE DEF S
<1>5. m \in S
  BY <1>3, <1>4, Induct
<1> QED BY <1>5 DEF S

\* Flatten is the last join.
LEMMA FlattenJoins ==
    ASSUME NEW E, NEW ss \in Seq(E)
    PROVE  \E g : Joins(g, Len(ss), ss) /\ Flatten(ss) = g[Len(ss)]
<1> DEFINE p == CHOOSE g : g = [k \in 0 .. Len(ss) |-> IF k = 0 THEN <<>> ELSE g[k - 1] \o ss[k]]
<1>1. Flatten(ss) = p[Len(ss)]
  BY DEF Flatten
<1>2. PICK g : Joins(g, Len(ss), ss)
  BY JoinsExist, LenProperties
<1>3. g = [k \in 0 .. Len(ss) |-> IF k = 0 THEN <<>> ELSE g[k - 1] \o ss[k]]
  BY <1>2 DEF Joins
<1>4. p = [k \in 0 .. Len(ss) |-> IF k = 0 THEN <<>> ELSE p[k - 1] \o ss[k]]
  BY <1>3, ZenonT(30)
<1> HIDE DEF p
<1>5. Joins(p, Len(ss), ss)
  BY <1>4 DEF Joins
<1> QED BY <1>1, <1>5

\* Nothing flattens to nothing.
LEMMA FlattenEmpty == Flatten(<<>>) = <<>>
<1>1. PICK g : Joins(g, Len(<<>>), <<>>) /\ Flatten(<<>>) = g[Len(<<>>)]
  <2>1. <<>> \in Seq({})
    BY EmptySeq
  <2> QED BY <2>1, FlattenJoins
<1>2. \A k \in 0 .. Len(<<>>) : g[k] = IF k = 0 THEN <<>> ELSE g[k - 1] \o <<>>[k]
  BY <1>1, Zenon DEF Joins
<1>3. Len(<<>>) = 0 /\ 0 \in 0 .. 0
  OBVIOUS
<1> QED BY <1>1, <1>2, <1>3

\* One more sequence comes behind the others.
LEMMA FlattenAppend ==
    ASSUME NEW E, NEW ss \in Seq(E), NEW s \in E
    PROVE  Flatten(Append(ss, s)) = Flatten(ss) \o s
<1>n. PICK n : n = Len(ss)
  OBVIOUS
<1>t. PICK tt : tt = Append(ss, s)
  OBVIOUS
<1>1. n \in Nat /\ tt \in Seq(E) /\ Len(tt) = n + 1 /\ tt[n + 1] = s /\ \A k \in 1 .. n : ss[k] = tt[k]
  BY <1>n, <1>t, AppendProperties, LenProperties
<1>2. PICK g : Joins(g, n, ss) /\ Flatten(ss) = g[n]
  BY <1>n, FlattenJoins
<1>3. PICK h : Joins(h, n + 1, tt) /\ Flatten(tt) = h[n + 1]
  BY <1>1, FlattenJoins
<1>5. g[n] = h[n]
  <2>m. PICK m : m = n + 1
    OBVIOUS
  <2>1. n \in Nat /\ m \in Nat /\ n <= m
    BY <1>1, <2>m
  <2>2. \A k \in 1 .. n : ss[k] = tt[k]
    BY <1>1
  <2>3. Joins(g, n, ss) /\ Joins(h, m, tt)
    BY <1>2, <1>3, <2>m
  <2> QED BY <2>1, <2>2, <2>3, JoinsSame
<1>6. \A k \in 0 .. n + 1 : h[k] = IF k = 0 THEN <<>> ELSE h[k - 1] \o tt[k]
  BY <1>3, Zenon DEF Joins
<1>m. PICK m : m = n + 1
  OBVIOUS
<1>7. m \in 0 .. n + 1 /\ m # 0 /\ m - 1 = n
  BY <1>1, <1>m
<1>8. h[m] = h[n] \o tt[m]
  BY <1>6, <1>7
<1> QED BY <1>1, <1>2, <1>3, <1>5, <1>8, <1>m, <1>t

\* The result is a sequence of what the sequences have.
LEMMA FlattenType ==
    ASSUME NEW E, NEW ss \in Seq(Seq(E))
    PROVE  Flatten(ss) \in Seq(E)
<1> DEFINE T == {tt \in Seq(Seq(E)) : Flatten(tt) \in Seq(E)}
<1>1. <<>> \in T
  BY EmptySeq, FlattenEmpty
<1>2. ASSUME NEW tt \in Seq(Seq(E)), NEW t \in Seq(E), tt \in T PROVE Append(tt, t) \in T
  <2>1. Append(tt, t) \in Seq(Seq(E)) /\ Flatten(Append(tt, t)) = Flatten(tt) \o t
    BY AppendProperties, FlattenAppend
  <2>2. Flatten(tt) \in Seq(E)
    BY <1>2
  <2> QED BY <2>1, <2>2, ConcatProperties
<1> HIDE DEF T
<1>3. ss \in T
  BY <1>1, <1>2, InductSeq
<1> QED BY <1>3 DEF T

\* Appending to the second sequence appends to both.
LEMMA ConcatAppend ==
    ASSUME NEW E, NEW s \in Seq(E), NEW t \in Seq(E), NEW e \in E
    PROVE  s \o Append(t, e) = Append(s \o t, e)
<1>1. s \o t \in Seq(E) /\ <<e>> \in Seq(E)
  BY ConcatProperties
<1>2. Append(t, e) = t \o <<e>> /\ Append(s \o t, e) = (s \o t) \o <<e>>
  BY <1>1, AppendIsConcat
<1>3. (s \o t) \o <<e>> = s \o (t \o <<e>>)
  <2>1. PICK u : u = <<e>>
    OBVIOUS
  <2>2. u \in Seq(E)
    BY <1>1, <2>1
  <2>3. (s \o t) \o u = s \o (t \o u)
    BY <2>2, ConcatAssociative, SMT
  <2> QED BY <2>1, <2>3
<1> QED BY <1>2, <1>3

\* Flatten distributes over concatenation.
LEMMA FlattenConcat ==
    ASSUME NEW E, NEW ss \in Seq(Seq(E)), NEW tt \in Seq(Seq(E))
    PROVE  Flatten(ss \o tt) = Flatten(ss) \o Flatten(tt)
<1> DEFINE T == {uu \in Seq(Seq(E)) : Flatten(ss \o uu) = Flatten(ss) \o Flatten(uu)}
<1>1. <<>> \in T
  <2>1. ss \o <<>> = ss
    BY ConcatEmptySeq
  <2>2. Flatten(ss) \in Seq(E)
    BY FlattenType
  <2>3. Flatten(ss) \o <<>> = Flatten(ss)
    BY <2>2, ConcatEmptySeq
  <2>4. <<>> \in Seq(Seq(E))
    BY EmptySeq
  <2> QED BY <2>1, <2>3, <2>4, FlattenEmpty
<1>2. ASSUME NEW uu \in Seq(Seq(E)), NEW u \in Seq(E), uu \in T PROVE Append(uu, u) \in T
  <2>1. Append(uu, u) \in Seq(Seq(E)) /\ Flatten(Append(uu, u)) = Flatten(uu) \o u
    BY AppendProperties, FlattenAppend
  <2>2. ss \o Append(uu, u) = Append(ss \o uu, u)
    BY ConcatAppend
  <2>3. Flatten(Append(ss \o uu, u)) = Flatten(ss \o uu) \o u
    <3>1. ss \o uu \in Seq(Seq(E))
      BY ConcatProperties
    <3> QED BY <3>1, FlattenAppend
  <2>4. Flatten(ss) \in Seq(E) /\ Flatten(uu) \in Seq(E)
    BY FlattenType
  <2>5. (Flatten(ss) \o Flatten(uu)) \o u = Flatten(ss) \o (Flatten(uu) \o u)
    BY <2>4, ConcatAssociative, SMT
  <2>6. Flatten(ss \o uu) = Flatten(ss) \o Flatten(uu)
    BY <1>2
  <2> QED BY <2>1, <2>2, <2>3, <2>5, <2>6
<1> HIDE DEF T
<1>3. tt \in T
  BY <1>1, <1>2, InductSeq
<1> QED BY <1>3 DEF T

\* Flattening twice is flattening each one first.
LEMMA FlattenTwice ==
    ASSUME NEW E, NEW sss \in Seq(Seq(Seq(E)))
    PROVE  Flatten(Flatten(sss)) = Flatten([i \in 1 .. Len(sss) |-> Flatten(sss[i])])
<1> DEFINE each(ttt) == [i \in 1 .. Len(ttt) |-> Flatten(ttt[i])]
           T == {ttt \in Seq(Seq(Seq(E))) : Flatten(Flatten(ttt)) = Flatten(each(ttt))}
<1>1. <<>> \in T
  <2>1. <<>> \in Seq(Seq(Seq(E)))
    BY EmptySeq
  <2>2. each(<<>>) = <<>>
    BY SMT
  <2> HIDE DEF each
  <2> QED BY <2>1, <2>2, FlattenEmpty
<1>2. ASSUME NEW ttt \in Seq(Seq(Seq(E))), NEW tt \in Seq(Seq(E)), ttt \in T
      PROVE  Append(ttt, tt) \in T
  <2>1. /\ Append(ttt, tt) \in Seq(Seq(Seq(E))) /\ Flatten(Append(ttt, tt)) = Flatten(ttt) \o tt
        /\ Len(Append(ttt, tt)) = Len(ttt) + 1 /\ Append(ttt, tt)[Len(ttt) + 1] = tt
        /\ \A i \in 1 .. Len(ttt) : Append(ttt, tt)[i] = ttt[i]
    BY AppendProperties, FlattenAppend
  <2>2. Flatten(ttt) \in Seq(Seq(E)) /\ Flatten(tt) \in Seq(E)
    BY FlattenType
  <2>3. Flatten(Flatten(ttt) \o tt) = Flatten(Flatten(ttt)) \o Flatten(tt)
    BY <2>2, FlattenConcat
  <2>4. \A i \in 1 .. Len(ttt) : Flatten(ttt[i]) \in Seq(E)
    <3>1. \A i \in 1 .. Len(ttt) : ttt[i] \in Seq(Seq(E))
      BY ElementOfSeq
    <3> QED BY <3>1, FlattenType
  <2>5. each(ttt) \in Seq(Seq(E)) /\ Len(each(ttt)) = Len(ttt) /\ Len(ttt) \in Nat
    BY <2>4, LenProperties
  <2>6. each(Append(ttt, tt)) = Append(each(ttt), Flatten(tt))
    <3>n. PICK n : n = Len(ttt)
      OBVIOUS
    <3>a. PICK a : a = each(Append(ttt, tt))
      OBVIOUS
    <3>1. a = [i \in 1 .. n + 1 |-> Flatten(Append(ttt, tt)[i])] /\ n \in Nat
      BY <2>1, <2>5, <3>n, <3>a
    <3>2. \A i \in 1 .. n : a[i] = each(ttt)[i]
      BY <2>1, <3>n, <3>1
    <3>3. a[n + 1] = Flatten(tt)
      BY <2>1, <3>n, <3>1
    <3>4. \A i \in 1 .. n : each(ttt)[i] \in Seq(E)
      BY <2>4, <3>n
    <3> HIDE DEF each
    <3>5. \A i \in 1 .. n + 1 : a[i] \in Seq(E)
      <4>1. 1 .. n + 1 = (1 .. n) \cup {n + 1}
        BY <3>1
      <4> QED BY <2>2, <3>2, <3>3, <3>4, <4>1
    <3>6. a \in Seq(Seq(E)) /\ Len(a) = n + 1
      <4>1. PICK m : m = n + 1
        OBVIOUS
      <4>2. a \in [1 .. m -> Seq(E)]
        BY <3>1, <3>5, <4>1, Zenon
      <4>3. m \in Nat
        BY <3>1, <4>1
      <4> QED BY <4>1, <4>2, <4>3, FunctionIsSeq
    <3>7. /\ Append(each(ttt), Flatten(tt)) \in Seq(Seq(E)) /\ Len(Append(each(ttt), Flatten(tt))) = n + 1
          /\ \A i \in 1 .. n : Append(each(ttt), Flatten(tt))[i] = each(ttt)[i]
          /\ Append(each(ttt), Flatten(tt))[n + 1] = Flatten(tt)
      BY <2>2, <2>5, <3>n, AppendProperties
    <3>8. \A i \in 1 .. n + 1 : a[i] = Append(each(ttt), Flatten(tt))[i]
      <4>1. 1 .. n + 1 = (1 .. n) \cup {n + 1}
        BY <3>1
      <4> QED BY <3>2, <3>3, <3>7, <4>1
    <3> QED BY <3>a, <3>6, <3>7, <3>8, SeqEqual
  <2> HIDE DEF each
  <2>7. Flatten(Append(each(ttt), Flatten(tt))) = Flatten(each(ttt)) \o Flatten(tt)
    BY <2>2, <2>5, FlattenAppend
  <2>8. Flatten(Flatten(ttt)) = Flatten(each(ttt))
    BY <1>2
  <2> QED BY <2>1, <2>3, <2>6, <2>7, <2>8
<1> HIDE DEF T
<1>3. sss \in T
  BY <1>1, <1>2, InductSeq
<1> QED BY <1>3 DEF T

-----------------------------------------------------------------------------
(***************************************************************************)
(* The buffer of a writer.                                                 *)
(***************************************************************************)
\* g[k] is b doubled k times.
Doubles(g, n, b) == g = [k \in 0 .. n |-> IF k = 0 THEN b ELSE 2 * g[k - 1]]

\* The function that GrownSize's recursive definition asks for exists.
LEMMA DoublesExist ==
    ASSUME NEW n \in Nat, NEW b
    PROVE  \E g : Doubles(g, n, b)
<1> DEFINE S == {m \in Nat : \E g : Doubles(g, m, b)}
<1>1. 0 \in S
  <2> DEFINE g == [k \in 0 .. 0 |-> b]
  <2>1. Doubles(g, 0, b)
    BY DEF Doubles
  <2> QED BY <2>1
<1>2. ASSUME NEW m \in Nat, m \in S PROVE m + 1 \in S
  <2>1. PICK g : Doubles(g, m, b)
    BY <1>2
  <2>x. PICK x : x = 2 * g[m]
    OBVIOUS
  <2> DEFINE h == [k \in 0 .. m + 1 |-> IF k = m + 1 THEN x ELSE g[k]]
  <2>2. ASSUME NEW k \in 0 .. m + 1
        PROVE  h[k] = IF k = 0 THEN b ELSE 2 * h[k - 1]
    <3>1. \A l \in 0 .. m : g[l] = IF l = 0 THEN b ELSE 2 * g[l - 1]
      BY <2>1, Zenon DEF Doubles
    <3>2. \A l \in 0 .. m : h[l] = g[l]
      OBVIOUS
    <3>3. h[m + 1] = 2 * g[m]
      BY <2>x
    <3> HIDE DEF h
    <3>4. CASE k = m + 1
      <4>1. k # 0 /\ k - 1 = m /\ m \in 0 .. m
        BY <3>4
      <4> QED BY <3>2, <3>3, <3>4, <4>1
    <3>5. CASE k # m + 1
      <4>1. k \in 0 .. m /\ (k # 0 => k - 1 \in 0 .. m)
        BY <3>5
      <4> QED BY <3>1, <3>2, <4>1
    <3> QED BY <3>4, <3>5
  <2>3. Doubles(h, m + 1, b)
    BY <2>2 DEF Doubles
  <2> HIDE DEF h
  <2> QED BY <2>3
<1> HIDE DEF S
<1>3. n \in S
  BY <1>1, <1>2, Induct
<1> QED BY <1>3 DEF S

\* Doubling reaches every size.
LEMMA DoublesGrow ==
    ASSUME NEW n \in Nat, NEW b \in Nat \ {0}, NEW g, Doubles(g, n, b)
    PROVE  \A k \in 0 .. n : g[k] \in Nat /\ g[k] > k
<1> DEFINE S == {k \in Nat : k <= n => g[k] \in Nat /\ g[k] > k}
<1>1. \A k \in 0 .. n : g[k] = IF k = 0 THEN b ELSE 2 * g[k - 1]
  BY Zenon DEF Doubles
<1>2. 0 \in S
  BY <1>1
<1>3. ASSUME NEW k \in Nat, k \in S PROVE k + 1 \in S
  <2> SUFFICES ASSUME k + 1 <= n PROVE g[k + 1] \in Nat /\ g[k + 1] > k + 1
    OBVIOUS
  <2>1. PICK l : l = k + 1
    OBVIOUS
  <2>2. l \in 0 .. n /\ l # 0 /\ l - 1 = k /\ k <= n
    BY <2>1
  <2>3. g[l] = 2 * g[k] /\ g[k] \in Nat /\ g[k] > k
    BY <1>1, <1>3, <2>2
  <2>4. g[l] \in Nat /\ g[l] > l
    BY <2>1, <2>3
  <2> QED BY <2>1, <2>4
<1> HIDE DEF S
<1>4. Nat \subseteq S
  BY <1>2, <1>3, Induct
<1> QED BY <1>4 DEF S

\* GrowOwned makes room for what is needed.
LEMMA GrownSizeFits ==
    ASSUME NEW size \in Nat, NEW pos \in Nat, NEW needed \in Nat
    PROVE  GrownSize(size, pos, needed) \in Nat /\ GrownSize(size, pos, needed) >= pos + needed
<1>n. PICK n : n = pos + needed
  OBVIOUS
<1>b. PICK b : b = IF size > 0 THEN 2 * size ELSE InitialOwned
  OBVIOUS
<1>1. n \in Nat /\ b \in Nat \ {0}
  BY <1>n, <1>b, InitialOwnedAssumption
<1> DEFINE p == CHOOSE g : g = [k \in 0 .. n |-> IF k = 0 THEN b ELSE 2 * g[k - 1]]
           enough == {k \in 0 .. n : p[k] >= n}
<1>2. GrownSize(size, pos, needed) = p[CHOOSE k \in enough : \A j \in enough : k <= j]
  BY <1>n, <1>b DEF GrownSize
<1>3. PICK g : Doubles(g, n, b)
  BY <1>1, DoublesExist
<1>4. g = [k \in 0 .. n |-> IF k = 0 THEN b ELSE 2 * g[k - 1]]
  BY <1>3 DEF Doubles
<1>5. p = [k \in 0 .. n |-> IF k = 0 THEN b ELSE 2 * p[k - 1]]
  BY <1>4, ZenonT(30)
<1> HIDE DEF p
<1>6. Doubles(p, n, b)
  BY <1>5 DEF Doubles
<1>7. \A k \in 0 .. n : p[k] \in Nat /\ p[k] > k
  BY <1>1, <1>6, DoublesGrow
<1>8. n \in enough /\ enough \in SUBSET Nat
  BY <1>1, <1>7
<1>9. \E k \in enough : \A j \in enough : k <= j
  <2> HIDE DEF enough
  <2> QED BY <1>8, Least
<1>10. PICK k : k = CHOOSE l \in enough : \A j \in enough : l <= j
  OBVIOUS
<1>11. k \in enough
  <2> HIDE DEF enough
  <2> QED BY <1>9, <1>10
<1> QED BY <1>1, <1>2, <1>7, <1>10, <1>11, <1>n

\* What is written of a buffer: as many bytes as Size says.
LEMMA SpanBytes ==
    ASSUME NEW x, IsWriter(x)
    PROVE  /\ Size(x) \in Nat /\ Size(x) <= Len(x.buf) /\ Len(x.buf) \in Nat
           /\ GetSpan(x) \in Seq(Data) /\ Len(GetSpan(x)) = Size(x)
           /\ \A i \in 1 .. Size(x) : GetSpan(x)[i] = x.buf[i]
<1>1. x.buf \in Seq(Data) /\ x.pos \in Nat /\ x.pos <= Len(x.buf) /\ Len(x.buf) \in Nat
  BY LenProperties DEF IsWriter, Writers
<1>2. Size(x) \in Nat /\ Size(x) <= Len(x.buf)
  BY <1>1 DEF Size
<1>3. \A i \in 1 .. Size(x) : x.buf[i] \in Data
  BY <1>1, <1>2, ElementOfSeq
<1>4. PICK n : n = Size(x)
  OBVIOUS
<1>5. /\ SubSeq(x.buf, 1, n) \in Seq(Data)
      /\ Len(SubSeq(x.buf, 1, n)) = IF 1 <= n THEN n - 1 + 1 ELSE 0
      /\ \A i \in 1 .. n - 1 + 1 : SubSeq(x.buf, 1, n)[i] = x.buf[1 + i - 1]
  BY <1>2, <1>3, <1>4, SubSeqProperties
<1>6. n - 1 + 1 = n /\ \A i \in 1 .. n : 1 + i - 1 = i
  BY <1>2, <1>4
<1> QED BY <1>1, <1>2, <1>4, <1>5, <1>6 DEF GetSpan

\* The first l elements of a sequence.
LEMMA Beginning ==
    ASSUME NEW E, NEW s \in Seq(E), NEW l \in 0 .. Len(s)
    PROVE  /\ SubSeq(s, 1, l) \in Seq(E) /\ Len(SubSeq(s, 1, l)) = l
           /\ \A i \in 1 .. l : SubSeq(s, 1, l)[i] = s[i]
<1>1. Len(s) \in Nat /\ l \in Nat /\ l <= Len(s)
  BY LenProperties
<1>2. \A i \in 1 .. l : s[i] \in E
  BY <1>1, ElementOfSeq
<1>3. /\ SubSeq(s, 1, l) \in Seq(E)
      /\ Len(SubSeq(s, 1, l)) = IF 1 <= l THEN l - 1 + 1 ELSE 0
      /\ \A i \in 1 .. l - 1 + 1 : SubSeq(s, 1, l)[i] = s[1 + i - 1]
  BY <1>1, <1>2, SubSeqProperties
<1>4. l - 1 + 1 = l /\ \A i \in 1 .. l : 1 + i - 1 = i
  BY <1>1
<1> QED BY <1>1, <1>3, <1>4

\* memcpy to the write position of a buffer, which may have grown for it.
LEMMA OverwriteBytes ==
    ASSUME NEW buf \in Seq(Data), NEW big \in Seq(Data), NEW pos \in 0 .. Len(buf), NEW s \in Seq(Data),
           pos + Len(s) <= Len(big), \A i \in 1 .. pos : big[i] = buf[i]
    PROVE  /\ Overwrite(big, pos, s) \in Seq(Data) /\ Len(Overwrite(big, pos, s)) = Len(big)
           /\ SubSeq(Overwrite(big, pos, s), 1, pos + Len(s)) = SubSeq(buf, 1, pos) \o s
<1>o. PICK o : o = Overwrite(big, pos, s)
  OBVIOUS
<1>m. PICK m : m = Len(s)
  OBVIOUS
<1>n. PICK n : n = pos + m
  OBVIOUS
<1>1. /\ m \in Nat /\ pos \in Nat /\ n \in Nat /\ n <= Len(big) /\ pos <= n
      /\ Len(big) \in Nat /\ Len(buf) \in Nat
  BY <1>m, <1>n, LenProperties
<1>2. \A i \in 1 .. Len(big) : (IF i \in pos + 1 .. pos + m THEN s[i - pos] ELSE big[i]) \in Data
  <2> TAKE i \in 1 .. Len(big)
  <2>1. CASE i \in pos + 1 .. pos + m
    <3>1. i - pos \in 1 .. Len(s)
      BY <1>1, <1>m, <2>1
    <3> QED BY <2>1, <3>1, ElementOfSeq
  <2>2. CASE i \notin pos + 1 .. pos + m
    BY <2>2, ElementOfSeq
  <2> QED BY <2>1, <2>2
<1>3. o = [i \in 1 .. Len(big) |-> IF i \in pos + 1 .. pos + m THEN s[i - pos] ELSE big[i]]
  BY <1>o, <1>m DEF Overwrite
<1>4. o \in [1 .. Len(big) -> Data]
  BY <1>2, <1>3
<1>5. o \in Seq(Data) /\ Len(o) = Len(big)
  BY <1>1, <1>4, FunctionIsSeq
<1>6. /\ \A i \in 1 .. pos : o[i] = buf[i]
      /\ \A i \in 1 .. m : o[pos + i] = s[i]
  <2>1. ASSUME NEW i \in 1 .. pos PROVE o[i] = buf[i]
    <3>1. i \in 1 .. Len(big) /\ i \notin pos + 1 .. pos + m
      BY <1>1, <1>n
    <3> QED BY <1>3, <3>1
  <2>2. ASSUME NEW i \in 1 .. m PROVE o[pos + i] = s[i]
    <3>1. PICK k : k = pos + i
      OBVIOUS
    <3>2. k \in 1 .. Len(big) /\ k \in pos + 1 .. pos + m /\ k - pos = i
      BY <1>1, <1>n, <3>1
    <3> QED BY <1>3, <3>1, <3>2
  <2> QED BY <2>1, <2>2
<1>7. \A l \in 0 .. Len(big) : /\ SubSeq(o, 1, l) \in Seq(Data) /\ Len(SubSeq(o, 1, l)) = l
                               /\ \A i \in 1 .. l : SubSeq(o, 1, l)[i] = o[i]
  BY <1>5, Beginning
<1>8. /\ SubSeq(buf, 1, pos) \in Seq(Data) /\ Len(SubSeq(buf, 1, pos)) = pos
      /\ \A i \in 1 .. pos : SubSeq(buf, 1, pos)[i] = buf[i]
  BY Beginning
<1>a. PICK a : a = SubSeq(o, 1, n)
  OBVIOUS
<1>b. PICK b : b = SubSeq(buf, 1, pos)
  OBVIOUS
<1>9. /\ a \in Seq(Data) /\ Len(a) = n /\ \A i \in 1 .. n : a[i] = o[i]
  BY <1>1, <1>7, <1>a
<1>10. b \in Seq(Data) /\ Len(b) = pos /\ \A i \in 1 .. pos : b[i] = buf[i]
  BY <1>8, <1>b
<1>11. /\ b \o s \in Seq(Data) /\ Len(b \o s) = n
       /\ \A i \in 1 .. n : (b \o s)[i] = IF i <= pos THEN b[i] ELSE s[i - pos]
  BY <1>10, <1>m, <1>n, ConcatProperties
<1>12. ASSUME NEW i \in 1 .. n PROVE a[i] = (b \o s)[i]
  <2>1. CASE i <= pos
    <3>1. i \in 1 .. pos
      BY <1>1, <2>1
    <3> QED BY <1>6, <1>9, <1>10, <1>11, <2>1, <3>1
  <2>2. CASE ~ (i <= pos)
    <3>1. PICK k : k = i - pos
      OBVIOUS
    <3>2. k \in 1 .. m /\ pos + k = i
      BY <1>1, <1>n, <2>2, <3>1
    <3> QED BY <1>6, <1>9, <1>11, <2>2, <3>1, <3>2
  <2> QED BY <2>1, <2>2
<1>13. a = b \o s
  BY <1>9, <1>11, <1>12, SeqEqual
<1> QED BY <1>5, <1>13, <1>a, <1>b, <1>m, <1>n, <1>o

-----------------------------------------------------------------------------
(***************************************************************************)
(* Appending.                                                              *)
(***************************************************************************)
\* From x, which no exception has left, y was made by appending s: y reports a
\* failure, which no exception hides, or holds s behind what x held.
Wrote(x, y, s) ==
    /\ IsWriter(y) /\ y.mode = x.mode
    /\ x.mode = "fixed" => Len(y.buf) = Len(x.buf)
    /\ Size(x) <= Size(y)
    /\ WriterFailed(x) => WriterFailed(y)
    /\ y.threw => WriterFailed(y)
    /\ ~ WriterFailed(y) => GetSpan(y) = GetSpan(x) \o s

\* A buffer that grows never fails.
Kept(x, y) == x.mode # "fixed" => y.error = x.error /\ y.threw = x.threw

\* Zero bytes are bytes.
LEMMA ZerosType ==
    ASSUME NEW n \in Nat
    PROVE  Zeros(n) \in Seq(Data) /\ Len(Zeros(n)) = n
<1>1. Zeros(n) \in [1 .. n -> Data]
  BY DEF Zeros, Data
<1> QED BY <1>1, FunctionIsSeq

\* A buffer resized to at least its size keeps its bytes.
LEMMA ResizeBytes ==
    ASSUME NEW buf \in Seq(Data), NEW n \in Nat
    PROVE  /\ buf \o Zeros(n) \in Seq(Data) /\ Len(buf \o Zeros(n)) = Len(buf) + n
           /\ \A i \in 1 .. Len(buf) : (buf \o Zeros(n))[i] = buf[i]
<1>1. PICK z : z = Zeros(n)
  OBVIOUS
<1>2. z \in Seq(Data) /\ Len(z) = n /\ Len(buf) \in Nat
  BY <1>1, ZerosType, LenProperties
<1>3. /\ buf \o z \in Seq(Data) /\ Len(buf \o z) = Len(buf) + n
      /\ \A i \in 1 .. Len(buf) + n : (buf \o z)[i] = IF i <= Len(buf) THEN buf[i] ELSE z[i - Len(buf)]
  BY <1>2, ConcatProperties
<1>4. \A i \in 1 .. Len(buf) : i \in 1 .. Len(buf) + n /\ i <= Len(buf)
  BY <1>2
<1> QED BY <1>1, <1>3, <1>4

\* A writer that fails keeps what it holds.
LEMMA FailWrote ==
    ASSUME NEW x, NEW s, NEW code \in WriterErrors \ {"None"}, IsWriter(x), throws \in BOOLEAN
    PROVE  Wrote(x, WriterFail(x, code), s) /\ GetSpan(WriterFail(x, code)) = GetSpan(x)
<1>1. PICK y : y = WriterFail(x, code)
  OBVIOUS
<1>2. x \in Writers
  BY DEF IsWriter
<1>3. /\ y \in Writers /\ y.mode = x.mode /\ y.buf = x.buf /\ y.pos = x.pos
      /\ y.error # "None"
  BY <1>1, <1>2 DEF WriterFail, Writers
<1>4. Size(y) = Size(x) /\ Size(x) \in Nat
  BY <1>3, SpanBytes DEF Size
<1>5. IsWriter(y) /\ WriterFailed(y)
  BY <1>3 DEF IsWriter, WriterFailed
<1>6. GetSpan(y) = GetSpan(x)
  BY <1>3, <1>4 DEF GetSpan
<1> QED BY <1>1, <1>3, <1>4, <1>5, <1>6 DEF Wrote

\* Appending nothing.
LEMMA NothingWrote ==
    ASSUME NEW x, IsWriter(x), ~ x.threw
    PROVE  Wrote(x, x, <<>>)
<1>1. GetSpan(x) \in Seq(Data) /\ Size(x) \in Nat
  BY SpanBytes
<1>2. GetSpan(x) \o <<>> = GetSpan(x)
  BY <1>1, ConcatEmptySeq
<1> QED BY <1>1, <1>2 DEF Wrote

\* One append after the other.
LEMMA WroteBoth ==
    ASSUME NEW x, NEW y, NEW z, NEW s \in Seq(Data), NEW t \in Seq(Data),
           IsWriter(x), Wrote(x, y, s), Wrote(y, z, t)
    PROVE  Wrote(x, z, s \o t)
<1>1. Size(x) \in Nat /\ Size(y) \in Nat /\ Size(z) \in Nat /\ GetSpan(x) \in Seq(Data)
  BY SpanBytes DEF Wrote
<1>2. Size(x) <= Size(z)
  BY <1>1 DEF Wrote
<1>3. ASSUME ~ WriterFailed(z) PROVE GetSpan(z) = GetSpan(x) \o (s \o t)
  <2>1. GetSpan(z) = GetSpan(y) \o t /\ GetSpan(y) = GetSpan(x) \o s
    BY <1>3 DEF Wrote
  <2>2. PICK u : u = GetSpan(x)
    OBVIOUS
  <2>3. u \in Seq(Data)
    BY <1>1, <2>2
  <2>4. (u \o s) \o t = u \o (s \o t)
    BY <2>3, ConcatAssociative, SMT
  <2> QED BY <2>1, <2>2, <2>4
<1>4. z.mode = x.mode /\ (x.mode = "fixed" => Len(z.buf) = Len(x.buf))
  BY DEF Wrote
<1> QED BY <1>2, <1>3, <1>4 DEF Wrote

\* Bytes copied to the write position of a buffer with room for them.
LEMMA CopyWrote ==
    ASSUME NEW x, NEW y, NEW big \in Seq(Data), NEW s \in Seq(Data),
           IsWriter(x), ~ x.threw, x.mode # "vec",
           x.pos + Len(s) <= Len(big), \A i \in 1 .. x.pos : big[i] = x.buf[i],
           x.mode = "fixed" => Len(big) = Len(x.buf),
           y = [x EXCEPT !.buf = Overwrite(big, x.pos, s), !.pos = x.pos + Len(s)]
    PROVE  Wrote(x, y, s) /\ Kept(x, y)
<1>1. x \in Writers /\ x.buf \in Seq(Data) /\ x.pos \in Nat /\ x.pos <= Len(x.buf)
  BY DEF IsWriter, Writers
<1>2. PICK o : o = Overwrite(big, x.pos, s)
  OBVIOUS
<1>3. PICK n : n = x.pos + Len(s)
  OBVIOUS
<1>4. Len(s) \in Nat /\ Len(x.buf) \in Nat /\ Len(big) \in Nat
  BY <1>1, LenProperties
<1>5. o \in Seq(Data) /\ Len(o) = Len(big) /\ SubSeq(o, 1, n) = SubSeq(x.buf, 1, x.pos) \o s
  <2>1. x.pos \in 0 .. Len(x.buf)
    BY <1>1, <1>4
  <2> QED BY <1>1, <1>2, <1>3, <2>1, OverwriteBytes, ZenonT(30)
<1>6. n \in Nat /\ n <= Len(o) /\ x.pos <= n
  BY <1>1, <1>3, <1>4, <1>5
<1>7. y = [x EXCEPT !.buf = o, !.pos = n]
  BY <1>2, <1>3
<1>8. /\ y \in Writers /\ y.mode = x.mode /\ y.buf = o /\ y.pos = n /\ y.error = x.error
      /\ y.threw = x.threw
  BY <1>1, <1>5, <1>6, <1>7 DEF Writers
<1>9. Size(x) = x.pos /\ Size(y) = n
  BY <1>8 DEF Size
<1>10. GetSpan(y) = GetSpan(x) \o s
  BY <1>5, <1>8, <1>9 DEF GetSpan
<1>11. IsWriter(y)
  BY <1>6, <1>8 DEF IsWriter
<1>12. WriterFailed(x) => WriterFailed(y)
  BY <1>8 DEF WriterFailed
<1>13. x.mode = "fixed" => Len(y.buf) = Len(x.buf)
  BY <1>5, <1>8
<1> QED BY <1>6, <1>8, <1>9, <1>10, <1>11, <1>12, <1>13 DEF Wrote, Kept

\* The external vector grows by what is appended.
LEMMA VectorWrote ==
    ASSUME NEW x, NEW y, NEW s \in Seq(Data), IsWriter(x), ~ x.threw, x.mode = "vec",
           y = [x EXCEPT !.buf = x.buf \o s]
    PROVE  Wrote(x, y, s) /\ Kept(x, y)
<1>1. x \in Writers /\ x.buf \in Seq(Data) /\ x.pos \in Nat /\ x.pos <= Len(x.buf)
  BY DEF IsWriter, Writers
<1>2. PICK o : o = x.buf \o s
  OBVIOUS
<1>3. o \in Seq(Data) /\ Len(o) = Len(x.buf) + Len(s)
  BY <1>1, <1>2, ConcatProperties
<1>4. Len(s) \in Nat /\ Len(x.buf) \in Nat /\ Len(o) \in Nat
  BY <1>1, <1>3, LenProperties
<1>5. y = [x EXCEPT !.buf = o]
  BY <1>2
<1>6. /\ y \in Writers /\ y.mode = x.mode /\ y.buf = o /\ y.pos = x.pos /\ y.error = x.error
      /\ y.threw = x.threw
  BY <1>1, <1>3, <1>5 DEF Writers
<1>7. Size(x) = Len(x.buf) /\ Size(y) = Len(o)
  BY <1>6 DEF Size
<1>8. ASSUME NEW b \in Seq(Data) PROVE SubSeq(b, 1, Len(b)) = b
  <2>1. Len(b) \in 0 .. Len(b)
    BY LenProperties
  <2>2. PICK n : n = Len(b)
    OBVIOUS
  <2>3. PICK a : a = SubSeq(b, 1, n)
    OBVIOUS
  <2>4. a \in Seq(Data) /\ Len(a) = n /\ \A i \in 1 .. n : a[i] = b[i]
    BY <2>1, <2>2, <2>3, Beginning
  <2>5. a = b
    BY <2>2, <2>4, SeqEqual
  <2> QED BY <2>2, <2>3, <2>5
<1>9. GetSpan(x) = x.buf /\ GetSpan(y) = o
  BY <1>1, <1>3, <1>6, <1>7, <1>8 DEF GetSpan
<1>10. IsWriter(y)
  BY <1>1, <1>3, <1>4, <1>6 DEF IsWriter
<1>11. WriterFailed(x) => WriterFailed(y)
  BY <1>6 DEF WriterFailed
<1>12. Size(x) <= Size(y)
  BY <1>3, <1>4, <1>7
<1> QED BY <1>2, <1>6, <1>9, <1>10, <1>11, <1>12 DEF Wrote, Kept

\* AppendBytes appends the bytes or, in a fixed buffer, fails.
LEMMA AppendWrote ==
    ASSUME NEW x, NEW s \in Seq(Data), IsWriter(x), ~ x.threw, throws \in BOOLEAN
    PROVE  Wrote(x, AppendBytes(x, s), s) /\ Kept(x, AppendBytes(x, s))
<1>1. x \in Writers /\ x.buf \in Seq(Data) /\ x.pos \in Nat /\ x.pos <= Len(x.buf)
      /\ x.mode \in {"owned", "vec", "fixed"}
  BY DEF IsWriter, Writers
<1>2. Len(s) \in Nat /\ Len(x.buf) \in Nat
  BY <1>1, LenProperties
<1>3. CASE s = <<>>
  <2>1. AppendBytes(x, s) = x
    BY <1>3 DEF AppendBytes
  <2> QED BY <1>3, <2>1, NothingWrote DEF Kept
<1>4. CASE s # <<>> /\ x.mode = "vec"
  <2>1. AppendBytes(x, s) = [x EXCEPT !.buf = x.buf \o s]
    BY <1>1, <1>4 DEF AppendBytes
  <2> QED BY <1>4, <2>1, VectorWrote
<1>5. CASE s # <<>> /\ x.mode = "fixed" /\ Len(s) > Len(x.buf) - x.pos
  <2>1. AppendBytes(x, s) = WriterFail(x, "BufferOverflow")
    BY <1>5 DEF AppendBytes
  <2>2. "BufferOverflow" \in WriterErrors \ {"None"}
    BY DEF WriterErrors
  <2>3. Wrote(x, WriterFail(x, "BufferOverflow"), s)
    BY <2>2, FailWrote, Zenon
  <2> QED BY <1>5, <2>1, <2>3 DEF Kept
<1>6. CASE s # <<>> /\ x.mode = "fixed" /\ ~ (Len(s) > Len(x.buf) - x.pos)
  <2>1. AppendBytes(x, s) = [x EXCEPT !.buf = Overwrite(x.buf, x.pos, s), !.pos = x.pos + Len(s)]
    BY <1>1, <1>6 DEF AppendBytes
  <2>2. x.pos + Len(s) <= Len(x.buf)
    BY <1>1, <1>2, <1>6
  <2> QED BY <1>1, <1>6, <2>1, <2>2, CopyWrote
<1>7. CASE s # <<>> /\ x.mode = "owned" /\ Len(s) > Len(x.buf) - x.pos
  <2>1. PICK n : n = GrownSize(Len(x.buf), x.pos, Len(s)) - Len(x.buf)
    OBVIOUS
  <2>2. n \in Nat /\ x.pos + Len(s) <= Len(x.buf) + n
    <3>1. PICK g : g = GrownSize(Len(x.buf), x.pos, Len(s))
      OBVIOUS
    <3>2. g \in Nat /\ g >= x.pos + Len(s)
      BY <1>1, <1>2, <3>1, GrownSizeFits
    <3> QED BY <1>1, <1>2, <1>7, <2>1, <3>1, <3>2
  <2>3. PICK big : big = x.buf \o Zeros(n)
    OBVIOUS
  <2>4. big \in Seq(Data) /\ Len(big) = Len(x.buf) + n /\ \A i \in 1 .. Len(x.buf) : big[i] = x.buf[i]
    BY <1>1, <2>2, <2>3, ResizeBytes
  <2>5. GrowOwned(x, Len(s)) = [x EXCEPT !.buf = big]
    BY <1>1, <2>1, <2>3 DEF GrowOwned
  <2>6. AppendBytes(x, s) = [x EXCEPT !.buf = Overwrite(big, x.pos, s), !.pos = x.pos + Len(s)]
    <3>1. PICK v : v = [x EXCEPT !.buf = big]
      OBVIOUS
    <3>2. v.buf = big /\ v.pos = x.pos
      BY <1>1, <3>1 DEF Writers
    <3>3. AppendBytes(x, s) = [v EXCEPT !.buf = Overwrite(v.buf, x.pos, s), !.pos = v.pos + Len(s)]
      BY <1>7, <2>5, <3>1 DEF AppendBytes
    <3> QED BY <1>1, <3>1, <3>2, <3>3 DEF Writers
  <2>7. \A i \in 1 .. x.pos : big[i] = x.buf[i]
    BY <1>1, <1>2, <2>4
  <2>8. x.pos + Len(s) <= Len(big)
    BY <2>2, <2>4
  <2> QED BY <1>7, <2>4, <2>6, <2>7, <2>8, CopyWrote
<1>8. CASE s # <<>> /\ x.mode = "owned" /\ ~ (Len(s) > Len(x.buf) - x.pos)
  <2>1. AppendBytes(x, s) = [x EXCEPT !.buf = Overwrite(x.buf, x.pos, s), !.pos = x.pos + Len(s)]
    BY <1>1, <1>8 DEF AppendBytes
  <2>2. x.pos + Len(s) <= Len(x.buf)
    BY <1>1, <1>2, <1>8
  <2> QED BY <1>1, <1>8, <2>1, <2>2, CopyWrote
<1> QED BY <1>1, <1>3, <1>4, <1>5, <1>6, <1>7, <1>8

-----------------------------------------------------------------------------
(***************************************************************************)
(* A call: a sequence of appends.                                          *)
(***************************************************************************)
\* The next append of a call, which an exception skips.
Step(x, s) == IF x.threw THEN x ELSE AppendBytes(x, s)

\* g[k] is the writer after the first k appends.
Runs(g, n, x, ss) == g = [k \in 0 .. n |-> IF k = 0 THEN x ELSE Step(g[k - 1], ss[k])]

\* The function that WritePieces' recursive definition asks for exists.
LEMMA RunsExist ==
    ASSUME NEW n \in Nat, NEW x, NEW ss
    PROVE  \E g : Runs(g, n, x, ss)
<1> DEFINE S == {m \in Nat : \E g : Runs(g, m, x, ss)}
<1>1. 0 \in S
  <2> DEFINE g == [k \in 0 .. 0 |-> x]
  <2>1. Runs(g, 0, x, ss)
    BY DEF Runs
  <2> QED BY <2>1
<1>2. ASSUME NEW m \in Nat, m \in S PROVE m + 1 \in S
  <2>1. PICK g : Runs(g, m, x, ss)
    BY <1>2
  <2>x. PICK y : y = Step(g[m], ss[m + 1])
    OBVIOUS
  <2> DEFINE h == [k \in 0 .. m + 1 |-> IF k = m + 1 THEN y ELSE g[k]]
  <2>2. ASSUME NEW k \in 0 .. m + 1
        PROVE  h[k] = IF k = 0 THEN x ELSE Step(h[k - 1], ss[k])
    <3>1. \A l \in 0 .. m : g[l] = IF l = 0 THEN x ELSE Step(g[l - 1], ss[l])
      BY <2>1, Zenon DEF Runs
    <3>2. \A l \in 0 .. m : h[l] = g[l]
      OBVIOUS
    <3>3. h[m + 1] = Step(g[m], ss[m + 1])
      BY <2>x
    <3> HIDE DEF h
    <3>4. CASE k = m + 1
      <4>1. k # 0 /\ k - 1 = m /\ m \in 0 .. m
        BY <3>4
      <4> QED BY <3>2, <3>3, <3>4, <4>1
    <3>5. CASE k # m + 1
      <4>1. k \in 0 .. m /\ (k # 0 => k - 1 \in 0 .. m)
        BY <3>5
      <4> QED BY <3>1, <3>2, <4>1
    <3> QED BY <3>4, <3>5
  <2>3. Runs(h, m + 1, x, ss)
    BY <2>2 DEF Runs
  <2> HIDE DEF h
  <2> QED BY <2>3
<1> HIDE DEF S
<1>3. n \in S
  BY <1>1, <1>2, Induct
<1> QED BY <1>3 DEF S

\* A run depends on the appends made only.
LEMMA RunsSame ==
    ASSUME NEW m \in Nat, NEW n \in Nat, NEW x, NEW ss, NEW tt, NEW g, NEW h,
           Runs(g, m, x, ss), Runs(h, n, x, tt), m <= n, \A k \in 1 .. m : ss[k] = tt[k]
    PROVE  g[m] = h[m]
<1> DEFINE S == {k \in Nat : k <= m => g[k] = h[k]}
<1>1. \A k \in 0 .. m : g[k] = IF k = 0 THEN x ELSE Step(g[k - 1], ss[k])
  BY Zenon DEF Runs
<1>2. \A k \in 0 .. n : h[k] = IF k = 0 THEN x ELSE Step(h[k - 1], tt[k])
  BY Zenon DEF Runs
<1>3. 0 \in S
  BY <1>1, <1>2
<1>4. ASSUME NEW k \in Nat, k \in S PROVE k + 1 \in S
  <2> SUFFICES ASSUME k + 1 <= m PROVE g[k + 1] = h[k + 1]
    OBVIOUS
  <2>1. PICK l : l = k + 1
    OBVIOUS
  <2>2. l \in 0 .. m /\ l \in 0 .. n /\ l \in 1 .. m /\ l # 0 /\ l - 1 = k /\ k <= m
    BY <2>1
  <2>3. g[l] = Step(g[k], ss[l]) /\ h[l] = Step(h[k], tt[l])
    BY <1>1, <1>2, <2>2
  <2>4. g[k] = h[k] /\ ss[l] = tt[l]
    BY <1>4, <2>2
  <2> QED BY <2>1, <2>3, <2>4
<1> HIDE DEF S
<1>5. m \in S
  BY <1>3, <1>4, Induct
<1> QED BY <1>5 DEF S

\* WritePieces is the last writer of the run.
LEMMA PiecesRun ==
    ASSUME NEW E, NEW ss \in Seq(E), NEW x
    PROVE  \E g : Runs(g, Len(ss), x, ss) /\ WritePieces(x, ss) = g[Len(ss)]
<1> DEFINE p == CHOOSE g : g = [k \in 0 .. Len(ss) |-> IF k = 0 THEN x
                                   ELSE IF g[k - 1].threw THEN g[k - 1]
                                   ELSE AppendBytes(g[k - 1], ss[k])]
<1>1. WritePieces(x, ss) = p[Len(ss)]
  BY DEF WritePieces
<1>2. PICK g : Runs(g, Len(ss), x, ss)
  BY RunsExist, LenProperties
<1>3. g = [k \in 0 .. Len(ss) |-> IF k = 0 THEN x
                                   ELSE IF g[k - 1].threw THEN g[k - 1]
                                   ELSE AppendBytes(g[k - 1], ss[k])]
  BY <1>2 DEF Runs, Step
<1>4. p = [k \in 0 .. Len(ss) |-> IF k = 0 THEN x
                                   ELSE IF p[k - 1].threw THEN p[k - 1]
                                   ELSE AppendBytes(p[k - 1], ss[k])]
  BY <1>3, ZenonT(30)
<1> HIDE DEF p
<1>5. Runs(p, Len(ss), x, ss)
  BY <1>4 DEF Runs, Step
<1> QED BY <1>1, <1>5

\* A call without appends.
LEMMA PiecesEmpty ==
    ASSUME NEW x
    PROVE  WritePieces(x, <<>>) = x
<1>1. PICK g : Runs(g, Len(<<>>), x, <<>>) /\ WritePieces(x, <<>>) = g[Len(<<>>)]
  <2>1. <<>> \in Seq({})
    BY EmptySeq
  <2> QED BY <2>1, PiecesRun
<1>2. \A k \in 0 .. Len(<<>>) : g[k] = IF k = 0 THEN x ELSE Step(g[k - 1], <<>>[k])
  BY <1>1, Zenon DEF Runs
<1>3. Len(<<>>) = 0 /\ 0 \in 0 .. 0
  OBVIOUS
<1> QED BY <1>1, <1>2, <1>3

\* A call with one append more.
LEMMA PiecesAppend ==
    ASSUME NEW E, NEW ss \in Seq(E), NEW s \in E, NEW x
    PROVE  WritePieces(x, Append(ss, s)) = Step(WritePieces(x, ss), s)
<1>n. PICK n : n = Len(ss)
  OBVIOUS
<1>t. PICK tt : tt = Append(ss, s)
  OBVIOUS
<1>m. PICK m : m = n + 1
  OBVIOUS
<1>1. n \in Nat /\ tt \in Seq(E) /\ Len(tt) = n + 1 /\ tt[n + 1] = s /\ \A k \in 1 .. n : ss[k] = tt[k]
  BY <1>n, <1>t, AppendProperties, LenProperties
<1>2. PICK g : Runs(g, n, x, ss) /\ WritePieces(x, ss) = g[n]
  BY <1>n, PiecesRun
<1>3. PICK h : Runs(h, m, x, tt) /\ WritePieces(x, tt) = h[m]
  BY <1>1, <1>m, PiecesRun
<1>4. g[n] = h[n]
  <2>1. n \in Nat /\ m \in Nat /\ n <= m
    BY <1>1, <1>m
  <2>2. \A k \in 1 .. n : ss[k] = tt[k]
    BY <1>1
  <2> QED BY <1>2, <1>3, <2>1, <2>2, RunsSame
<1>5. \A k \in 0 .. m : h[k] = IF k = 0 THEN x ELSE Step(h[k - 1], tt[k])
  BY <1>3, Zenon DEF Runs
<1>6. m \in 0 .. m /\ m # 0 /\ m - 1 = n
  BY <1>1, <1>m
<1>7. h[m] = Step(h[n], tt[m])
  BY <1>5, <1>6
<1> QED BY <1>1, <1>2, <1>3, <1>4, <1>7, <1>m, <1>t

\* A call appends its pieces in order, or fails.
LEMMA PiecesWrote ==
    ASSUME NEW x, NEW ss \in Seq(Seq(Data)), IsWriter(x), ~ x.threw, throws \in BOOLEAN
    PROVE  Wrote(x, WritePieces(x, ss), Flatten(ss)) /\ Kept(x, WritePieces(x, ss))
<1> DEFINE T == {tt \in Seq(Seq(Data)) :
                    Wrote(x, WritePieces(x, tt), Flatten(tt)) /\ Kept(x, WritePieces(x, tt))}
<1>1. <<>> \in T
  <2>1. <<>> \in Seq(Seq(Data))
    BY EmptySeq
  <2>2. Wrote(x, x, <<>>) /\ Kept(x, x)
    BY NothingWrote DEF Kept
  <2> QED BY <2>1, <2>2, PiecesEmpty, FlattenEmpty
<1>2. ASSUME NEW tt \in Seq(Seq(Data)), NEW t \in Seq(Data), tt \in T PROVE Append(tt, t) \in T
  <2>1. Append(tt, t) \in Seq(Seq(Data)) /\ Flatten(Append(tt, t)) = Flatten(tt) \o t
    BY AppendProperties, FlattenAppend
  <2>2. WritePieces(x, Append(tt, t)) = Step(WritePieces(x, tt), t)
    BY PiecesAppend
  <2>3. PICK y : y = WritePieces(x, tt)
    OBVIOUS
  <2>4. Wrote(x, y, Flatten(tt)) /\ Kept(x, y) /\ Flatten(tt) \in Seq(Data)
    BY <1>2, <2>3, FlattenType
  <2>5. Wrote(x, Step(y, t), Flatten(tt) \o t) /\ Kept(x, Step(y, t))
    <3>1. CASE y.threw
      <4>1. Step(y, t) = y
        BY <3>1 DEF Step
      <4> QED BY <2>4, <3>1, <4>1 DEF Wrote
    <3>2. CASE ~ y.threw
      <4>1. PICK z : z = AppendBytes(y, t)
        OBVIOUS
      <4>2. IsWriter(y)
        BY <2>4 DEF Wrote
      <4>3. Wrote(y, z, t) /\ Kept(y, z)
        BY <3>2, <4>1, <4>2, AppendWrote
      <4>4. Wrote(x, z, Flatten(tt) \o t)
        BY <2>4, <4>3, WroteBoth
      <4>5. Kept(x, z)
        BY <2>4, <4>3 DEF Kept, Wrote
      <4> QED BY <3>2, <4>1, <4>4, <4>5 DEF Step
    <3> QED BY <3>1, <3>2
  <2> QED BY <2>1, <2>2, <2>3, <2>5
<1> HIDE DEF T
<1>3. ss \in T
  BY <1>1, <1>2, InductSeq
<1> QED BY <1>3 DEF T

-----------------------------------------------------------------------------
(***************************************************************************)
(* The object that Finish emits.                                           *)
(***************************************************************************)
\* A length is written as bytes.
LEMMA VarIntType ==
    ASSUME NEW v \in Nat
    PROVE  VarIntLength(v) \in Seq(Seq(Data))
<1> DEFINE byte(unit) == (v \div unit) % 256
<1>1. \A unit \in Nat \ {0} : byte(unit) \in Data
  BY SMT DEF Data
<1> HIDE DEF byte
<1>2. PICK a, b, c, d \in Data : a = byte(1) /\ b = byte(256) /\ c = byte(65536) /\ d = byte(16777216)
  BY <1>1, SMT
<1>3. CASE v <= 127
  <2>1. VarIntLength(v) = << <<v>> >>
    BY <1>3, SMT DEF VarIntLength
  <2>2. <<v>> \in Seq(Data)
    BY <1>3, SMT DEF Data
  <2> QED BY <2>1, <2>2, SMT
<1>4. CASE ~ (v <= 127) /\ v <= 65535
  <2>1. VarIntLength(v) = << <<132>>, <<a, b>> >>
    BY <1>2, <1>4, SMT DEF VarIntLength, byte
  <2>2. <<132>> \in Seq(Data) /\ <<a, b>> \in Seq(Data)
    BY SMT DEF Data
  <2> QED BY <2>1, <2>2, SMT
<1>5. CASE ~ (v <= 127) /\ ~ (v <= 65535)
  <2>1. VarIntLength(v) = << <<130>>, <<a, b, c, d>> >>
    BY <1>2, <1>5, SMT DEF VarIntLength, byte
  <2>2. <<130>> \in Seq(Data) /\ <<a, b, c, d>> \in Seq(Data)
    BY SMT DEF Data
  <2> QED BY <2>1, <2>2, SMT
<1> QED BY <1>3, <1>4, <1>5, SMT

\* The appends of the table of lengths.
Table == Flatten([i \in 1 .. Len(lengths_) |-> VarIntLength(lengths_[i])])

\* They are byte sequences, several for each length.
LEMMA TableType ==
    ASSUME lengths_ \in Seq(Nat)
    PROVE  /\ [i \in 1 .. Len(lengths_) |-> VarIntLength(lengths_[i])] \in Seq(Seq(Seq(Data)))
           /\ Len([i \in 1 .. Len(lengths_) |-> VarIntLength(lengths_[i])]) = Len(lengths_)
           /\ Table \in Seq(Seq(Data))
<1>1. PICK n : n = Len(lengths_)
  OBVIOUS
<1>2. PICK f : f = [i \in 1 .. n |-> VarIntLength(lengths_[i])]
  OBVIOUS
<1>3. PICK E : E = Seq(Seq(Data))
  OBVIOUS
<1>4. \A i \in 1 .. n : lengths_[i] \in Nat
  BY <1>1, ElementOfSeq
<1>5. \A i \in 1 .. n : VarIntLength(lengths_[i]) \in E
  BY <1>3, <1>4, VarIntType
<1>6. f \in [1 .. n -> E] /\ n \in Nat
  BY <1>1, <1>2, <1>5, LenProperties
<1>7. f \in Seq(E) /\ Len(f) = n
  BY <1>6, FunctionIsSeq
<1>8. Flatten(f) \in Seq(Seq(Data))
  BY <1>3, <1>7, FlattenType
<1> QED BY <1>1, <1>2, <1>3, <1>7, <1>8 DEF Table

\* Finish appends the count, the table and the buffered bytes, or fails.
LEMMA EmittedWrote ==
    ASSUME IsWriter(w), ~ w.threw, IsWriter(body_), lengths_ \in Seq(Nat), throws \in BOOLEAN
    PROVE  Wrote(w, Emitted, <<Len(lengths_)>> \o (Flatten(Table) \o GetSpan(body_)))
<1>n. PICK n : n = Len(lengths_)
  OBVIOUS
<1>t. PICK t : t = Flatten(Table) \o GetSpan(body_)
  OBVIOUS
<1>p. PICK pp : pp = Append(Table, GetSpan(body_))
  OBVIOUS
<1>h. PICK header : header = WriteObjectHeader(w, n, MAX_MEMBER_COUNT)
  OBVIOUS
<1>1. Emitted = IF n > MAX_MEMBER_COUNT THEN WriterFail(w, "InvalidHeader")
                ELSE IF header.threw THEN header ELSE WritePieces(header, pp)
  <2>1. DOMAIN lengths_ = 1 .. Len(lengths_)
    BY LenProperties
  <2> QED BY <2>1, <1>n, <1>p, <1>h DEF Emitted, Table
<1>2. n \in Nat /\ MAX_MEMBER_COUNT \in 0 .. 249
  BY <1>n, LenProperties, MemberCountAssumption
<1>3. GetSpan(body_) \in Seq(Data) /\ Table \in Seq(Seq(Data))
  BY SpanBytes, TableType
<1>4. pp \in Seq(Seq(Data)) /\ Flatten(pp) = t
  BY <1>3, <1>p, <1>t, FlattenAppend, AppendProperties
<1>5. t \in Seq(Data)
  BY <1>4, FlattenType
<1>6. CASE n > MAX_MEMBER_COUNT
  <2>1. "InvalidHeader" \in WriterErrors \ {"None"}
    BY DEF WriterErrors
  <2>2. Wrote(w, WriterFail(w, "InvalidHeader"), <<n>> \o t)
    BY <2>1, FailWrote, Zenon
  <2>3. Emitted = WriterFail(w, "InvalidHeader")
    BY <1>1, <1>6
  <2> QED BY <2>2, <2>3, <1>n, <1>t
<1>7. CASE ~ (n > MAX_MEMBER_COUNT)
  <2>1. PICK s : s = <<n>>
    OBVIOUS
  <2>2. s \in Seq(Data)
    BY <1>2, <1>7, <2>1 DEF Data
  <2>3. header = AppendBytes(w, s)
    BY <1>7, <1>h, <2>1 DEF WriteObjectHeader
  <2>4. Wrote(w, header, s)
    BY <2>2, <2>3, AppendWrote
  <2>5. CASE header.threw
    <3>1. Emitted = header
      BY <1>1, <1>7, <2>5
    <3>2. Wrote(w, header, s \o t)
      BY <2>4, <2>5 DEF Wrote
    <3> QED BY <3>1, <3>2, <2>1, <1>n, <1>t
  <2>6. CASE ~ header.threw
    <3>1. Emitted = WritePieces(header, pp)
      BY <1>1, <1>7, <2>6
    <3>2. IsWriter(header)
      BY <2>4 DEF Wrote
    <3>3. Wrote(header, WritePieces(header, pp), t)
      BY <1>4, <2>6, <3>2, PiecesWrote
    <3>4. Wrote(w, Emitted, s \o t)
      BY <1>5, <2>2, <2>4, <3>1, <3>3, WroteBoth
    <3> QED BY <3>4, <2>1, <1>n, <1>t
  <2> QED BY <2>5, <2>6
<1> QED BY <1>6, <1>7

\* Bytes are naturals.
LEMMA BytesAreNat ==
    ASSUME NEW s \in Seq(Data)
    PROVE  s \in Seq(Nat)
<1>1. PICK n : n = Len(s)
  OBVIOUS
<1>2. n \in Nat /\ s \in [1 .. n -> Data]
  BY <1>1, LenProperties
<1>3. Data \subseteq Nat
  BY DEF Data
<1>4. s \in [1 .. n -> Nat]
  BY <1>2, <1>3
<1> QED BY <1>2, <1>4, FunctionIsSeq

\* What is emitted is never nothing.
LEMMA EmittedGrows ==
    ASSUME IsWriter(w), ~ w.threw, IsWriter(body_), lengths_ \in Seq(Nat), throws \in BOOLEAN,
           ~ WriterFailed(Emitted)
    PROVE  Size(Emitted) > 0
<1>1. PICK t : t = Flatten(Table) \o GetSpan(body_)
  OBVIOUS
<1>2. t \in Seq(Data)
  <2>1. GetSpan(body_) \in Seq(Data) /\ Flatten(Table) \in Seq(Data)
    BY SpanBytes, TableType, FlattenType
  <2> QED BY <1>1, <2>1, ConcatProperties
<1>3. PICK s : s = <<Len(lengths_)>>
  OBVIOUS
<1>4. s \in Seq(Nat) /\ Len(s) = 1
  BY <1>3, LenProperties
<1>5. t \in Seq(Nat)
  BY <1>2, BytesAreNat
<1>6. Wrote(w, Emitted, s \o t)
  BY <1>1, <1>3, EmittedWrote
<1>7. GetSpan(Emitted) = GetSpan(w) \o (s \o t) /\ IsWriter(Emitted)
  BY <1>6 DEF Wrote
<1>8. s \o t \in Seq(Nat) /\ Len(s \o t) = 1 + Len(t) /\ Len(t) \in Nat
  <2>1. Len(t) \in Nat
    BY <1>5, LenProperties
  <2>2. s \o t \in Seq(Nat) /\ Len(s \o t) = Len(s) + Len(t)
    BY <1>4, <1>5, ConcatProperties, ZenonT(30)
  <2> QED BY <1>4, <2>1, <2>2
<1>9. GetSpan(w) \in Seq(Nat) /\ Len(GetSpan(w)) \in Nat
  <2>1. GetSpan(w) \in Seq(Data)
    BY SpanBytes
  <2> QED BY <2>1, BytesAreNat, LenProperties
<1>10. PICK u : u = s \o t
  OBVIOUS
<1>11. Len(GetSpan(w) \o u) = Len(GetSpan(w)) + Len(u)
  BY <1>8, <1>9, <1>10, ConcatProperties
<1>12. Len(GetSpan(Emitted)) = Size(Emitted)
  BY <1>7, SpanBytes
<1> QED BY <1>7, <1>8, <1>9, <1>10, <1>11, <1>12

\* Buffered members make the object that Layout describes.
LEMMA EmittedLayout ==
    ASSUME IsWriter(w), ~ w.threw, IsWriter(body_), lengths_ \in Seq(Nat), throws \in BOOLEAN,
           members \in Seq(Seq(Data)), Buffered, ~ memberFailed, ~ finished_
    PROVE  Wrote(w, Emitted, Layout)
<1>n. PICK n : n = Len(members)
  OBVIOUS
<1>1. /\ GetSpan(body_) = Flatten(members) /\ Len(lengths_) = n
      /\ \A i \in 1 .. n : lengths_[i] = Len(members[i])
  BY <1>n DEF Buffered
<1>f. PICK f : f = [i \in 1 .. n |-> VarIntLength(lengths_[i])]
  OBVIOUS
<1>a. PICK a : a = Flatten([i \in 1 .. n |-> Flatten(f[i])])
  OBVIOUS
<1>b. PICK b : b = Flatten(members)
  OBVIOUS
<1>2. f \in Seq(Seq(Seq(Data))) /\ Len(f) = n /\ Table = Flatten(f) /\ Table \in Seq(Seq(Data))
  BY <1>1, <1>f, TableType DEF Table
<1>3. Flatten(Table) = a /\ a \in Seq(Data)
  BY <1>2, <1>a, FlattenTwice, FlattenType
<1>4. b \in Seq(Data)
  BY <1>b, FlattenType
<1>5. [i \in 1 .. n |-> Flatten(f[i])] = [i \in DOMAIN members |-> Flatten(VarIntLength(Len(members[i])))]
  <2>1. DOMAIN members = 1 .. n
    BY <1>n, LenProperties
  <2>2. \A i \in 1 .. n : f[i] = VarIntLength(Len(members[i]))
    BY <1>1, <1>f
  <2> QED BY <2>1, <2>2
<1>6. Layout = (<<n>> \o a) \o b
  BY <1>5, <1>a, <1>b, <1>n DEF Layout
<1>7. Wrote(w, Emitted, <<n>> \o (a \o b))
  BY <1>1, <1>3, <1>b, EmittedWrote
<1>8. (<<n>> \o a) \o b = <<n>> \o (a \o b)
  <2>1. PICK s : s = <<n>>
    OBVIOUS
  <2>2. PICK E : E = Nat
    OBVIOUS
  <2>3. s \in Seq(E) /\ a \in Seq(E) /\ b \in Seq(E)
    BY <1>3, <1>4, <1>n, <2>1, <2>2, LenProperties, BytesAreNat
  <2>4. (s \o a) \o b = s \o (a \o b)
    BY <2>3, ConcatAssociative, SMTT(30)
  <2> QED BY <2>1, <2>4
<1> QED BY <1>6, <1>7, <1>8

\* The layout of an object is a sequence of numbers.
LEMMA LayoutType ==
    ASSUME members \in Seq(Seq(Data))
    PROVE  Layout \in Seq(Nat)
<1>1. PICK n : n = Len(members)
  OBVIOUS
<1>2. PICK f : f = [i \in 1 .. n |-> Flatten(VarIntLength(Len(members[i])))]
  OBVIOUS
<1>3. \A i \in 1 .. n : members[i] \in Seq(Data)
  BY <1>1, ElementOfSeq
<1>4. \A i \in 1 .. n : Len(members[i]) \in Nat
  BY <1>3, LenProperties
<1>5. \A i \in 1 .. n : Flatten(VarIntLength(Len(members[i]))) \in Seq(Data)
  BY <1>4, VarIntType, FlattenType
<1>6. f \in [1 .. n -> Seq(Data)] /\ n \in Nat /\ DOMAIN members = 1 .. n
  BY <1>1, <1>2, <1>5, LenProperties
<1>7. f \in Seq(Seq(Data))
  BY <1>6, FunctionIsSeq
<1>8. PICK a, b, s : a = Flatten(f) /\ b = Flatten(members) /\ s = <<n>>
  OBVIOUS
<1>9. a \in Seq(Nat) /\ b \in Seq(Nat)
  BY <1>7, <1>8, FlattenType, BytesAreNat
<1>10. s \in Seq(Nat)
  BY <1>6, <1>8
<1>11. Layout = (s \o a) \o b
  BY <1>1, <1>2, <1>6, <1>8 DEF Layout
<1> QED BY <1>9, <1>10, <1>11, ConcatProperties

-----------------------------------------------------------------------------
(***************************************************************************)
(* The calls on the target.                                                *)
(***************************************************************************)
\* The caller gets back the writer that the call made.
LEMMA ReturnedWriter ==
    ASSUME NEW y, NEW expected \in Seq(Nat), IsWriter(y), Returns(y, expected),
           y.mode = "fixed" => Len(y.buf) = FixedCap, WriterTypeOK, throws' = throws
    PROVE  /\ IsWriter(w') /\ WriterTypeOK' /\ intended' \in Seq(Nat)
           /\ Size(w') = Size(y) /\ GetSpan(w') = GetSpan(y)
           /\ WriterFailed(w') <=> WriterFailed(y)
           /\ ~ WriterFailed(y) => intended' = expected
<1>1. y \in Writers /\ y.pos <= Len(y.buf) /\ w' = [y EXCEPT !.threw = FALSE]
  BY DEF IsWriter, Returns
<1>2. /\ w' \in Writers /\ w'.mode = y.mode /\ w'.buf = y.buf /\ w'.pos = y.pos /\ w'.error = y.error
      /\ w'.threw = FALSE
  BY <1>1 DEF Writers
<1>3. Size(w') = Size(y)
  BY <1>2 DEF Size
<1>4. GetSpan(w') = GetSpan(y)
  BY <1>2, <1>3 DEF GetSpan
<1>5. WriterFailed(w') <=> WriterFailed(y)
  BY <1>2 DEF WriterFailed
<1>6. intended' \in Seq(Nat) /\ (~ WriterFailed(y) => intended' = expected)
  BY DEF Returns
<1>7. IsWriter(w')
  BY <1>1, <1>2 DEF IsWriter
<1>8. WriterTypeOK'
  <2>1. w'.pos \in 0 .. Len(w'.buf)
    <3>1. w'.pos \in Nat /\ w'.buf \in Seq(Data)
      BY <1>2 DEF Writers
    <3>2. Len(w'.buf) \in Nat
      BY <3>1, LenProperties
    <3> QED BY <1>1, <1>2, <3>1, <3>2
  <2>2. w'.mode \in {"owned", "vec", "fixed"} /\ w'.error \in WriterErrors
    BY <1>2 DEF Writers
  <2>3. w'.mode = "fixed" => Len(w'.buf) = FixedCap
    BY <1>2
  <2> QED BY <1>2, <2>1, <2>2, <2>3 DEF WriterTypeOK
<1> QED BY <1>3, <1>4, <1>5, <1>6, <1>7, <1>8

\* An append leaves an error or the bytes that were intended.
LEMMA ReturnedAppend ==
    ASSUME NEW y, NEW s \in Seq(Nat), IsWriter(w), WriterTypeOK, intended \in Seq(Nat),
           Wrote(w, y, s), Returns(y, intended \o s), throws' = throws
    PROVE  /\ IsWriter(w') /\ WriterTypeOK' /\ intended' \in Seq(Nat)
           /\ Size(w) <= Size(w') /\ Size(w') = Size(y) /\ (WriterFailed(w') <=> WriterFailed(y))
           /\ ~ WriterFailed(w') => ~ WriterFailed(w) /\ (GetSpan(w) = intended => GetSpan(w') = intended')
<1>1. intended \o s \in Seq(Nat)
  BY ConcatProperties
<1>2. IsWriter(y) /\ (y.mode = "fixed" => Len(y.buf) = FixedCap)
  BY DEF Wrote, WriterTypeOK
<1>3. PICK expected : expected = intended \o s
  OBVIOUS
<1>4. /\ IsWriter(w') /\ WriterTypeOK' /\ intended' \in Seq(Nat)
      /\ Size(w') = Size(y) /\ GetSpan(w') = GetSpan(y)
      /\ WriterFailed(w') <=> WriterFailed(y)
      /\ ~ WriterFailed(y) => intended' = expected
  BY <1>1, <1>2, <1>3, ReturnedWriter
<1>5. Size(w) <= Size(y) /\ (WriterFailed(w) => WriterFailed(y))
      /\ (~ WriterFailed(y) => GetSpan(y) = GetSpan(w) \o s)
  BY DEF Wrote
<1> QED BY <1>3, <1>4, <1>5

\* A call that empties the writer.
LEMMA ReturnedEmpty ==
    ASSUME NEW y, IsWriter(y), Size(y) = 0, Returns(y, <<>>),
           y.mode = "fixed" => Len(y.buf) = FixedCap, WriterTypeOK, throws' = throws
    PROVE  /\ IsWriter(w') /\ WriterTypeOK' /\ intended' \in Seq(Nat)
           /\ ~ WriterFailed(w') => GetSpan(w') = <<>> /\ intended' = <<>>
<1>1. PICK expected : expected = <<>>
  OBVIOUS
<1>2. expected \in Seq(Nat)
  BY <1>1, EmptySeq
<1>3. /\ IsWriter(w') /\ WriterTypeOK' /\ intended' \in Seq(Nat)
      /\ Size(w') = Size(y) /\ GetSpan(w') = GetSpan(y)
      /\ WriterFailed(w') <=> WriterFailed(y)
      /\ ~ WriterFailed(y) => intended' = expected
  BY <1>1, <1>2, ReturnedWriter
<1>4. GetSpan(y) = <<>>
  <2>1. GetSpan(y) \in Seq(Data) /\ Len(GetSpan(y)) = 0
    BY SpanBytes
  <2> QED BY <2>1, EmptySeq
<1> QED BY <1>1, <1>3, <1>4

\* A resized owned buffer holds what it held.
LEMMA ReserveWrote ==
    ASSUME NEW x, NEW capacity \in Nat, IsWriter(x), ~ x.threw
    PROVE  Wrote(x, Reserve(x, capacity), <<>>)
<1>1. CASE x.mode = "owned" /\ capacity > Len(x.buf)
  <2>1. x \in Writers /\ x.buf \in Seq(Data) /\ x.pos \in Nat /\ x.pos <= Len(x.buf) /\ Len(x.buf) \in Nat
    BY LenProperties DEF IsWriter, Writers
  <2>2. PICK n : n = capacity - Len(x.buf)
    OBVIOUS
  <2>3. n \in Nat
    BY <1>1, <2>1, <2>2
  <2>4. PICK big : big = x.buf \o Zeros(n)
    OBVIOUS
  <2>5. big \in Seq(Data) /\ Len(big) = Len(x.buf) + n /\ \A i \in 1 .. Len(x.buf) : big[i] = x.buf[i]
    BY <2>1, <2>3, <2>4, ResizeBytes
  <2>6. PICK y : y = Reserve(x, capacity)
    OBVIOUS
  <2>7. y = [x EXCEPT !.buf = big]
    BY <1>1, <2>1, <2>2, <2>4, <2>6 DEF Reserve, Writers
  <2>8. /\ y \in Writers /\ y.mode = x.mode /\ y.buf = big /\ y.pos = x.pos /\ y.error = x.error
        /\ y.threw = x.threw
    BY <2>1, <2>5, <2>7 DEF Writers
  <2>9. IsWriter(y) /\ Size(y) = Size(x) /\ Size(x) = x.pos
    BY <1>1, <2>1, <2>3, <2>5, <2>8 DEF IsWriter, Size
  <2>10. GetSpan(y) = GetSpan(x) \o <<>>
    <3>1. PICK a, b : a = GetSpan(x) /\ b = GetSpan(y)
      OBVIOUS
    <3>2. PICK m : m = x.pos
      OBVIOUS
    <3>3. /\ a \in Seq(Data) /\ Len(a) = m /\ \A i \in 1 .. m : a[i] = x.buf[i]
          /\ b \in Seq(Data) /\ Len(b) = m /\ \A i \in 1 .. m : b[i] = big[i]
      BY <2>8, <2>9, <3>1, <3>2, SpanBytes
    <3>4. \A i \in 1 .. m : a[i] = b[i]
      BY <2>1, <2>5, <3>2, <3>3
    <3>5. a = b
      BY <3>3, <3>4, SeqEqual
    <3>6. a \o <<>> = a
      BY <3>3, ConcatEmptySeq
    <3> QED BY <3>1, <3>5, <3>6
  <2>11. WriterFailed(x) => WriterFailed(y)
    BY <2>8 DEF WriterFailed
  <2> QED BY <1>1, <2>1, <2>6, <2>8, <2>9, <2>10, <2>11 DEF Wrote
<1>2. CASE ~ (x.mode = "owned" /\ capacity > Len(x.buf))
  <2>1. Reserve(x, capacity) = x
    BY <1>2 DEF Reserve
  <2> QED BY <2>1, NothingWrote
<1> QED BY <1>1, <1>2

\* Neither does trimming lose a byte.
LEMMA GetBufferWrote ==
    ASSUME NEW x, IsWriter(x), ~ x.threw, throws \in BOOLEAN
    PROVE  Wrote(x, GetBuffer(x), <<>>)
<1>1. x \in Writers /\ x.mode \in {"owned", "vec", "fixed"}
  BY DEF IsWriter, Writers
<1>2. CASE x.mode = "vec"
  <2>1. GetBuffer(x) = x
    BY <1>2 DEF GetBuffer
  <2> QED BY <2>1, NothingWrote
<1>3. CASE x.mode = "fixed"
  <2>1. GetBuffer(x) = WriterFail(x, "NotSupported")
    BY <1>3 DEF GetBuffer
  <2>2. "NotSupported" \in WriterErrors \ {"None"}
    BY DEF WriterErrors
  <2>3. PICK s : s = <<>>
    OBVIOUS
  <2>4. Wrote(x, WriterFail(x, "NotSupported"), s)
    BY <2>2, FailWrote, Zenon
  <2> QED BY <2>1, <2>3, <2>4
<1>4. CASE x.mode = "owned"
  <2>1. PICK y : y = GetBuffer(x)
    OBVIOUS
  <2>2. PICK a : a = GetSpan(x)
    OBVIOUS
  <2>3. y = [x EXCEPT !.buf = a]
    BY <1>4, <2>1, <2>2 DEF GetBuffer
  <2>4. a \in Seq(Data) /\ Len(a) = x.pos /\ x.pos \in Nat /\ Size(x) = x.pos
    BY <1>4, <2>2, SpanBytes DEF Size
  <2>5. /\ y \in Writers /\ y.mode = x.mode /\ y.buf = a /\ y.pos = x.pos /\ y.error = x.error
        /\ y.threw = x.threw
    BY <1>1, <2>3, <2>4 DEF Writers
  <2>6. IsWriter(y) /\ Size(y) = x.pos
    BY <1>4, <2>4, <2>5 DEF IsWriter, Size
  <2>7. GetSpan(y) = GetSpan(x) \o <<>>
    <3>1. PICK b : b = GetSpan(y)
      OBVIOUS
    <3>2. b \in Seq(Data) /\ Len(b) = x.pos /\ \A i \in 1 .. x.pos : b[i] = a[i]
      BY <2>5, <2>6, <3>1, SpanBytes
    <3>3. a = b
      BY <2>4, <3>2, SeqEqual
    <3>4. a \o <<>> = a
      BY <2>4, ConcatEmptySeq
    <3> QED BY <2>2, <3>1, <3>3, <3>4
  <2>8. WriterFailed(x) => WriterFailed(y)
    BY <2>5 DEF WriterFailed
  <2> QED BY <1>4, <2>1, <2>4, <2>5, <2>6, <2>7, <2>8 DEF Wrote
<1> QED BY <1>1, <1>2, <1>3, <1>4

\* What a call on the target leaves.
Lossless ==
    /\ IsWriter(w') /\ WriterTypeOK' /\ intended' \in Seq(Nat) /\ throws' = throws
    /\ ~ WriterFailed(w') =>
          \/ GetSpan(w') = <<>> /\ intended' = <<>>
          \/ ~ WriterFailed(w) /\ Size(w) <= Size(w') /\ (GetSpan(w) = intended => GetSpan(w') = intended')

\* Every call on the target keeps what was intended, empties the writer or
\* leaves an error.
LEMMA BufferCallKeeps ==
    ASSUME IsWriter(w), WriterTypeOK, intended \in Seq(Nat), throws \in BOOLEAN, BufferCall
    PROVE  Lossless
<1>t. ~ w.threw /\ w \in Writers
  BY DEF WriterTypeOK, IsWriter
<1>e. intended \o <<>> = intended /\ <<>> \in Seq(Nat)
  BY ConcatEmptySeq, EmptySeq
<1>a. ASSUME NEW y, Wrote(w, y, <<>>), Returns(y, intended), throws' = throws
      PROVE  Lossless
  <2>1. PICK s : s = <<>>
    OBVIOUS
  <2>2. s \in Seq(Nat) /\ Wrote(w, y, s) /\ Returns(y, intended \o s)
    BY <1>a, <1>e, <2>1
  <2>3. /\ IsWriter(w') /\ WriterTypeOK' /\ intended' \in Seq(Nat)
        /\ Size(w) <= Size(w')
        /\ ~ WriterFailed(w') => ~ WriterFailed(w) /\ (GetSpan(w) = intended => GetSpan(w') = intended')
    BY <1>a, <2>2, ReturnedAppend
  <2> QED BY <1>a, <2>3 DEF Lossless
<1>b. ASSUME NEW y, IsWriter(y), Size(y) = 0, y.mode = w.mode, w.mode = "fixed" => y.buf = w.buf,
             Returns(y, <<>>), throws' = throws
      PROVE  Lossless
  <2>1. y.mode = "fixed" => Len(y.buf) = FixedCap
    BY <1>b DEF WriterTypeOK
  <2>2. /\ IsWriter(w') /\ WriterTypeOK' /\ intended' \in Seq(Nat)
        /\ ~ WriterFailed(w') => GetSpan(w') = <<>> /\ intended' = <<>>
    BY <1>b, <2>1, ReturnedEmpty
  <2> QED BY <1>b, <2>2 DEF Lossless
<1>1. ASSUME NEW pieces \in Calls, Write(pieces) PROVE Lossless
  <2>1. pieces \in Seq(Seq(Data))
    BY CallsAssumption DEF Data
  <2>2. PICK y, s : y = WritePieces(w, pieces) /\ s = Flatten(pieces)
    OBVIOUS
  <2>3. Wrote(w, y, s) /\ s \in Seq(Nat)
    BY <1>t, <2>1, <2>2, PiecesWrote, FlattenType, BytesAreNat
  <2>4. Returns(y, intended \o s) /\ throws' = throws
    BY <1>1, <2>2 DEF Write
  <2>5. /\ IsWriter(w') /\ WriterTypeOK' /\ intended' \in Seq(Nat)
        /\ Size(w) <= Size(w')
        /\ ~ WriterFailed(w') => ~ WriterFailed(w) /\ (GetSpan(w) = intended => GetSpan(w') = intended')
    BY <2>3, <2>4, ReturnedAppend
  <2> QED BY <2>4, <2>5 DEF Lossless
<1>2. ASSUME NEW code \in {"InvalidHeader", "LengthLimit"}, WriteRefused(code) PROVE Lossless
  <2>1. PICK s : s = <<>>
    OBVIOUS
  <2>2. code \in WriterErrors \ {"None"}
    BY DEF WriterErrors
  <2>3. Wrote(w, WriterFail(w, code), s)
    BY <2>2, FailWrote, Zenon
  <2> QED BY <1>2, <1>a, <2>1, <2>3 DEF WriteRefused
<1>3. ASSUME CallClear PROVE Lossless
  <2>1. PICK y : y = Clear(w)
    OBVIOUS
  <2>2. /\ y \in Writers /\ y.mode = w.mode /\ y.pos = 0
        /\ y.buf = IF w.mode = "vec" THEN <<>> ELSE w.buf
    <3>1. PICK b : b = IF w.mode = "vec" THEN <<>> ELSE w.buf
      OBVIOUS
    <3>2. b \in Seq(Data)
      <4>1. w.buf \in Seq(Data) /\ <<>> \in Seq(Data)
        BY <1>t, EmptySeq DEF Writers
      <4> QED BY <3>1, <4>1
    <3>3. y = [w EXCEPT !.buf = b, !.pos = 0, !.error = "None"]
      BY <1>t, <2>1, <3>1 DEF Clear, Writers
    <3>4. y \in Writers /\ y.mode = w.mode /\ y.pos = 0 /\ y.buf = b
      BY <1>t, <3>2, <3>3 DEF Writers, WriterErrors
    <3> QED BY <3>1, <3>4
  <2>3. IsWriter(y) /\ Size(y) = 0
    <3>1. y.buf \in Seq(Data)
      BY <2>2 DEF Writers
    <3>2. Len(y.buf) \in Nat
      BY <3>1, LenProperties
    <3> QED BY <2>2, <3>2 DEF IsWriter, Size
  <2>4. w.mode = "fixed" => y.buf = w.buf
    BY <2>2
  <2> QED BY <1>3, <1>b, <2>1, <2>2, <2>3, <2>4 DEF CallClear
<1>4. ASSUME NEW capacity \in Capacities, CallReserve(capacity) PROVE Lossless
  <2>1. capacity \in Nat
    BY CallsAssumption
  <2>2. Wrote(w, Reserve(w, capacity), <<>>)
    BY <1>t, <2>1, ReserveWrote
  <2> QED BY <1>4, <1>a, <2>2 DEF CallReserve
<1>5. ASSUME CallGetBuffer PROVE Lossless
  <2>1. Wrote(w, GetBuffer(w), <<>>)
    BY <1>t, GetBufferWrote
  <2> QED BY <1>5, <1>a, <2>1 DEF CallGetBuffer
<1>6. ASSUME CallTakeBuffer PROVE Lossless
  <2>1. CASE w.mode # "owned"
    <3>1. TakeBuffer(w) = WriterFail(w, "NotSupported")
      BY <2>1 DEF TakeBuffer
    <3>2. "NotSupported" \in WriterErrors \ {"None"}
      BY DEF WriterErrors
    <3>3. PICK s : s = <<>>
      OBVIOUS
    <3>4. Wrote(w, WriterFail(w, "NotSupported"), s)
      BY <3>2, FailWrote, Zenon
    <3>5. Returns(TakeBuffer(w), intended) /\ throws' = throws
      BY <1>6, <2>1 DEF CallTakeBuffer
    <3> QED BY <1>a, <3>1, <3>3, <3>4, <3>5
  <2>2. CASE w.mode = "owned"
    <3>1. PICK y : y = TakeBuffer(w)
      OBVIOUS
    <3>2. y \in Writers /\ y.mode = w.mode /\ y.pos = 0 /\ y.buf = <<>>
      <4>1. PICK b : b = <<>>
        OBVIOUS
      <4>2. b \in Seq(Data)
        BY <4>1, EmptySeq
      <4>3. y = [w EXCEPT !.buf = b, !.pos = 0]
        BY <2>2, <3>1, <4>1 DEF TakeBuffer
      <4>4. y \in Writers /\ y.mode = w.mode /\ y.pos = 0 /\ y.buf = b
        BY <1>t, <4>2, <4>3 DEF Writers
      <4> QED BY <4>1, <4>4
    <3>3. IsWriter(y) /\ Size(y) = 0
      <4>1. Len(<<>>) = 0
        OBVIOUS
      <4> QED BY <2>2, <3>2, <4>1 DEF IsWriter, Size
    <3>4. Returns(y, <<>>) /\ throws' = throws
      BY <1>6, <2>2, <3>1 DEF CallTakeBuffer
    <3> QED BY <1>b, <2>2, <3>2, <3>3, <3>4
  <2> QED BY <2>1, <2>2
<1>7. ASSUME MovedFrom PROVE Lossless
  <2>1. w' = NewWriter("owned", <<>>) /\ intended' = <<>> /\ throws' = throws
    BY <1>7 DEF MovedFrom, Fresh
  <2>2. IsWriter(w') /\ WriterTypeOK' /\ GetSpan(w') = <<>>
    <3>1. w' = [mode |-> "owned", buf |-> <<>>, pos |-> 0, error |-> "None", threw |-> FALSE]
      BY <2>1 DEF NewWriter
    <3>2. Len(<<>>) = 0 /\ <<>> \in Seq(Data)
      BY EmptySeq
    <3>3. /\ w' \in Writers /\ w'.mode = "owned" /\ w'.buf = <<>> /\ w'.pos = 0 /\ w'.error = "None"
          /\ w'.threw = FALSE
      BY <3>1, <3>2 DEF Writers, WriterErrors
    <3>4. IsWriter(w') /\ Size(w') = 0
      BY <3>2, <3>3 DEF IsWriter, Size
    <3>5. GetSpan(w') \in Seq(Data) /\ Len(GetSpan(w')) = 0
      BY <3>4, SpanBytes
    <3>6. WriterTypeOK'
      BY <2>1, <3>2, <3>3 DEF WriterTypeOK, WriterErrors
    <3> QED BY <3>4, <3>5, <3>6, EmptySeq
  <2> QED BY <1>e, <2>1, <2>2 DEF Lossless
<1> QED BY <1>1, <1>2, <1>3, <1>4, <1>5, <1>6, <1>7 DEF BufferCall

-----------------------------------------------------------------------------
(***************************************************************************)
(* The actions keep the invariant.                                         *)
(***************************************************************************)
\* What the parts of a writer are.
LEMMA WriterParts ==
    ASSUME NEW x, IsWriter(x)
    PROVE  /\ x.mode \in {"owned", "vec", "fixed"} /\ x.error \in WriterErrors /\ x.threw \in BOOLEAN
           /\ x.pos \in 0 .. Len(x.buf)
<1>1. x \in Writers /\ x.pos <= Len(x.buf)
  BY DEF IsWriter
<1>2. x.pos \in Nat /\ x.buf \in Seq(Data)
  BY <1>1 DEF Writers
<1>3. Len(x.buf) \in Nat
  BY <1>2, LenProperties
<1> QED BY <1>1, <1>2, <1>3 DEF Writers

\* A new writer holds what its buffer is made of.
LEMMA NewWriterParts ==
    ASSUME NEW x, NEW mode \in {"owned", "vec", "fixed"}, NEW b \in Seq(Data),
           x = NewWriter(mode, b)
    PROVE  IsWriter(x) /\ ~ WriterFailed(x) /\ x.mode = mode /\ x.buf = b /\ x.threw = FALSE
<1>1. x = [mode |-> mode, buf |-> b, pos |-> 0, error |-> "None", threw |-> FALSE]
  BY DEF NewWriter
<1>2. x \in Writers /\ x.mode = mode /\ x.buf = b /\ x.pos = 0 /\ x.error = "None" /\ x.threw = FALSE
  BY <1>1 DEF Writers, WriterErrors
<1>3. Len(b) \in Nat
  BY LenProperties
<1> QED BY <1>2, <1>3 DEF IsWriter, WriterFailed

\* The writer of an object's members starts empty.
LEMMA EmptyBody ==
    ASSUME NEW x, x = NewWriter("owned", <<>>)
    PROVE  /\ IsWriter(x) /\ ~ WriterFailed(x) /\ x.mode = "owned" /\ x.threw = FALSE
           /\ x.pos \in 0 .. Len(x.buf) /\ GetSpan(x) = Flatten(<<>>)
<1>1. PICK b : b = <<>>
  OBVIOUS
<1>2. b \in Seq(Data)
  BY <1>1, EmptySeq
<1>3. IsWriter(x) /\ ~ WriterFailed(x) /\ x.mode = "owned" /\ x.buf = b /\ x.threw = FALSE
  BY <1>1, <1>2, NewWriterParts
<1>4. Size(x) = 0
  BY DEF Size, NewWriter
<1>5. GetSpan(x) \in Seq(Data) /\ Len(GetSpan(x)) = 0
  BY <1>3, <1>4, SpanBytes
<1>6. GetSpan(x) = <<>>
  BY <1>5, EmptySeq
<1> QED BY <1>3, <1>6, FlattenEmpty, WriterParts

\* The build is fixed.
LEMMA BuildType ==
    ASSUME WriterTypeOK
    PROVE  throws \in BOOLEAN
  BY CallsAssumption DEF WriterTypeOK

\* It holds initially.
LEMMA InitInv ==
    ASSUME Init
    PROVE  Inv
<1>1. PICK mode \in {"owned", "vec", "fixed"} : w = Fresh(mode)
  BY DEF Init, BuffersInit
<1>2. PICK b : b = CASE mode = "owned" -> <<>> [] mode = "vec" -> Prefix [] mode = "fixed" -> Zeros(FixedCap)
  OBVIOUS
<1>3. FixedCap \in Nat /\ Prefix \in Seq(Data)
  BY CallsAssumption DEF Data
<1>4. b \in Seq(Data) /\ (mode = "fixed" => Len(b) = FixedCap)
  <2>1. Zeros(FixedCap) \in Seq(Data) /\ Len(Zeros(FixedCap)) = FixedCap
    BY <1>3, ZerosType
  <2>2. <<>> \in Seq(Data)
    BY EmptySeq
  <2>3. /\ mode = "owned" => b = <<>>
        /\ mode = "vec" => b = Prefix
        /\ mode = "fixed" => b = Zeros(FixedCap)
    BY <1>2
  <2> QED BY <1>3, <2>1, <2>2, <2>3
<1>5. w = NewWriter(mode, b)
  BY <1>1, <1>2 DEF Fresh
<1>6. IsWriter(w) /\ w.mode = mode /\ w.buf = b /\ w.threw = FALSE
  <2>1. b \in Seq(Data)
    BY <1>4
  <2> QED BY <1>5, <2>1, NewWriterParts
<1>7. WriterTypeOK
  <2>1. throws \in Builds
    BY DEF Init, BuffersInit
  <2>2. w.mode \in {"owned", "vec", "fixed"} /\ w.error \in WriterErrors /\ w.pos \in 0 .. Len(w.buf)
    BY <1>6, WriterParts
  <2> QED BY <1>4, <1>6, <2>1, <2>2 DEF WriterTypeOK
<1>8. intended = GetSpan(w) /\ intended \in Seq(Nat)
  <2>1. intended = GetSpan(w)
    BY DEF Init, BuffersInit
  <2>2. GetSpan(w) \in Seq(Data)
    BY <1>6, SpanBytes
  <2> QED BY <2>1, <2>2, BytesAreNat
<1>9. /\ body_ = NewWriter("owned", <<>>) /\ lengths_ = <<>> /\ finished_ = FALSE /\ members = <<>>
      /\ phase = "none" /\ memberFailed = FALSE
  BY DEF Init
<1>10. /\ IsWriter(body_) /\ ~ WriterFailed(body_) /\ body_.mode = "owned" /\ body_.threw = FALSE
       /\ body_.pos \in 0 .. Len(body_.buf) /\ GetSpan(body_) = Flatten(<<>>)
  BY <1>9, EmptyBody
<1>11. TypeOK
  <2>1. lengths_ \in Seq(Nat)
    BY <1>9, EmptySeq
  <2> QED BY <1>7, <1>9, <1>10, <2>1 DEF TypeOK
<1>12. members \in Seq(Seq(Data))
  BY <1>9, EmptySeq
<1>13. Buffered
  <2>1. Len(lengths_) = 0 /\ Len(members) = 0
    BY <1>9
  <2> QED BY <1>9, <1>10, <2>1 DEF Buffered
<1> QED BY <1>6, <1>8, <1>9, <1>10, <1>11, <1>12, <1>13 DEF Inv, NoObject, Remains, NoSilentLoss

\* A call on the target.
LEMMA CallInv ==
    ASSUME Inv, Call
    PROVE  Inv'
<1>1. IsWriter(w) /\ WriterTypeOK /\ intended \in Seq(Nat) /\ phase = "none" /\ BufferCall
  BY DEF Inv, TypeOK, Call
<1>2. throws \in BOOLEAN
  BY <1>1, BuildType
<1>3. Lossless
  BY <1>1, <1>2, BufferCallKeeps
<1>4. UNCHANGED <<body_, lengths_, finished_, phase, members>>
  BY DEF Call, own
<1>5. memberFailed' = (memberFailed /\ (Size(w') > 0 \/ WriterFailed(w')))
  BY DEF Call
<1>6. TypeOK'
  <2>1. WriterTypeOK'
    BY <1>3 DEF Lossless
  <2>2. memberFailed' \in BOOLEAN
    BY <1>5
  <2> QED BY <1>4, <2>1, <2>2 DEF Inv, TypeOK
<1>7. Remains'
  BY <1>5 DEF Remains
<1>8. Buffered'
  <2>1. IsWriter(body_) /\ body_ = NewWriter("owned", <<>>) /\ lengths_ = <<>> /\ members = <<>>
    BY <1>1 DEF Inv, NoObject
  <2>2. ~ WriterFailed(body_) /\ body_.threw = FALSE /\ GetSpan(body_) = Flatten(<<>>)
    BY <2>1, EmptyBody
  <2>3. Len(<<>>) = 0
    OBVIOUS
  <2> QED BY <1>4, <2>1, <2>2, <2>3 DEF Buffered
<1>9. NoSilentLoss'
  <2> SUFFICES ASSUME ~ WriterFailed(w'), ~ memberFailed' PROVE GetSpan(w') = intended'
    BY DEF NoSilentLoss
  <2>1. CASE GetSpan(w') = <<>> /\ intended' = <<>>
    BY <2>1
  <2>2. CASE /\ ~ WriterFailed(w) /\ Size(w) <= Size(w')
             /\ GetSpan(w) = intended => GetSpan(w') = intended'
    <3>1. Size(w) \in Nat /\ Size(w') \in Nat
      BY <1>1, <1>3, SpanBytes DEF Lossless
    <3>2. ~ memberFailed
      <4> SUFFICES ASSUME memberFailed PROVE FALSE
        OBVIOUS
      <4>1. ~ (Size(w') > 0)
        BY <1>5
      <4>2. ~ (Size(w) > 0)
        BY <2>2, <3>1, <4>1
      <4> QED BY <1>1, <2>2, <4>2 DEF Inv, Remains
    <3> QED BY <2>2, <3>2 DEF Inv, NoSilentLoss
  <2> QED BY <1>3, <2>1, <2>2 DEF Lossless
<1>10. IsWriter(w') /\ intended' \in Seq(Nat)
  BY <1>3 DEF Lossless
<1>11. NoObject'
  BY <1>4 DEF Inv, NoObject
<1>12. /\ IsWriter(body_') /\ members' \in Seq(Seq(Data))
       /\ phase' = "open" => ~ body_'.threw
  BY <1>4 DEF Inv
<1> QED BY <1>6, <1>7, <1>8, <1>9, <1>10, <1>11, <1>12 DEF Inv

\* A new object.
LEMMA OpenInv ==
    ASSUME Inv, Open
    PROVE  Inv'
<1>1. /\ UNCHANGED <<throws, w, intended, body_, lengths_, finished_, members, memberFailed>>
      /\ phase = "none" /\ phase' = "open"
  BY DEF Open, own
<1>2. body_ = NewWriter("owned", <<>>) /\ ~ finished_
  BY <1>1 DEF Inv, NoObject
<1>3. ~ body_.threw
  BY <1>2, EmptyBody
<1>4. TypeOK'
  BY <1>1 DEF Inv, TypeOK, WriterTypeOK
<1>5. Buffered'
  BY <1>1 DEF Inv, Buffered
<1>6. Remains' /\ NoSilentLoss' /\ NoObject'
  BY <1>1, <1>2 DEF Inv, Remains, NoSilentLoss, NoObject
<1> QED BY <1>1, <1>3, <1>4, <1>5, <1>6 DEF Inv

\* The end of a sequence.
LEMMA Ending ==
    ASSUME NEW E, NEW s \in Seq(E), NEW m \in Nat, NEW n \in Nat, m <= n, n <= Len(s)
    PROVE  /\ SubSeq(s, m + 1, n) \in Seq(E) /\ Len(SubSeq(s, m + 1, n)) = n - m
           /\ \A i \in 1 .. n - m : SubSeq(s, m + 1, n)[i] = s[m + i]
<1>1. Len(s) \in Nat
  BY LenProperties
<1>2. \A i \in m + 1 .. n : s[i] \in E
  BY <1>1, ElementOfSeq
<1>3. PICK l : l = m + 1
  OBVIOUS
<1>4. /\ SubSeq(s, l, n) \in Seq(E)
      /\ Len(SubSeq(s, l, n)) = IF l <= n THEN n - l + 1 ELSE 0
      /\ \A i \in 1 .. n - l + 1 : SubSeq(s, l, n)[i] = s[l + i - 1]
  BY <1>2, <1>3, SubSeqProperties
<1>5. n - l + 1 = n - m /\ (~ (l <= n) => n - m = 0) /\ \A i \in 1 .. n - m : l + i - 1 = m + i
  BY <1>3
<1> QED BY <1>3, <1>4, <1>5

\* What a writer holds behind its old size is what was written.
LEMMA WrittenBytes ==
    ASSUME NEW x, NEW y, NEW s \in Seq(Data), IsWriter(x), Wrote(x, y, s)
    PROVE  /\ SubSeq(y.buf, Size(x) + 1, Size(y)) \in Seq(Data)
           /\ ~ WriterFailed(y) =>
                 SubSeq(y.buf, Size(x) + 1, Size(y)) = s /\ Size(y) - Size(x) = Len(s)
<1>1. IsWriter(y) /\ Size(x) <= Size(y)
  BY DEF Wrote
<1>2. PICK m, n : m = Size(x) /\ n = Size(y)
  OBVIOUS
<1>3. PICK a, b : a = GetSpan(x) /\ b = GetSpan(y)
  OBVIOUS
<1>4. /\ m \in Nat /\ a \in Seq(Data) /\ Len(a) = m
      /\ n \in Nat /\ n <= Len(y.buf) /\ b \in Seq(Data) /\ Len(b) = n
      /\ \A i \in 1 .. n : b[i] = y.buf[i]
  BY <1>1, <1>2, <1>3, SpanBytes
<1>5. y.buf \in Seq(Data)
  BY <1>1 DEF IsWriter, Writers
<1>6. PICK e : e = SubSeq(y.buf, m + 1, n)
  OBVIOUS
<1>7. e \in Seq(Data) /\ Len(e) = n - m /\ \A i \in 1 .. n - m : e[i] = y.buf[m + i]
  <2>1. PICK buf : buf = y.buf
    OBVIOUS
  <2>2. buf \in Seq(Data) /\ m \in Nat /\ n \in Nat /\ m <= n /\ n <= Len(buf)
    BY <1>1, <1>2, <1>4, <1>5, <2>1
  <2>3. /\ SubSeq(buf, m + 1, n) \in Seq(Data) /\ Len(SubSeq(buf, m + 1, n)) = n - m
        /\ \A i \in 1 .. n - m : SubSeq(buf, m + 1, n)[i] = buf[m + i]
    BY <2>2, Ending
  <2> QED BY <1>6, <2>1, <2>3
<1>8. ASSUME ~ WriterFailed(y) PROVE e = s /\ n - m = Len(s)
  <2>1. b = a \o s
    BY <1>3, <1>8 DEF Wrote
  <2>2. Len(s) \in Nat
    BY LenProperties
  <2>3. /\ Len(a \o s) = m + Len(s)
        /\ \A i \in 1 .. m + Len(s) : (a \o s)[i] = IF i <= m THEN a[i] ELSE s[i - m]
    <3>1. a \in Seq(Data) /\ Len(a) = m
      BY <1>4
    <3> QED BY <3>1, ConcatProperties, SMTT(30)
  <2>4. n = m + Len(s) /\ n - m = Len(s)
    BY <1>4, <2>1, <2>2, <2>3
  <2>5. ASSUME NEW i \in 1 .. Len(s) PROVE e[i] = s[i]
    <3>1. PICK k : k = m + i
      OBVIOUS
    <3>2. k \in 1 .. n /\ k \in 1 .. m + Len(s) /\ ~ (k <= m) /\ k - m = i /\ i \in 1 .. n - m
      BY <1>4, <2>2, <2>4, <3>1
    <3>3. e[i] = y.buf[k] /\ b[k] = y.buf[k]
      BY <1>4, <1>7, <3>1, <3>2
    <3>4. b[k] = s[k - m]
      BY <2>1, <2>3, <3>2
    <3> QED BY <3>2, <3>3, <3>4
  <2> QED BY <1>7, <2>4, <2>5, SeqEqual
<1> QED BY <1>2, <1>6, <1>7, <1>8

\* A member.
LEMMA WriteMemberInv ==
    ASSUME NEW value \in Values, NEW refused \in BOOLEAN, Inv, WriteMember(value, refused)
    PROVE  Inv'
<1>1. PICK y : y = WritePieces(body_, value)
  OBVIOUS
<1>2. PICK z : z = IF refused THEN WriterFail(y, "LengthLimit") ELSE y
  OBVIOUS
<1>3. PICK e : e = SubSeq(z.buf, Size(body_) + 1, Size(z))
  OBVIOUS
<1>4. /\ phase = "open" /\ body_' = z
      /\ lengths_' = IF z.threw THEN lengths_ ELSE Append(lengths_, Size(z) - Size(body_))
      /\ phase' = IF z.threw THEN "unwinding" ELSE "open"
      /\ members' = IF refused \/ finished_ THEN members ELSE Append(members, e)
      /\ memberFailed' = (memberFailed \/ (refused /\ ~ finished_))
      /\ UNCHANGED <<throws, w, intended, finished_>>
  BY <1>1, <1>2, <1>3 DEF WriteMember
<1>5. /\ IsWriter(body_) /\ body_.mode = "owned" /\ ~ body_.threw /\ WriterTypeOK
      /\ lengths_ \in Seq(Nat) /\ members \in Seq(Seq(Data))
  BY <1>4 DEF Inv, TypeOK
<1>6. throws \in BOOLEAN
  BY <1>5, BuildType
<1>7. PICK s : s = Flatten(value)
  OBVIOUS
<1>8. value \in Seq(Seq(Data))
  BY ValuesAssumption DEF Data
<1>9. s \in Seq(Data) /\ Wrote(body_, y, s) /\ Kept(body_, y)
  BY <1>1, <1>5, <1>6, <1>7, <1>8, FlattenType, PiecesWrote
<1>10. Wrote(body_, z, s)
  <2>1. CASE refused
    <3>1. "LengthLimit" \in WriterErrors \ {"None"}
      BY DEF WriterErrors
    <3>2. PICK t : t = <<>>
      OBVIOUS
    <3>3. IsWriter(y)
      BY <1>9 DEF Wrote
    <3>4. Wrote(y, WriterFail(y, "LengthLimit"), t)
      BY <1>6, <3>1, <3>3, FailWrote, Zenon
    <3>5. t \in Seq(Data)
      BY <3>2, EmptySeq
    <3>6. Wrote(body_, WriterFail(y, "LengthLimit"), s \o t)
      BY <1>5, <1>9, <3>4, <3>5, WroteBoth
    <3>7. s \o t = s
      BY <1>9, <3>2, ConcatEmptySeq
    <3> QED BY <1>2, <2>1, <3>6, <3>7
  <2>2. CASE ~ refused
    BY <1>2, <1>9, <2>2
  <2> QED BY <2>1, <2>2
<1>11. IsWriter(z) /\ z.mode = "owned" /\ z.pos \in 0 .. Len(z.buf)
  <2>1. IsWriter(z) /\ z.mode = "owned"
    BY <1>5, <1>10 DEF Wrote
  <2> QED BY <2>1, WriterParts
<1>12. e \in Seq(Data) /\ (~ WriterFailed(z) => e = s /\ Size(z) - Size(body_) = Len(s))
  BY <1>3, <1>5, <1>9, <1>10, WrittenBytes
<1>13. PICK d : d = Size(z) - Size(body_)
  OBVIOUS
<1>14. d \in Nat
  <2>1. Size(z) \in Nat /\ Size(body_) \in Nat /\ Size(body_) <= Size(z)
    BY <1>5, <1>10, <1>11, SpanBytes DEF Wrote
  <2> QED BY <1>13, <2>1
<1>15. lengths_' \in Seq(Nat) /\ members' \in Seq(Seq(Data))
  BY <1>4, <1>5, <1>12, <1>13, <1>14, AppendProperties
<1>16. TypeOK'
  <2>1. WriterTypeOK'
    BY <1>4, <1>5 DEF WriterTypeOK
  <2>2. memberFailed' \in BOOLEAN /\ phase' \in {"none", "open", "unwinding"} /\ finished_' \in BOOLEAN
    BY <1>4 DEF Inv, TypeOK
  <2> QED BY <1>4, <1>11, <1>15, <2>1, <2>2 DEF TypeOK
<1>17. NoObject' /\ (phase' = "open" => ~ body_'.threw)
  BY <1>4 DEF NoObject
<1>18. Remains' /\ NoSilentLoss'
  <2>1. NoSilentLoss'
    BY <1>4 DEF Inv, NoSilentLoss
  <2>2. phase' # "none"
    BY <1>4
  <2>3. Remains'
    BY <1>4, <2>2 DEF Inv, Remains
  <2> QED BY <2>1, <2>3
<1>19. Buffered'
  <2> SUFFICES ASSUME ~ memberFailed', ~ finished_'
               PROVE  /\ ~ WriterFailed(body_') /\ ~ body_'.threw
                      /\ GetSpan(body_') = Flatten(members')
                      /\ Len(lengths_') = Len(members')
                      /\ \A i \in 1 .. Len(members') : lengths_'[i] = Len(members'[i])
    BY DEF Buffered
  <2>1. ~ memberFailed /\ ~ finished_ /\ ~ refused
    BY <1>4
  <2>2. /\ ~ WriterFailed(body_) /\ GetSpan(body_) = Flatten(members) /\ Len(lengths_) = Len(members)
        /\ \A i \in 1 .. Len(members) : lengths_[i] = Len(members[i])
    BY <2>1 DEF Inv, Buffered
  <2>3. z = y /\ ~ z.threw /\ ~ WriterFailed(z)
    <3>1. z = y
      BY <1>2, <2>1
    <3>2. y.error = body_.error /\ y.threw = body_.threw
      BY <1>5, <1>9 DEF Kept
    <3> QED BY <1>5, <2>2, <3>1, <3>2 DEF WriterFailed
  <2>4. lengths_' = Append(lengths_, d) /\ members' = Append(members, e) /\ e = s /\ d = Len(e)
    BY <1>4, <1>12, <1>13, <2>1, <2>3
  <2>5. GetSpan(z) = GetSpan(body_) \o s
    BY <1>10, <2>3 DEF Wrote
  <2>6. Flatten(members') = Flatten(members) \o e
    BY <1>5, <1>12, <2>4, FlattenAppend
  <2>7. PICK n : n = Len(members)
    OBVIOUS
  <2>8. /\ n \in Nat /\ Len(lengths_') = n + 1 /\ Len(members') = n + 1
        /\ lengths_'[n + 1] = d /\ members'[n + 1] = e
        /\ \A i \in 1 .. n : lengths_'[i] = lengths_[i] /\ members'[i] = members[i]
    BY <1>5, <1>12, <1>14, <2>2, <2>4, <2>7, AppendProperties, LenProperties
  <2>9. \A i \in 1 .. n + 1 : lengths_'[i] = Len(members'[i])
    <3>1. 1 .. n + 1 = (1 .. n) \cup {n + 1}
      BY <2>8
    <3>2. \A i \in 1 .. n : lengths_'[i] = Len(members'[i])
      BY <2>2, <2>7, <2>8
    <3>3. lengths_'[n + 1] = Len(members'[n + 1])
      BY <2>4, <2>8
    <3> QED BY <3>1, <3>2, <3>3
  <2> QED BY <1>4, <2>2, <2>3, <2>4, <2>5, <2>6, <2>8, <2>9
<1>20. IsWriter(w') /\ intended' \in Seq(Nat) /\ IsWriter(body_')
  BY <1>4, <1>11 DEF Inv
<1> QED BY <1>15, <1>16, <1>17, <1>18, <1>19, <1>20 DEF Inv

\* What Finish leaves in the target, called by the program or the destructor.
LEMMA EmitReturned ==
    ASSUME Inv, ~ finished_, Returns(Emitted, intended \o Layout),
           throws' = throws, memberFailed' = memberFailed
    PROVE  /\ IsWriter(w') /\ WriterTypeOK' /\ intended' \in Seq(Nat)
           /\ WriterFailed(w') \/ Size(w') > 0
           /\ NoSilentLoss'
<1>1. /\ IsWriter(w) /\ WriterTypeOK /\ w.threw = FALSE /\ intended \in Seq(Nat)
      /\ IsWriter(body_) /\ lengths_ \in Seq(Nat) /\ members \in Seq(Seq(Data))
  BY DEF Inv, TypeOK, WriterTypeOK
<1>2. throws \in BOOLEAN
  BY <1>1, BuildType
<1>3. PICK y, s : y = Emitted /\ s = Layout
  OBVIOUS
<1>4. s \in Seq(Nat) /\ intended \o s \in Seq(Nat)
  BY <1>1, <1>3, LayoutType, ConcatProperties
<1>5. IsWriter(y) /\ (y.mode = "fixed" => Len(y.buf) = FixedCap)
  <2>1. PICK t : t = <<Len(lengths_)>> \o (Flatten(Table) \o GetSpan(body_))
    OBVIOUS
  <2>2. Wrote(w, y, t)
    BY <1>1, <1>2, <1>3, <2>1, EmittedWrote
  <2> QED BY <1>1, <2>2 DEF Wrote, WriterTypeOK
<1>6. PICK expected : expected = intended \o s
  OBVIOUS
<1>7. /\ IsWriter(w') /\ WriterTypeOK' /\ intended' \in Seq(Nat)
      /\ Size(w') = Size(y) /\ (WriterFailed(w') <=> WriterFailed(y))
  BY <1>1, <1>3, <1>4, <1>5, <1>6, ReturnedWriter
<1>8. WriterFailed(y) \/ Size(y) > 0
  BY <1>1, <1>2, <1>3, EmittedGrows
<1>9. NoSilentLoss'
  <2> SUFFICES ASSUME ~ WriterFailed(w'), ~ memberFailed PROVE GetSpan(w') = intended'
    BY DEF NoSilentLoss
  <2>1. Wrote(w, y, s)
    BY <1>1, <1>2, <1>3, EmittedLayout DEF Inv
  <2>2. ~ WriterFailed(w) /\ (GetSpan(w) = intended => GetSpan(w') = intended')
    BY <1>1, <1>3, <1>4, <2>1, ReturnedAppend
  <2> QED BY <2>2 DEF Inv, NoSilentLoss
<1> QED BY <1>7, <1>8, <1>9

\* Finish.
LEMMA FinishInv ==
    ASSUME Inv, Finish
    PROVE  Inv'
<1>1. /\ phase = "open" /\ ~ finished_ /\ finished_' = TRUE /\ phase' \in {"open", "unwinding"}
      /\ Returns(Emitted, intended \o Layout)
      /\ UNCHANGED <<throws, body_, lengths_, members, memberFailed>>
  BY DEF Finish
<1>2. /\ IsWriter(w') /\ WriterTypeOK' /\ intended' \in Seq(Nat)
      /\ WriterFailed(w') \/ Size(w') > 0
      /\ NoSilentLoss'
  BY <1>1, EmitReturned
<1>3. TypeOK'
  BY <1>1, <1>2 DEF Inv, TypeOK
<1>4. NoObject' /\ Buffered' /\ Remains'
  BY <1>1, <1>2 DEF NoObject, Buffered, Remains
<1>5. /\ IsWriter(body_') /\ members' \in Seq(Seq(Data))
      /\ phase' = "open" => ~ body_'.threw
  BY <1>1 DEF Inv
<1> QED BY <1>2, <1>3, <1>4, <1>5 DEF Inv

\* The end of the scope.
LEMMA DestroyInv ==
    ASSUME Inv, Destroy
    PROVE  Inv'
<1>1. /\ finished_ => UNCHANGED <<w, intended>>
      /\ ~ finished_ => Returns(Emitted, intended \o Layout)
      /\ throws' = throws /\ memberFailed' = memberFailed
      /\ body_' = NewWriter("owned", <<>>) /\ lengths_' = <<>> /\ finished_' = FALSE
      /\ members' = <<>> /\ phase' = "none"
  BY DEF Destroy, Discard
<1>2. /\ IsWriter(w') /\ WriterTypeOK' /\ intended' \in Seq(Nat)
      /\ memberFailed' => WriterFailed(w') \/ Size(w') > 0
      /\ NoSilentLoss'
  <2>1. CASE finished_
    <3>1. WriterTypeOK' /\ IsWriter(w') /\ intended' \in Seq(Nat) /\ NoSilentLoss'
      BY <1>1, <2>1 DEF Inv, TypeOK, WriterTypeOK, NoSilentLoss
    <3>2. memberFailed' => WriterFailed(w') \/ Size(w') > 0
      BY <1>1, <2>1 DEF Inv, Remains
    <3> QED BY <3>1, <3>2
  <2>2. CASE ~ finished_
    BY <1>1, <2>2, EmitReturned
  <2> QED BY <2>1, <2>2
<1>3. /\ IsWriter(body_') /\ ~ WriterFailed(body_') /\ body_'.mode = "owned" /\ body_'.threw = FALSE
      /\ body_'.pos \in 0 .. Len(body_'.buf) /\ GetSpan(body_') = Flatten(<<>>)
  BY <1>1, EmptyBody
<1>4. lengths_' \in Seq(Nat) /\ members' \in Seq(Seq(Data)) /\ Len(lengths_') = 0 /\ Len(members') = 0
  BY <1>1, EmptySeq
<1>5. TypeOK'
  BY <1>1, <1>2, <1>3, <1>4 DEF Inv, TypeOK
<1>6. Buffered'
  BY <1>1, <1>3, <1>4 DEF Buffered
<1>7. NoObject' /\ Remains'
  BY <1>1, <1>2 DEF NoObject, Remains
<1> QED BY <1>1, <1>2, <1>3, <1>4, <1>5, <1>6, <1>7 DEF Inv

-----------------------------------------------------------------------------
(***************************************************************************)
(* The theorems.                                                           *)
(***************************************************************************)
\* Every call on the target and every operation of a version-tolerant object
\* keeps the invariant.
THEOREM Invariance == Spec => []Inv
<1>1. Init => Inv
  BY InitInv
<1>2. Inv /\ [Next]_vars => Inv'
  <2> SUFFICES ASSUME Inv, [Next]_vars PROVE Inv'
    OBVIOUS
  <2>1. CASE Call
    BY <2>1, CallInv
  <2>2. CASE Open
    BY <2>2, OpenInv
  <2>3. ASSUME NEW value \in Values, NEW refused \in BOOLEAN, WriteMember(value, refused)
        PROVE  Inv'
    BY <2>3, WriteMemberInv
  <2>4. CASE Finish
    BY <2>4, FinishInv
  <2>5. CASE Destroy
    BY <2>5, DestroyInv
  <2>6. CASE UNCHANGED vars
    <3>1. UNCHANGED <<throws, w, intended, body_, lengths_, finished_, phase, members, memberFailed>>
      BY <2>6 DEF vars, own
    <3>2. TypeOK' /\ NoSilentLoss' /\ Remains' /\ NoObject'
      BY <3>1 DEF Inv, TypeOK, WriterTypeOK, NoSilentLoss, Remains, NoObject
    <3>3. Buffered'
      BY <3>1 DEF Inv, Buffered
    <3> QED BY <3>1, <3>2, <3>3 DEF Inv
  <2> QED BY <2>1, <2>2, <2>3, <2>4, <2>5, <2>6 DEF Next
<1> QED BY <1>1, <1>2, PTL DEF Spec

\* In every mode and both builds the write positions of the target and of the
\* object's own buffer stay inside their buffers, and a fixed buffer keeps its
\* capacity.
THEOREM TypeCorrect == Spec => []TypeOK
<1>1. Inv => TypeOK
  BY DEF Inv
<1> QED BY <1>1, Invariance, PTL

\* A writer that reports no error holds every byte it was given, in order, and
\* each version-tolerant object whose members were serialized whole and once.
THEOREM NothingLost == Spec => []NoSilentLoss
<1>1. Inv => NoSilentLoss
  BY DEF Inv
<1> QED BY <1>1, Invariance, PTL
=============================================================================
