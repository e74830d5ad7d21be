--------------------------- MODULE SequenceProofs ---------------------------
(***************************************************************************)
(* Lemmas about sequences that the proofs of the components share.         *)
(*                                                                         *)
(* The library's induction theorems are about operators; these are about   *)
(* sets, which a backend can instantiate: a set of numbers that has 0 and  *)
(* each successor of its members is all of Nat, and likewise for the       *)
(* sequences over a set.  They follow from the least element of what is    *)
(* missing.                                                                *)
(***************************************************************************)
EXTENDS SequenceFilter, SequencesExt, Integers, SequenceTheorems, WellFoundedInduction, TLAPS

Less == {ss \in Nat \X Nat : ss[1] < ss[2]}

(* The order of the numbers has no infinite descent. *)
LEMMA LessIsWellFounded == IsWellFoundedOn(Less, Nat)
BY NatLessThanWellFounded DEF OpToRel, Less

(* Induction over the numbers. *)
LEMMA NatInductive ==
  ASSUME NEW T, 0 \in T, \A n \in Nat : n \in T => n + 1 \in T
  PROVE  \A n \in Nat : n \in T
<1>. DEFINE Missing == {n \in Nat : n \notin T}
<1>. SUFFICES ASSUME Missing # {} PROVE FALSE
  OBVIOUS
<1>1. PICK m \in Missing : \A k \in Missing : <<k, m>> \notin Less
  <2>. HIDE DEF Missing
  <2>1. Missing \subseteq Nat
    BY DEF Missing
  <2>. QED
    BY <2>1, LessIsWellFounded, WFMin
<1>2. m \in Nat /\ m # 0 /\ m \notin T
  OBVIOUS
<1>3. m - 1 \in Nat /\ (m - 1) + 1 = m
  BY <1>2
<1>4. m - 1 \notin T
  BY <1>2, <1>3
<1>5. <<m - 1, m>> \in Less
  BY <1>2, <1>3 DEF Less
<1>. QED
  BY <1>1, <1>3, <1>4, <1>5

(* Induction over the sequences of a set, from their fronts. *)
LEMMA SeqInductive ==
  ASSUME NEW A, NEW T, <<>> \in T, \A s \in Seq(A) : \A x \in A : s \in T => Append(s, x) \in T
  PROVE  \A s \in Seq(A) : s \in T
<1>. DEFINE Short == {n \in Nat : \A s \in Seq(A) : Len(s) = n => s \in T}
<1>1. 0 \in Short
  <2>1. \A s \in Seq(A) : Len(s) = 0 => s = <<>>
    BY EmptySeq
  <2>. QED
    BY <2>1
<1>2. ASSUME NEW n \in Nat, n \in Short PROVE n + 1 \in Short
  <2>1. ASSUME NEW s \in Seq(A), Len(s) = n + 1 PROVE s \in T
    <3>. DEFINE front == [i \in 1 .. n |-> s[i]]
    <3>1. front \in Seq(A) /\ Len(front) = n
      BY <2>1
    <3>2. s[n + 1] \in A
      BY <2>1
    <3>3. s = Append(front, s[n + 1])
      BY <2>1, <3>1, <3>2
    <3>. HIDE DEF front
    <3>4. front \in T
      BY <1>2, <3>1
    <3>. QED
      BY <3>1, <3>2, <3>3, <3>4
  <2>. QED
    BY <2>1
<1>3. \A n \in Nat : n \in Short
  <2>. HIDE DEF Short
  <2>. QED
    BY <1>1, <1>2, NatInductive
<1>. QED
  BY <1>3, LenProperties

-----------------------------------------------------------------------------
(* What is kept of each prefix of s. *)
IsKept(f, s, S, n) ==
  f = [i \in 0 .. n |-> IF i = 0 THEN <<>>
                        ELSE IF s[i] \in S THEN Append(f[i - 1], s[i]) ELSE f[i - 1]]

(* The recursion of Filter has a solution for each prefix. *)
LEMMA KeptExists ==
  ASSUME NEW s, NEW S, NEW n \in Nat
  PROVE  \E f : IsKept(f, s, S, n)
<1>. DEFINE T == {k \in Nat : \E f : IsKept(f, s, S, k)}
<1>1. 0 \in T
  <2>1. IsKept([i \in 0 .. 0 |-> <<>>], s, S, 0)
    BY DEF IsKept
  <2>. QED
    BY <2>1
<1>2. ASSUME NEW k \in Nat, k \in T PROVE k + 1 \in T
  <2>1. PICK f : IsKept(f, s, S, k)
    BY <1>2
  <2>. DEFINE g == [i \in 0 .. k + 1 |->
                     IF i <= k THEN f[i]
                     ELSE IF s[i] \in S THEN Append(f[i - 1], s[i]) ELSE f[i - 1]]
  <2>2. \A i \in 0 .. k : f[i] = IF i = 0 THEN <<>>
                                 ELSE IF s[i] \in S THEN Append(f[i - 1], s[i]) ELSE f[i - 1]
    BY <2>1 DEF IsKept
  <2>3. \A i \in 0 .. k : g[i] = f[i]
    OBVIOUS
  <2>4. \A i \in 0 .. k + 1 : g[i] = IF i = 0 THEN <<>>
                                     ELSE IF s[i] \in S THEN Append(g[i - 1], s[i]) ELSE g[i - 1]
    <3>. TAKE i \in 0 .. k + 1
    <3>1. CASE i = 0
      BY <2>2, <2>3, <3>1
    <3>2. CASE i # 0
      <4>1. i - 1 \in 0 .. k
        BY <3>2
      <4>2. g[i - 1] = f[i - 1]
        BY <2>3, <4>1
      <4>. QED
        BY <2>2, <3>2, <4>2
    <3>. QED
      BY <3>1, <3>2
  <2>5. IsKept(g, s, S, k + 1)
    <3>1. g = [i \in 0 .. k + 1 |-> g[i]]
      OBVIOUS
    <3>. HIDE DEF g
    <3>. QED
      BY <2>4, <3>1 DEF IsKept
  <2>. QED
    BY <2>5
<1>. HIDE DEF T
<1>3. n \in T
  BY <1>1, <1>2, NatInductive
<1>. QED
  BY <1>3 DEF T

(* Filter is the last of them. *)
LEMMA FilterIsKept ==
  ASSUME NEW s, NEW S, Len(s) \in Nat
  PROVE  \E f : IsKept(f, s, S, Len(s)) /\ Filter(s, S) = f[Len(s)]
<1>. DEFINE f == CHOOSE h : IsKept(h, s, S, Len(s))
<1>1. IsKept(f, s, S, Len(s))
  BY KeptExists
<1>2. Filter(s, S) = f[Len(s)]
  BY DEF Filter, IsKept
<1>. QED
  BY <1>1, <1>2

\* s and t begin with the same m items.
Agree(s, t, m) == \A i \in 1 .. m : s[i] = t[i]

(* Two solutions agree where both are defined. *)
LEMMA KeptAgree ==
  ASSUME NEW s, NEW t, NEW S, NEW m \in Nat, NEW n \in Nat, NEW f, NEW g,
         IsKept(f, s, S, m), IsKept(g, t, S, n), m <= n, Agree(s, t, m)
  PROVE  \A i \in 0 .. m : f[i] = g[i]
<1>. DEFINE T == {k \in Nat : k <= m => f[k] = g[k]}
<1>1. 0 \in T
  BY DEF IsKept
<1>2. ASSUME NEW k \in Nat, k \in T PROVE k + 1 \in T
  <2>. SUFFICES ASSUME k + 1 <= m PROVE f[k + 1] = g[k + 1]
    OBVIOUS
  <2>1. f[k] = g[k] /\ (k + 1) - 1 = k /\ k + 1 # 0
    BY <1>2
  <2>2. f[k + 1] = IF s[k + 1] \in S THEN Append(f[k], s[k + 1]) ELSE f[k]
    <3>1. \A i \in 0 .. m : f[i] = IF i = 0 THEN <<>>
                                   ELSE IF s[i] \in S THEN Append(f[i - 1], s[i]) ELSE f[i - 1]
      BY DEF IsKept
    <3>. QED
      BY <2>1, <3>1
  <2>3. g[k + 1] = IF t[k + 1] \in S THEN Append(g[k], t[k + 1]) ELSE g[k]
    <3>1. \A i \in 0 .. n : g[i] = IF i = 0 THEN <<>>
                                   ELSE IF t[i] \in S THEN Append(g[i - 1], t[i]) ELSE g[i - 1]
      BY DEF IsKept
    <3>. QED
      BY <2>1, <3>1
  <2>4. s[k + 1] = t[k + 1]
    BY DEF Agree
  <2>. QED
    BY <2>1, <2>2, <2>3, <2>4
<1>3. \A k \in Nat : k \in T
  <2>. HIDE DEF T
  <2>. QED
    BY <1>1, <1>2, NatInductive
<1>. QED
  BY <1>3

(* Filter from the front of the sequence. *)
LEMMA FilterEmpty == \A S : Filter(<<>>, S) = <<>>
<1>. TAKE S
<1>1. PICK f : IsKept(f, <<>>, S, Len(<<>>)) /\ Filter(<<>>, S) = f[Len(<<>>)]
  BY FilterIsKept
<1>. QED
  BY <1>1 DEF IsKept

(* Filtering one more item.                                                *)
LEMMA FilterAppend ==
  ASSUME NEW A, NEW s \in Seq(A), NEW x \in A, NEW S
  PROVE  Filter(Append(s, x), S) = IF x \in S THEN Append(Filter(s, S), x) ELSE Filter(s, S)
<1>. DEFINE n == Len(s)
            t == Append(s, x)
<1>1. n \in Nat /\ t \in Seq(A) /\ Len(t) = n + 1 /\ t[n + 1] = x /\ \A i \in 1 .. n : s[i] = t[i]
  OBVIOUS
<1>. HIDE DEF n, t
<1>2. PICK f : IsKept(f, s, S, n) /\ Filter(s, S) = f[n]
  BY <1>1, FilterIsKept DEF n
<1>3. PICK g : IsKept(g, t, S, n + 1) /\ Filter(t, S) = g[n + 1]
  BY <1>1, FilterIsKept
<1>4. \A i \in 0 .. n : f[i] = g[i]
  <2>1. n + 1 \in Nat /\ n <= n + 1
    BY <1>1
  <2>2. n \in Nat /\ Agree(s, t, n)
    BY <1>1 DEF Agree
  <2>. QED
    BY <1>2, <1>3, <2>1, <2>2, KeptAgree
<1>5. g[n + 1] = IF t[n + 1] \in S THEN Append(g[n], t[n + 1]) ELSE g[n]
  <2>1. n + 1 \in 0 .. n + 1 /\ n + 1 # 0 /\ (n + 1) - 1 = n
    BY <1>1
  <2>. QED
    BY <1>3, <2>1 DEF IsKept
<1>6. f[n] = g[n]
  BY <1>1, <1>4
<1>. QED
  BY <1>1, <1>2, <1>3, <1>5, <1>6 DEF t

ItemsOf(s) == {s[i] : i \in DOMAIN s}

(* What is kept are the items of s that are in S. *)
LEMMA FilterType ==
  ASSUME NEW A, NEW s \in Seq(A), NEW S
  PROVE  Filter(s, S) \in Seq(A \cap S)
<1>. DEFINE B == A \cap S
            T == {u \in Seq(A) : Filter(u, S) \in Seq(B)}
<1>. HIDE DEF B
<1>1. <<>> \in T
  <2>1. <<>> \in Seq(A) /\ <<>> \in Seq(B)
    OBVIOUS
  <2>. QED
    BY <2>1, FilterEmpty
<1>2. ASSUME NEW u \in Seq(A), NEW x \in A, u \in T PROVE Append(u, x) \in T
  <2>1. Append(u, x) \in Seq(A) /\ Filter(u, S) \in Seq(B)
    BY <1>2
  <2>2. CASE x \in S
    <3>1. x \in B /\ Filter(Append(u, x), S) = Append(Filter(u, S), x)
      BY <2>2, FilterAppend DEF B
    <3>2. Append(Filter(u, S), x) \in Seq(B)
      BY <2>1, <3>1, AppendProperties
    <3>. QED
      BY <2>1, <3>1, <3>2
  <2>3. CASE x \notin S
    BY <2>1, <2>3, FilterAppend
  <2>. QED
    BY <2>2, <2>3
<1>. HIDE DEF T
<1>3. s \in T
  BY <1>1, <1>2, SeqInductive
<1>. QED
  BY <1>3 DEF T, B

(* Filtering keeps the items of the set and no others.                     *)
LEMMA FilterItems ==
  ASSUME NEW A, NEW s \in Seq(A), NEW S
  PROVE  ItemsOf(Filter(s, S)) = ItemsOf(s) \cap S
<1>. DEFINE T == {u \in Seq(A) : ItemsOf(Filter(u, S)) = ItemsOf(u) \cap S}
<1>0. ASSUME NEW u \in Seq(A), NEW x \in A PROVE ItemsOf(Append(u, x)) = ItemsOf(u) \cup {x}
  <2>1. /\ Append(u, x) \in Seq(A) /\ Len(Append(u, x)) = Len(u) + 1 /\ Len(u) \in Nat
        /\ Append(u, x)[Len(u) + 1] = x /\ \A i \in 1 .. Len(u) : Append(u, x)[i] = u[i]
    OBVIOUS
  <2>2. DOMAIN Append(u, x) = 1 .. Len(u) + 1 /\ DOMAIN u = 1 .. Len(u)
    BY <2>1
  <2>3. 1 .. Len(u) + 1 = (1 .. Len(u)) \cup {Len(u) + 1}
    BY <2>1
  <2>. QED
    BY <2>1, <2>2, <2>3 DEF ItemsOf
<1>1. <<>> \in T
  BY FilterEmpty DEF ItemsOf
<1>2. ASSUME NEW u \in Seq(A), NEW x \in A, u \in T PROVE Append(u, x) \in T
  <2>1. ItemsOf(Append(u, x)) = ItemsOf(u) \cup {x} /\ ItemsOf(Filter(u, S)) = ItemsOf(u) \cap S
    BY <1>0, <1>2
  <2>2. Filter(u, S) \in Seq(A)
    <3>1. Filter(u, S) \in Seq(A \cap S)
      BY FilterType
    <3>. QED
      BY <3>1, SeqMonotonic
  <2>3. ItemsOf(Append(Filter(u, S), x)) = ItemsOf(Filter(u, S)) \cup {x}
    BY <1>0, <2>2
  <2>4. Append(u, x) \in Seq(A)
    OBVIOUS
  <2>5. ItemsOf(Filter(Append(u, x), S)) = ItemsOf(Append(u, x)) \cap S
    <3>1. CASE x \in S
      <4>1. Filter(Append(u, x), S) = Append(Filter(u, S), x)
        BY <3>1, FilterAppend
      <4>. QED
        BY <2>1, <2>3, <3>1, <4>1
    <3>2. CASE x \notin S
      BY <2>1, <3>2, FilterAppend
    <3>. QED
      BY <3>1, <3>2
  <2>. QED
    BY <2>4, <2>5
<1>3. s \in T
  <2>. HIDE DEF T
  <2>. QED
    BY <1>1, <1>2, SeqInductive
<1>. QED
  BY <1>3

(* Nothing is lost if all of s is in S. *)
LEMMA FilterAll ==
  ASSUME NEW S, NEW s \in Seq(S)
  PROVE  Filter(s, S) = s
<1>. DEFINE T == {u \in Seq(S) : Filter(u, S) = u}
<1>1. <<>> \in T
  BY FilterEmpty
<1>2. ASSUME NEW u \in Seq(S), NEW x \in S, u \in T PROVE Append(u, x) \in T
  BY <1>2, FilterAppend
<1>. HIDE DEF T
<1>3. s \in T
  BY <1>1, <1>2, SeqInductive
<1>. QED
  BY <1>3 DEF T

(* Nothing is kept if nothing of s is in S. *)
LEMMA FilterNone ==
  ASSUME NEW A, NEW S, A \cap S = {}, NEW s \in Seq(A)
  PROVE  Filter(s, S) = <<>>
<1>. DEFINE T == {u \in Seq(A) : Filter(u, S) = <<>>}
<1>1. <<>> \in T
  BY FilterEmpty
<1>2. ASSUME NEW u \in Seq(A), NEW x \in A, u \in T PROVE Append(u, x) \in T
  BY <1>2, FilterAppend
<1>. HIDE DEF T
<1>3. s \in T
  BY <1>1, <1>2, SeqInductive
<1>. QED
  BY <1>3 DEF T

(* Two sequences are filtered one after the other. *)
LEMMA FilterConcat ==
  ASSUME NEW A, NEW s \in Seq(A), NEW t \in Seq(A), NEW S
  PROVE  Filter(s \o t, S) = Filter(s, S) \o Filter(t, S)
<1>. DEFINE T == {u \in Seq(A) : Filter(s \o u, S) = Filter(s, S) \o Filter(u, S)}
<1>0. \A u \in Seq(A) : Filter(u, S) \in Seq(A)
  <2>1. \A u \in Seq(A) : Filter(u, S) \in Seq(A \cap S)
    BY FilterType
  <2>. QED
    BY <2>1, SeqMonotonic
<1>1. <<>> \in T
  <2>1. s \o <<>> = s /\ Filter(s, S) \o <<>> = Filter(s, S)
    BY <1>0, ConcatEmptySeq
  <2>2. Filter(s \o <<>>, S) = Filter(s, S) \o Filter(<<>>, S)
    BY <2>1, FilterEmpty
  <2>. QED
    BY <2>2
<1>2. ASSUME NEW u \in Seq(A), NEW x \in A, u \in T PROVE Append(u, x) \in T
  <2>1. s \o Append(u, x) = Append(s \o u, x) /\ s \o u \in Seq(A)
    OBVIOUS
  <2>2. Filter(s, S) \o Append(Filter(u, S), x) = Append(Filter(s, S) \o Filter(u, S), x)
    BY <1>0
  <2>3. Filter(s \o u, S) = Filter(s, S) \o Filter(u, S)
    BY <1>2
  <2>4. Filter(s \o Append(u, x), S) =
          IF x \in S THEN Append(Filter(s \o u, S), x) ELSE Filter(s \o u, S)
    BY <2>1, FilterAppend
  <2>5. Filter(Append(u, x), S) = IF x \in S THEN Append(Filter(u, S), x) ELSE Filter(u, S)
    BY FilterAppend
  <2>6. Filter(s \o Append(u, x), S) = Filter(s, S) \o Filter(Append(u, x), S)
    BY <2>2, <2>3, <2>4, <2>5
  <2>. QED
    BY <2>6
<1>. HIDE DEF T
<1>3. t \in T
  BY <1>1, <1>2, SeqInductive
<1>. QED
  BY <1>3 DEF T

Images(f, A) == {f[a] : a \in A}
Mapped(f, s) == [i \in DOMAIN s |-> f[s[i]]]

(* A mapped sequence is as long, of images.                                *)
LEMMA MappedType ==
  ASSUME NEW f, NEW A, NEW s \in Seq(A)
  PROVE  Mapped(f, s) \in Seq(Images(f, A)) /\ Len(Mapped(f, s)) = Len(s)
<1>1. s \in [1 .. Len(s) -> A] /\ Len(s) \in Nat
  OBVIOUS
<1>2. Mapped(f, s) = [i \in 1 .. Len(s) |-> f[s[i]]]
  BY <1>1 DEF Mapped
<1>3. Mapped(f, s) \in [1 .. Len(s) -> Images(f, A)]
  BY <1>1, <1>2 DEF Images
<1>. QED
  BY <1>1, <1>3

(* Mapping one more item.                                                  *)
LEMMA MappedAppend ==
  ASSUME NEW f, NEW A, NEW s \in Seq(A), NEW x \in A
  PROVE  Mapped(f, Append(s, x)) = Append(Mapped(f, s), f[x])
<1>. DEFINE m == Mapped(f, s)
            t == Append(s, x)
<1>1. /\ s \in [1 .. Len(s) -> A] /\ Len(s) \in Nat
      /\ t \in Seq(A) /\ Len(t) = Len(s) + 1 /\ t[Len(s) + 1] = x
      /\ \A i \in 1 .. Len(s) : t[i] = s[i]
  OBVIOUS
<1>2. m = [i \in 1 .. Len(s) |-> f[s[i]]]
  BY <1>1 DEF Mapped
<1>3. Mapped(f, t) = [i \in 1 .. Len(s) + 1 |-> f[t[i]]]
  BY <1>1 DEF Mapped
<1>4. Append(m, f[x]) = [i \in 1 .. Len(s) + 1 |-> IF i <= Len(s) THEN m[i] ELSE f[x]]
  <2>1. m \in Seq(Images(f, A)) /\ Len(m) = Len(s)
    BY MappedType
  <2>. HIDE DEF m
  <2>. QED
    BY <1>1, <2>1
<1>5. \A i \in 1 .. Len(s) + 1 : f[t[i]] = IF i <= Len(s) THEN m[i] ELSE f[x]
  BY <1>1, <1>2
<1>6. Mapped(f, t) = Append(m, f[x])
  <2>. HIDE DEF m, t
  <2>. QED
    BY <1>3, <1>4, <1>5
<1>. QED
  BY <1>6

(* What is kept of the images of the items are the images of the items     *)
(* whose image is kept.                                                    *)
LEMMA FilterMapped ==
  ASSUME NEW A, NEW s \in Seq(A), NEW f, NEW S
  PROVE  Filter(Mapped(f, s), S) = Mapped(f, Filter(s, {a \in A : f[a] \in S}))
<1>. DEFINE K == {a \in A : f[a] \in S}
            B == Images(f, A)
            T == {u \in Seq(A) : Filter(Mapped(f, u), S) = Mapped(f, Filter(u, K))}
<1>1. \A x \in A : (x \in K) <=> (f[x] \in S)
  OBVIOUS
<1>. HIDE DEF K, B, T
<1>2. ASSUME NEW u \in Seq(A), NEW x \in A, Filter(Mapped(f, u), S) = Mapped(f, Filter(u, K))
      PROVE  Filter(Mapped(f, Append(u, x)), S) = Mapped(f, Filter(Append(u, x), K))
  <2>1. /\ Mapped(f, u) \in Seq(B) /\ f[x] \in B
        /\ Mapped(f, Append(u, x)) = Append(Mapped(f, u), f[x])
    <3>1. Mapped(f, u) \in Seq(B) /\ f[x] \in B
      BY MappedType DEF B, Images
    <3>. QED
      BY <3>1, MappedAppend
  <2>2. Filter(Append(Mapped(f, u), f[x]), S) =
          IF f[x] \in S THEN Append(Filter(Mapped(f, u), S), f[x]) ELSE Filter(Mapped(f, u), S)
    BY <2>1, FilterAppend
  <2>3. Filter(Append(u, x), K) = IF x \in K THEN Append(Filter(u, K), x) ELSE Filter(u, K)
    BY FilterAppend
  <2>4. Filter(u, K) \in Seq(A)
    <3>1. Filter(u, K) \in Seq(A \cap K)
      BY FilterType
    <3>. QED
      BY <3>1, SeqMonotonic
  <2>5. Mapped(f, Append(Filter(u, K), x)) = Append(Mapped(f, Filter(u, K)), f[x])
    BY <2>4, MappedAppend
  <2>. QED
    BY <1>1, <1>2, <2>1, <2>2, <2>3, <2>5
<1>3. <<>> \in T
  <2>1. Mapped(f, <<>>) = <<>>
    BY DEF Mapped
  <2>. QED
    BY <2>1, FilterEmpty DEF T
<1>4. ASSUME NEW u \in Seq(A), NEW x \in A, u \in T PROVE Append(u, x) \in T
  BY <1>2, <1>4, AppendProperties DEF T
<1>5. s \in T
  BY <1>3, <1>4, SeqInductive
<1>. QED
  BY <1>5 DEF T, K

(* A list of no or of one sequence is flat. *)
LEMMA FlattenOne == FlattenSeq(<<>>) = <<>> /\ \A q : FlattenSeq(<<q>>) = q
<1>1. FlattenSeq(<<>>) = <<>>
  BY DEF FlattenSeq
<1>2. ASSUME NEW q PROVE FlattenSeq(<<q>>) = q
  <2>. DEFINE one == <<q>>
              flat(f) == f = [i \in 1 .. Len(one) |-> IF i = 1 THEN one[i] ELSE f[i - 1] \o one[i]]
              g == CHOOSE f : flat(f)
  <2>1. Len(one) = 1 /\ one[1] = q
    OBVIOUS
  <2>2. flat([i \in 1 .. 1 |-> q])
    BY <2>1
  <2>3. flat(g)
    BY <2>2
  <2>4. g[1] = q
    BY <2>1, <2>3
  <2>5. FlattenSeq(one) = g[Len(one)]
    BY <2>1 DEF FlattenSeq
  <2>. QED
    BY <2>1, <2>4, <2>5
<1>. QED
  BY <1>1, <1>2


-----------------------------------------------------------------------------
(***************************************************************************)
(* Folds.  A fold over n items goes through n steps, step[k] being the     *)
(* k-th as a function on a set that holds all intermediate results: a      *)
(* lemma about functions can be instantiated, one about operators not.     *)
(***************************************************************************)
FoldsTo(f, n, base, step) == f[0] = base /\ \A k \in 1 .. n : f[k] = step[k][f[k - 1]]

(* The fold of the community modules takes away the greatest index first. *)
TakesGreatest(it, n, base, step) ==
  it = [S \in SUBSET (1 .. n) |-> IF S = {} THEN base ELSE step[Max(S)][it[S \ {Max(S)}]]]

(* The greatest of some numbers is their Max.                              *)
LEMMA GreatestIsMax ==
  ASSUME NEW S, NEW m \in S, S \subseteq Int, \A x \in S : m >= x
  PROVE  Max(S) = m
<1>1. Max(S) \in S /\ \A x \in S : Max(S) >= x
  BY DEF Max
<1>2. Max(S) \in Int /\ m \in Int
  BY <1>1
<1>3. Max(S) >= m /\ m >= Max(S)
  BY <1>1
<1>. HIDE DEF Max
<1>. QED
  BY <1>2, <1>3

(* There is a function that takes the greatest number of a set first.      *)
LEMMA TakingExists ==
  ASSUME NEW X, NEW base \in X, NEW n \in Nat, NEW step \in [1 .. n -> [X -> X]]
  PROVE  \E it \in [SUBSET (1 .. n) -> X] : TakesGreatest(it, n, base, step)
<1>. DEFINE Solved(k) == \E it \in [SUBSET (1 .. k) -> X] : TakesGreatest(it, k, base, step)
            T == {k \in Nat : k <= n => Solved(k)}
<1>1. 0 \in T
  <2>1. SUBSET (1 .. 0) = {{}}
    OBVIOUS
  <2>. DEFINE it == [S \in SUBSET (1 .. 0) |-> base]
  <2>2. it \in [SUBSET (1 .. 0) -> X] /\ TakesGreatest(it, 0, base, step)
    BY <2>1 DEF TakesGreatest
  <2>. HIDE DEF it
  <2>. QED
    BY <2>2
<1>2. ASSUME NEW k \in Nat, k \in T PROVE k + 1 \in T
  <2>. SUFFICES ASSUME k + 1 <= n
                PROVE  Solved(k + 1)
    <3>. HIDE DEF Solved
    <3>. QED
      OBVIOUS
  <2>0. Solved(k)
    <3>. HIDE DEF Solved
    <3>. QED
      BY <1>2
  <2>1. PICK f \in [SUBSET (1 .. k) -> X] : TakesGreatest(f, k, base, step)
    BY <2>0
  <2>. DEFINE g == [S \in SUBSET (1 .. k + 1) |->
                     IF S \subseteq 1 .. k THEN f[S] ELSE step[k + 1][f[S \ {k + 1}]]]
  <2>2. step[k + 1] \in [X -> X]
    OBVIOUS
  <2>3. \A S \in SUBSET (1 .. k + 1) : S \subseteq 1 .. k \/ (k + 1 \in S /\ S \ {k + 1} \in SUBSET (1 .. k))
    OBVIOUS
  <2>4. g \in [SUBSET (1 .. k + 1) -> X]
    BY <2>2, <2>3
  <2>5. \A S \in SUBSET (1 .. k) : g[S] = f[S]
    OBVIOUS
  <2>6. ASSUME NEW S \in SUBSET (1 .. k + 1)
        PROVE  g[S] = IF S = {} THEN base ELSE step[Max(S)][g[S \ {Max(S)}]]
    <3>1. CASE S \subseteq 1 .. k
      <4>1. f[S] = IF S = {} THEN base ELSE step[Max(S)][f[S \ {Max(S)}]]
        BY <2>1, <3>1 DEF TakesGreatest
      <4>2. S \ {Max(S)} \in SUBSET (1 .. k)
        BY <3>1
      <4>. HIDE DEF g
      <4>. QED
        BY <2>5, <3>1, <4>1, <4>2
    <3>2. CASE ~(S \subseteq 1 .. k)
      <4>1. k + 1 \in S /\ S \ {k + 1} \in SUBSET (1 .. k) /\ S # {}
        BY <2>3, <3>2
      <4>2. Max(S) = k + 1
        <5>1. S \subseteq Int /\ \A x \in S : k + 1 >= x
          OBVIOUS
        <5>. QED
          BY <4>1, <5>1, GreatestIsMax
      <4>3. g[S] = step[k + 1][f[S \ {k + 1}]]
        BY <3>2
      <4>4. g[S \ {k + 1}] = f[S \ {k + 1}]
        BY <2>5, <4>1
      <4>. HIDE DEF g
      <4>. QED
        BY <4>1, <4>2, <4>3, <4>4
    <3>. QED
      BY <3>1, <3>2
  <2>7. TakesGreatest(g, k + 1, base, step)
    <3>1. g = [S \in SUBSET (1 .. k + 1) |-> g[S]]
      BY <2>4
    <3>. HIDE DEF g
    <3>. QED
      BY <2>6, <3>1 DEF TakesGreatest
  <2>. QED
    BY <2>4, <2>7
<1>3. n \in T
  <2>. HIDE DEF T
  <2>. QED
    BY <1>1, <1>2, NatInductive
<1>4. Solved(n)
  <2>. HIDE DEF Solved
  <2>. QED
    BY <1>3
<1>. QED
  BY <1>4

(* Whatever takes away the greatest index first goes through the steps in order. *)
TakesSteps(it, n, X, base, step) ==
  /\ it[{}] = base
  /\ \A S \in SUBSET (1 .. n) :
       S # {} /\ it[S \ {Max(S)}] \in X => it[S] = step[Max(S)][it[S \ {Max(S)}]]

(* Taken from all of 1 .. n it is a fold over their order.                 *)
LEMMA TakingFolds ==
  ASSUME NEW X, NEW base \in X, NEW n \in Nat, NEW step \in [1 .. n -> [X -> X]], NEW it,
         TakesSteps(it, n, X, base, step)
  PROVE  \E f \in [0 .. n -> X] : FoldsTo(f, n, base, step) /\ it[1 .. n] = f[n]
<1>. DEFINE f == [k \in 0 .. n |-> it[1 .. k]]
            T == {k \in Nat : k <= n => f[k] \in X /\ (k > 0 => f[k] = step[k][f[k - 1]])}
<1>1. f[0] = base
  <2>1. 1 .. 0 = {}
    OBVIOUS
  <2>. QED
    BY <2>1 DEF TakesSteps
<1>2. ASSUME NEW k \in Nat, k \in T PROVE k + 1 \in T
  <2>. SUFFICES ASSUME k + 1 <= n PROVE f[k + 1] \in X /\ f[k + 1] = step[k + 1][f[k]]
    OBVIOUS
  <2>1. /\ 1 .. k + 1 \in SUBSET (1 .. n) /\ (1 .. k + 1) # {} /\ k + 1 \in 1 .. k + 1
        /\ (1 .. k + 1) \ {k + 1} = 1 .. k /\ 1 .. k + 1 \subseteq Int
        /\ \A x \in 1 .. k + 1 : k + 1 >= x
    <3>1. 1 .. k + 1 \in SUBSET (1 .. n) /\ k + 1 \in 1 .. k + 1 /\ 1 .. k + 1 \subseteq Int
      OBVIOUS
    <3>2. (1 .. k + 1) \ {k + 1} = 1 .. k
      OBVIOUS
    <3>3. \A x \in 1 .. k + 1 : k + 1 >= x
      OBVIOUS
    <3>. QED
      BY <3>1, <3>2, <3>3
  <2>2. Max(1 .. k + 1) = k + 1
    BY <2>1, GreatestIsMax
  <2>3. it[1 .. k] \in X /\ f[k] = it[1 .. k] /\ f[k + 1] = it[1 .. k + 1]
    BY <1>2
  <2>4. it[1 .. k + 1] = step[k + 1][it[1 .. k]]
    BY <2>1, <2>2, <2>3 DEF TakesSteps
  <2>5. step[k + 1] \in [X -> X]
    OBVIOUS
  <2>. QED
    BY <2>3, <2>4, <2>5
<1>3. 0 \in T
  BY <1>1
<1>. HIDE DEF f
<1>4. \A k \in Nat : k \in T
  <2>. HIDE DEF T
  <2>. QED
    BY <1>2, <1>3, NatInductive
<1>5. \A k \in 0 .. n : f[k] \in X
  BY <1>4
<1>6. FoldsTo(f, n, base, step)
  BY <1>1, <1>4 DEF FoldsTo
<1>7. f \in [0 .. n -> X] /\ it[1 .. n] = f[n]
  BY <1>5 DEF f
<1>. QED
  BY <1>6, <1>7


(* Such steps can be taken, and there is one way to take them. *)
LEMMA StepsExist ==
  ASSUME NEW X, NEW base \in X, NEW n \in Nat, NEW step \in [1 .. n -> [X -> X]]
  PROVE  \E f \in [0 .. n -> X] : FoldsTo(f, n, base, step)
<1>1. PICK it \in [SUBSET (1 .. n) -> X] : TakesGreatest(it, n, base, step)
  BY TakingExists
<1>2. it[{}] = base /\ \A S \in SUBSET (1 .. n) : S # {} => it[S] = step[Max(S)][it[S \ {Max(S)}]]
  BY <1>1 DEF TakesGreatest
<1>3. TakesSteps(it, n, X, base, step)
  BY <1>2 DEF TakesSteps
<1>. QED
  BY <1>3, TakingFolds

(* Two functions that take the same steps agree.                           *)
Stepping(X, n, base, step) == base \in X /\ n \in Nat /\ step \in [1 .. n -> [X -> X]]
StepsIn(f, X, n, base, step) == f \in [0 .. n -> X] /\ FoldsTo(f, n, base, step)
StepsWith(g, X, n, base, step) ==
  g[0] = base /\ \A k \in 1 .. n : g[k - 1] \in X => g[k] = step[k][g[k - 1]]
AgreeOn(f, g, S) == \A k \in S : g[k] = f[k]

LEMMA StepsAgree ==
  ASSUME NEW X, NEW n, NEW base, NEW step, Stepping(X, n, base, step),
         NEW f, StepsIn(f, X, n, base, step), NEW g, StepsWith(g, X, n, base, step)
  PROVE  AgreeOn(f, g, 0 .. n)
<1>0. /\ base \in X /\ n \in Nat /\ step \in [1 .. n -> [X -> X]]
      /\ f \in [0 .. n -> X] /\ FoldsTo(f, n, base, step)
      /\ g[0] = base /\ \A k \in 1 .. n : g[k - 1] \in X => g[k] = step[k][g[k - 1]]
  BY DEF Stepping, StepsIn, StepsWith
<1>. DEFINE T == {k \in Nat : k <= n => g[k] = f[k]}
<1>1. 0 \in T
  BY <1>0 DEF FoldsTo
<1>2. ASSUME NEW k \in Nat, k \in T PROVE k + 1 \in T
  <2>. SUFFICES ASSUME k + 1 <= n PROVE g[k + 1] = f[k + 1]
    OBVIOUS
  <2>1. k + 1 \in 1 .. n /\ (k + 1) - 1 = k /\ k \in 0 .. n /\ k <= n
    BY <1>0
  <2>2. g[k] = f[k] /\ f[k] \in X
    BY <1>0, <1>2, <2>1
  <2>3. f[k + 1] = step[k + 1][f[k]]
    BY <1>0, <2>1 DEF FoldsTo
  <2>4. g[k + 1] = step[k + 1][g[k]]
    BY <1>0, <2>1, <2>2
  <2>. QED
    BY <2>2, <2>3, <2>4
<1>3. \A k \in Nat : k \in T
  <2>. HIDE DEF T
  <2>. QED
    BY <1>1, <1>2, NatInductive
<1>. QED
  BY <1>0, <1>3 DEF AgreeOn

(* Steps over the positions 2 .. n from what the first one has. *)
StepsBehind(f, n, base, step) == f[1] = base /\ \A t \in 2 .. n : f[t] = step[t][f[t - 1]]

(* Steps from the first position on can be taken.                          *)
LEMMA StepsBehindExist ==
  ASSUME NEW X, NEW base \in X, NEW n \in Nat \ {0}, NEW step \in [2 .. n -> [X -> X]]
  PROVE  \E f \in [1 .. n -> X] : StepsBehind(f, n, base, step)
<1>. DEFINE m == n - 1
            ahead == [k \in 1 .. m |-> step[k + 1]]
<1>1. m \in Nat /\ \A k \in 1 .. m : k + 1 \in 2 .. n
  OBVIOUS
<1>2. ahead \in [1 .. m -> [X -> X]]
  BY <1>1
<1>3. PICK f \in [0 .. m -> X] : FoldsTo(f, m, base, ahead)
  <2>. HIDE DEF ahead, m
  <2>. QED
    BY <1>1, <1>2, StepsExist
<1>. DEFINE g == [t \in 1 .. n |-> f[t - 1]]
<1>4. \A t \in 1 .. n : t - 1 \in 0 .. m
  OBVIOUS
<1>5. g \in [1 .. n -> X]
  BY <1>4
<1>6. g[1] = base
  BY <1>3 DEF FoldsTo
<1>7. ASSUME NEW t \in 2 .. n PROVE g[t] = step[t][g[t - 1]]
  <2>1. t - 1 \in 1 .. m /\ (t - 1) + 1 = t /\ t \in 1 .. n /\ t - 1 \in 1 .. n
    OBVIOUS
  <2>2. f[t - 1] = ahead[t - 1][f[(t - 1) - 1]]
    BY <1>3, <2>1 DEF FoldsTo
  <2>3. ahead[t - 1] = step[t]
    BY <2>1
  <2>. QED
    BY <2>1, <2>2, <2>3
<1>8. StepsBehind(g, n, base, step)
  BY <1>6, <1>7 DEF StepsBehind
<1>. QED
  BY <1>5, <1>8

(* Two functions that take the same steps behind the first agree.          *)
SteppingBehind(X, n, base, step) ==
  base \in X /\ n \in Nat \ {0} /\ step \in [2 .. n -> [X -> X]]
StepsBehindIn(f, X, n, base, step) == f \in [1 .. n -> X] /\ StepsBehind(f, n, base, step)
StepsBehindWith(g, X, n, base, step) ==
  g[1] = base /\ \A t \in 2 .. n : g[t - 1] \in X => g[t] = step[t][g[t - 1]]

(* There is one way to take steps from the first position on.              *)
LEMMA StepsBehindAgree ==
  ASSUME NEW X, NEW n, NEW base, NEW step, SteppingBehind(X, n, base, step),
         NEW f, StepsBehindIn(f, X, n, base, step), NEW g, StepsBehindWith(g, X, n, base, step)
  PROVE  AgreeOn(f, g, 1 .. n)
<1>0. /\ base \in X /\ n \in Nat \ {0} /\ step \in [2 .. n -> [X -> X]]
      /\ f \in [1 .. n -> X] /\ StepsBehind(f, n, base, step)
      /\ g[1] = base /\ \A t \in 2 .. n : g[t - 1] \in X => g[t] = step[t][g[t - 1]]
  BY DEF SteppingBehind, StepsBehindIn, StepsBehindWith
<1>. DEFINE T == {t \in Nat : t + 1 <= n => g[t + 1] = f[t + 1]}
<1>1. 0 \in T
  BY <1>0 DEF StepsBehind
<1>2. ASSUME NEW t \in Nat, t \in T PROVE t + 1 \in T
  <2>. SUFFICES ASSUME (t + 1) + 1 <= n PROVE g[(t + 1) + 1] = f[(t + 1) + 1]
    OBVIOUS
  <2>1. (t + 1) + 1 \in 2 .. n /\ ((t + 1) + 1) - 1 = t + 1 /\ t + 1 \in 1 .. n /\ t + 1 <= n
    BY <1>0
  <2>2. g[t + 1] = f[t + 1] /\ f[t + 1] \in X
    BY <1>0, <1>2, <2>1
  <2>3. f[(t + 1) + 1] = step[(t + 1) + 1][f[t + 1]]
    BY <1>0, <2>1 DEF StepsBehind
  <2>4. g[(t + 1) + 1] = step[(t + 1) + 1][g[t + 1]]
    BY <1>0, <2>1, <2>2
  <2>. QED
    BY <2>2, <2>3, <2>4
<1>3. \A t \in Nat : t \in T
  <2>. HIDE DEF T
  <2>. QED
    BY <1>1, <1>2, NatInductive
<1>4. ASSUME NEW t \in 1 .. n PROVE g[t] = f[t]
  <2>1. t - 1 \in Nat /\ (t - 1) + 1 = t /\ t <= n
    BY <1>0
  <2>2. t - 1 \in T
    BY <1>3, <2>1
  <2>. QED
    BY <2>1, <2>2
<1>. QED
  BY <1>4 DEF AgreeOn

-----------------------------------------------------------------------------
(* The items of q one after the other, those of each front of q. *)
FlatFronts(f, q) == f[0] = <<>> /\ \A k \in 1 .. Len(q) : f[k] = f[k - 1] \o q[k]

(* FlattenSeq concatenates one sequence after the other.                   *)
LEMMA FlattenFronts ==
  ASSUME NEW A, NEW q \in Seq(Seq(A))
  PROVE  \E f \in [0 .. Len(q) -> Seq(A)] : FlatFronts(f, q) /\ FlattenSeq(q) = f[Len(q)]
<1>. DEFINE n == Len(q)
            X == Seq(A)
            step == [k \in 1 .. n |-> [x \in X |-> x \o q[k]]]
            flat(h) == h = [i \in 1 .. n |-> IF i = 1 THEN q[i] ELSE h[i - 1] \o q[i]]
            g == CHOOSE h : flat(h)
<1>1. n \in Nat /\ <<>> \in X /\ \A k \in 1 .. n : q[k] \in X
  OBVIOUS
<1>2. step \in [1 .. n -> [X -> X]]
  <2>1. ASSUME NEW k \in 1 .. n, NEW x \in X PROVE x \o q[k] \in X
    BY <1>1
  <2>. QED
    BY <2>1
<1>3. PICK f \in [0 .. n -> X] : FoldsTo(f, n, <<>>, step)
  <2>. HIDE DEF n, X, step
  <2>. QED
    BY <1>1, <1>2, StepsExist
<1>4. \A k \in 1 .. n : f[k] = f[k - 1] \o q[k]
  <2>. TAKE k \in 1 .. n
  <2>1. k - 1 \in 0 .. n
    BY <1>1
  <2>2. f[k - 1] \in X
    <3>. HIDE DEF X
    <3>. QED
      BY <2>1
  <2>3. f[k] = step[k][f[k - 1]]
    <3>. HIDE DEF X, step
    <3>. QED
      BY <1>3 DEF FoldsTo
  <2>. HIDE DEF X
  <2>. QED
    BY <2>2, <2>3
<1>5. f[0] = <<>>
  BY <1>3 DEF FoldsTo
<1>6. CASE n = 0
  <2>1. FlattenSeq(q) = q /\ q = <<>>
    BY <1>6 DEF FlattenSeq
  <2>. QED
    BY <1>3, <1>4, <1>5, <1>6, <2>1 DEF FlatFronts
<1>7. CASE n # 0
  <2>. DEFINE h == [i \in 1 .. n |-> f[i]]
  <2>1. f[1] = q[1]
    <3>1. 1 \in 1 .. n
      BY <1>1, <1>7
    <3>2. f[1] = <<>> \o q[1] /\ q[1] \in Seq(A)
      <4>1. ASSUME NEW k \in 1 .. n, k = 1 PROVE f[k] = f[0] \o q[k]
        <5>1. k - 1 = 0
          BY <4>1
        <5>2. f[k] = f[k - 1] \o q[k]
          BY <1>4
        <5>. QED
          BY <5>1, <5>2
      <4>. HIDE DEF n
      <4>. QED
        BY <1>1, <1>5, <3>1, <4>1
    <3>. QED
      BY <3>2, ConcatEmptySeq
  <2>2. flat(h)
    <3>1. ASSUME NEW i \in 1 .. n PROVE h[i] = IF i = 1 THEN q[i] ELSE h[i - 1] \o q[i]
      <4>1. h[i] = f[i]
        OBVIOUS
      <4>2. CASE i = 1
        BY <2>1, <4>1, <4>2
      <4>3. CASE i # 1
        <5>1. i - 1 \in 1 .. n
          BY <1>1, <4>3
        <5>2. h[i - 1] = f[i - 1]
          BY <5>1
        <5>. HIDE DEF h
        <5>. QED
          BY <1>4, <4>1, <4>3, <5>2
      <4>. QED
        BY <4>2, <4>3
    <3>. HIDE DEF X
    <3>. QED
      BY <3>1
  <2>3. flat(g)
    <3>. HIDE DEF flat, h
    <3>. QED
      BY <2>2
  <2>4. FlattenSeq(q) = g[n]
    BY <1>7 DEF FlattenSeq
  <2>5. \A i \in 1 .. n : g[i] = IF i = 1 THEN q[i] ELSE g[i - 1] \o q[i]
    <3>. HIDE DEF g, X, step
    <3>. QED
      BY <2>3
  <2>. DEFINE T == {k \in Nat : k \in 1 .. n => g[k] = f[k]}
  <2>. HIDE DEF g, step, h
  <2>6. 0 \in T
    OBVIOUS
  <2>7. ASSUME NEW k \in Nat, k \in T PROVE k + 1 \in T
    <3>1. CASE k = 0
      BY <2>1, <2>5, <3>1
    <3>2. CASE k # 0 /\ k + 1 <= n
      <4>1. k + 1 \in 1 .. n /\ k \in 1 .. n /\ (k + 1) - 1 = k /\ k + 1 # 1
        BY <3>2
      <4>2. g[k + 1] = g[k] \o q[k + 1] /\ f[k + 1] = f[k] \o q[k + 1]
        BY <1>4, <2>5, <4>1
      <4>3. g[k] = f[k]
        BY <2>7, <4>1
      <4>4. g[k + 1] = f[k + 1]
        BY <4>2, <4>3
      <4>. QED
        BY <4>4
    <3>3. CASE k + 1 > n
      BY <1>1, <3>3
    <3>. QED
      BY <1>1, <3>1, <3>2, <3>3
  <2>8. n \in T
    <3>. HIDE DEF T, n
    <3>. QED
      BY <1>1, <2>6, <2>7, NatInductive
  <2>9. FlattenSeq(q) = f[n]
    BY <1>1, <1>7, <2>4, <2>8
  <2>. QED
    BY <1>3, <1>4, <1>5, <2>9 DEF FlatFronts
<1>. QED
  BY <1>6, <1>7

(* The item x of q[i] is in place at[i] + x of flat, and flat has no other *)
(* items: so far for the first k.                                          *)
InPlace(flat, q, at, k) ==
  /\ \A i \in 1 .. k : \A x \in 1 .. Len(q[i]) :
       at[i] + x \in 1 .. Len(flat) /\ flat[at[i] + x] = q[i][x]
  /\ \A p \in 1 .. Len(flat) : \E i \in 1 .. k : \E x \in 1 .. Len(q[i]) : p = at[i] + x

(* Where the items of each sequence are in the flat one.                   *)
LEMMA FlattenPlaces ==
  ASSUME NEW A, NEW q \in Seq(Seq(A))
  PROVE  /\ FlattenSeq(q) \in Seq(A)
         /\ \E at \in [1 .. Len(q) -> Nat] : InPlace(FlattenSeq(q), q, at, Len(q))
<1>. DEFINE n == Len(q)
<1>1. PICK f \in [0 .. n -> Seq(A)] : FlatFronts(f, q) /\ FlattenSeq(q) = f[n]
  BY FlattenFronts
<1>2. n \in Nat /\ \A i \in 1 .. n : q[i] \in Seq(A) /\ Len(q[i]) \in Nat
  OBVIOUS
<1>. DEFINE at == [i \in 1 .. n |-> Len(f[i - 1])]
<1>3. at \in [1 .. n -> Nat]
  BY <1>1, <1>2
<1>. DEFINE T == {k \in Nat : k <= n => InPlace(f[k], q, at, k)}
<1>4. 0 \in T
  BY <1>1 DEF FlatFronts, InPlace
<1>5. ASSUME NEW k \in Nat, k \in T PROVE k + 1 \in T
  <2>. SUFFICES ASSUME k + 1 <= n PROVE InPlace(f[k + 1], q, at, k + 1)
    OBVIOUS
  <2>. DEFINE s == f[k]
              t == q[k + 1]
  <2>1. InPlace(s, q, at, k) /\ k + 1 \in 1 .. n /\ k \in 0 .. n
    BY <1>5
  <2>2. s \in Seq(A) /\ t \in Seq(A) /\ f[k + 1] = s \o t /\ at[k + 1] = Len(s)
    <3>1. s \in Seq(A) /\ t \in Seq(A)
      BY <1>1, <1>2, <2>1
    <3>2. (k + 1) - 1 = k
      OBVIOUS
    <3>3. f[k + 1] = s \o t
      BY <1>1, <2>1, <3>2 DEF FlatFronts
    <3>4. at[k + 1] = Len(s)
      BY <2>1, <3>2
    <3>. QED
      BY <3>1, <3>3, <3>4
  <2>. HIDE DEF s, t, at
  <2>3. /\ Len(s \o t) = Len(s) + Len(t) /\ Len(s) \in Nat /\ Len(t) \in Nat
        /\ \A i \in 1 .. Len(s) : (s \o t)[i] = s[i]
        /\ \A i \in 1 .. Len(t) : (s \o t)[Len(s) + i] = t[i]
    <3>1. s \in Seq(A) /\ t \in Seq(A)
      BY <2>2
    <3>2. Len(s \o t) = Len(s) + Len(t) /\ Len(s) \in Nat /\ Len(t) \in Nat
      BY <3>1, ConcatProperties, LenProperties
    <3>3. \A i \in 1 .. Len(s) + Len(t) : (s \o t)[i] = IF i <= Len(s) THEN s[i] ELSE t[i - Len(s)]
      BY <3>1, ConcatProperties
    <3>4. ASSUME NEW i \in 1 .. Len(t) PROVE (s \o t)[Len(s) + i] = t[i]
      <4>1. Len(s) + i \in 1 .. Len(s) + Len(t) /\ ~(Len(s) + i <= Len(s)) /\ (Len(s) + i) - Len(s) = i
        BY <3>2
      <4>. QED
        BY <3>3, <4>1
    <3>. QED
      BY <3>2, <3>3, <3>4
  <2>4. ASSUME NEW i \in 1 .. k + 1, NEW x \in 1 .. Len(q[i])
        PROVE  at[i] + x \in 1 .. Len(s \o t) /\ (s \o t)[at[i] + x] = q[i][x]
    <3>1. CASE i = k + 1
      <4>1. x \in 1 .. Len(t) /\ q[i] = t
        BY <3>1 DEF t
      <4>2. at[i] + x = Len(s) + x
        BY <2>2, <3>1
      <4>3. Len(s) + x \in 1 .. Len(s \o t)
        BY <2>3, <4>1
      <4>4. (s \o t)[Len(s) + x] = t[x]
        BY <2>3, <4>1
      <4>. QED
        BY <4>1, <4>2, <4>3, <4>4
    <3>2. CASE i # k + 1
      <4>1. i \in 1 .. k
        BY <3>2
      <4>2. at[i] + x \in 1 .. Len(s) /\ s[at[i] + x] = q[i][x]
        BY <2>1, <4>1 DEF InPlace
      <4>. QED
        BY <2>3, <4>2
    <3>. QED
      BY <3>1, <3>2
  <2>5. ASSUME NEW p \in 1 .. Len(s \o t)
        PROVE  \E i \in 1 .. k + 1 : \E x \in 1 .. Len(q[i]) : p = at[i] + x
    <3>1. CASE p <= Len(s)
      <4>1. p \in 1 .. Len(s)
        BY <2>3, <3>1
      <4>2. PICK i \in 1 .. k : \E x \in 1 .. Len(q[i]) : p = at[i] + x
        BY <2>1, <4>1 DEF InPlace
      <4>3. i \in 1 .. k + 1
        OBVIOUS
      <4>. QED
        BY <4>2, <4>3
    <3>2. CASE p > Len(s)
      <4>1. p - Len(s) \in 1 .. Len(t) /\ p = Len(s) + (p - Len(s))
        BY <2>3, <3>2
      <4>2. k + 1 \in 1 .. k + 1 /\ q[k + 1] = t
        BY DEF t
      <4>. QED
        BY <2>2, <4>1, <4>2
    <3>. QED
      BY <2>3, <3>1, <3>2
  <2>. QED
    BY <2>2, <2>4, <2>5 DEF InPlace
<1>6. n \in T
  <2>. HIDE DEF T, n, at
  <2>. QED
    BY <1>2, <1>4, <1>5, NatInductive
<1>7. InPlace(f[n], q, at, n)
  BY <1>2, <1>6
<1>8. f[n] \in Seq(A)
  BY <1>1, <1>2
<1>. HIDE DEF n, at
<1>. QED
  BY <1>1, <1>3, <1>7, <1>8 DEF n

(***************************************************************************)
(* Items that differ, and the least and the greatest of some numbers.      *)
(***************************************************************************)
LEMMA FilterDistinct ==
  ASSUME NEW A, NEW s \in Seq(A), NEW S, IsInjective(s)
  PROVE  IsInjective(Filter(s, S))
<1>. DEFINE T == {u \in Seq(A) : IsInjective(u) => IsInjective(Filter(u, S))}
<1>1. <<>> \in T
  BY FilterEmpty DEF IsInjective
<1>2. ASSUME NEW u \in Seq(A), NEW x \in A, u \in T PROVE Append(u, x) \in T
  <2>1. Append(u, x) \in Seq(A)
    OBVIOUS
  <2>2. SUFFICES ASSUME IsInjective(Append(u, x)) PROVE IsInjective(Filter(Append(u, x), S))
    BY <2>1
  <2>3. /\ Len(Append(u, x)) = Len(u) + 1 /\ Len(u) \in Nat /\ DOMAIN u = 1 .. Len(u)
        /\ Append(u, x)[Len(u) + 1] = x /\ \A i \in 1 .. Len(u) : Append(u, x)[i] = u[i]
        /\ DOMAIN Append(u, x) = 1 .. Len(u) + 1
    OBVIOUS
  <2>4. \A i, j \in 1 .. Len(u) + 1 : Append(u, x)[i] = Append(u, x)[j] => i = j
    BY <2>2, <2>3 DEF IsInjective
  <2>5. IsInjective(u) /\ x \notin ItemsOf(u)
    <3>1. \A i, j \in 1 .. Len(u) : u[i] = u[j] => i = j
      BY <2>3, <2>4
    <3>2. ASSUME NEW i \in 1 .. Len(u), u[i] = x PROVE FALSE
      <4>1. i \in 1 .. Len(u) + 1 /\ Len(u) + 1 \in 1 .. Len(u) + 1 /\ i # Len(u) + 1
        BY <2>3
      <4>. QED
        BY <2>3, <2>4, <3>2, <4>1
    <3>. QED
      BY <2>3, <3>1, <3>2 DEF IsInjective, ItemsOf
  <2>. DEFINE v == Filter(u, S)
  <2>6. v \in Seq(A) /\ ItemsOf(v) \subseteq ItemsOf(u)
    <3>1. v \in Seq(A \cap S)
      BY FilterType
    <3>2. v \in Seq(A)
      BY <3>1, SeqMonotonic
    <3>. QED
      BY <3>2, FilterItems
  <2>7. IsInjective(v)
    BY <1>2, <2>5
  <2>8. Filter(Append(u, x), S) = IF x \in S THEN Append(v, x) ELSE v
    BY FilterAppend
  <2>. HIDE DEF v
  <2>9. IsInjective(Append(v, x))
    <3>1. /\ Len(Append(v, x)) = Len(v) + 1 /\ Len(v) \in Nat /\ DOMAIN v = 1 .. Len(v)
          /\ Append(v, x)[Len(v) + 1] = x /\ \A i \in 1 .. Len(v) : Append(v, x)[i] = v[i]
          /\ DOMAIN Append(v, x) = 1 .. Len(v) + 1
      BY <2>6
    <3>2. \A i \in 1 .. Len(v) : v[i] # x
      BY <2>5, <2>6, <3>1 DEF ItemsOf
    <3>3. \A i, j \in 1 .. Len(v) : v[i] = v[j] => i = j
      BY <2>7, <3>1 DEF IsInjective
    <3>4. \A i \in 1 .. Len(v) + 1 : i \in 1 .. Len(v) \/ i = Len(v) + 1
      BY <3>1
    <3>5. \A i, j \in 1 .. Len(v) + 1 : Append(v, x)[i] = Append(v, x)[j] => i = j
      BY <3>1, <3>2, <3>3, <3>4
    <3>. QED
      BY <3>1, <3>5 DEF IsInjective
  <2>. QED
    BY <2>7, <2>8, <2>9
<1>3. s \in T
  <2>. HIDE DEF T
  <2>. QED
    BY <1>1, <1>2, SeqInductive
<1>. QED
  BY <1>3

(* Filtering the numbers up to n gives those of the set, once each.        *)
LEMMA Firsts ==
  ASSUME NEW n \in Nat, NEW F \in SUBSET (1 .. n)
  PROVE  LET firsts == Filter([x \in 1 .. n |-> x], F)
         IN  firsts \in Seq(F) /\ ItemsOf(firsts) = F /\ IsInjective(firsts)
<1>. DEFINE id == [x \in 1 .. n |-> x]
            firsts == Filter(id, F)
<1>1. id \in Seq(1 .. n) /\ Len(id) = n /\ DOMAIN id = 1 .. n
  OBVIOUS
<1>2. firsts \in Seq((1 .. n) \cap F)
  BY <1>1, FilterType
<1>3. ItemsOf(firsts) = ItemsOf(id) \cap F
  BY <1>1, FilterItems
<1>4. ItemsOf(id) = 1 .. n /\ IsInjective(id)
  BY DEF ItemsOf, IsInjective
<1>5. IsInjective(firsts)
  BY <1>1, <1>4, FilterDistinct
<1>6. (1 .. n) \cap F = F
  OBVIOUS
<1>. QED
  BY <1>2, <1>3, <1>4, <1>5, <1>6

(* Sequences without repetition and without a common item, concatenated.   *)
LEMMA ConcatDistinct ==
  ASSUME NEW A, NEW s \in Seq(A), NEW t \in Seq(A), IsInjective(s), IsInjective(t),
         ItemsOf(s) \cap ItemsOf(t) = {}
  PROVE  s \o t \in Seq(A) /\ IsInjective(s \o t) /\ ItemsOf(s \o t) = ItemsOf(s) \cup ItemsOf(t)
<1>1. /\ Len(s) \in Nat /\ Len(t) \in Nat /\ DOMAIN s = 1 .. Len(s) /\ DOMAIN t = 1 .. Len(t)
      /\ s \o t \in Seq(A) /\ DOMAIN (s \o t) = 1 .. Len(s) + Len(t)
  BY LenProperties, ConcatProperties
<1>2. \A i \in 1 .. Len(s) + Len(t) : (s \o t)[i] = IF i <= Len(s) THEN s[i] ELSE t[i - Len(s)]
  BY ConcatProperties
<1>3. \A i \in 1 .. Len(s) : i \in 1 .. Len(s) + Len(t) /\ (s \o t)[i] = s[i]
  BY <1>1, <1>2
<1>4. \A i \in 1 .. Len(t) : Len(s) + i \in 1 .. Len(s) + Len(t) /\ (s \o t)[Len(s) + i] = t[i]
  <2>. TAKE i \in 1 .. Len(t)
  <2>1. Len(s) + i \in 1 .. Len(s) + Len(t) /\ ~(Len(s) + i <= Len(s)) /\ (Len(s) + i) - Len(s) = i
    BY <1>1
  <2>. QED
    BY <1>2, <2>1
<1>5. \A i \in 1 .. Len(s) + Len(t) : i \in 1 .. Len(s) \/ \E j \in 1 .. Len(t) : i = Len(s) + j
  <2>. TAKE i \in 1 .. Len(s) + Len(t)
  <2>1. CASE i > Len(s)
    <3>1. i - Len(s) \in 1 .. Len(t) /\ i = Len(s) + (i - Len(s))
      BY <1>1, <2>1
    <3>. QED
      BY <3>1
  <2>. QED
    BY <1>1, <2>1
<1>6. ItemsOf(s \o t) = ItemsOf(s) \cup ItemsOf(t)
  <2>1. ASSUME NEW x \in ItemsOf(s \o t) PROVE x \in ItemsOf(s) \cup ItemsOf(t)
    <3>1. PICK i \in 1 .. Len(s) + Len(t) : x = (s \o t)[i]
      BY <1>1 DEF ItemsOf
    <3>2. CASE i \in 1 .. Len(s)
      BY <1>1, <1>3, <3>1, <3>2 DEF ItemsOf
    <3>3. ASSUME NEW j \in 1 .. Len(t), i = Len(s) + j PROVE x \in ItemsOf(t)
      BY <1>1, <1>4, <3>1, <3>3 DEF ItemsOf
    <3>. QED
      BY <1>5, <3>2, <3>3
  <2>2. ItemsOf(s) \subseteq ItemsOf(s \o t)
    BY <1>1, <1>3 DEF ItemsOf
  <2>3. ItemsOf(t) \subseteq ItemsOf(s \o t)
    BY <1>1, <1>4 DEF ItemsOf
  <2>. QED
    BY <2>1, <2>2, <2>3
<1>7. ASSUME NEW i \in 1 .. Len(s) + Len(t), NEW j \in 1 .. Len(s) + Len(t), (s \o t)[i] = (s \o t)[j]
      PROVE  i = j
  <2>1. \A x \in 1 .. Len(s), y \in 1 .. Len(t) : s[x] # t[y]
    BY <1>1 DEF ItemsOf
  <2>2. \A x, y \in 1 .. Len(s) : s[x] = s[y] => x = y
    BY <1>1 DEF IsInjective
  <2>3. \A x, y \in 1 .. Len(t) : t[x] = t[y] => x = y
    BY <1>1 DEF IsInjective
  <2>4. CASE i \in 1 .. Len(s) /\ j \in 1 .. Len(s)
    BY <1>3, <1>7, <2>2, <2>4
  <2>5. ASSUME i \in 1 .. Len(s), NEW y \in 1 .. Len(t), j = Len(s) + y PROVE FALSE
    BY <1>3, <1>4, <1>7, <2>1, <2>5
  <2>6. ASSUME j \in 1 .. Len(s), NEW y \in 1 .. Len(t), i = Len(s) + y PROVE FALSE
    BY <1>3, <1>4, <1>7, <2>1, <2>6
  <2>7. ASSUME NEW x \in 1 .. Len(t), NEW y \in 1 .. Len(t), i = Len(s) + x, j = Len(s) + y PROVE i = j
    BY <1>4, <1>7, <2>3, <2>7
  <2>. QED
    BY <1>5, <2>4, <2>5, <2>6, <2>7
<1>. QED
  BY <1>1, <1>6, <1>7 DEF IsInjective

(* A set of numbers that is not empty has a least one. *)
LEMMA LeastExists ==
  ASSUME NEW Y \in SUBSET Nat, Y # {}
  PROVE  \E x \in Y : \A y \in Y : x <= y
<1>1. PICK x \in Y : \A y \in Y : <<y, x>> \notin Less
  BY LessIsWellFounded, WFMin
<1>2. ASSUME NEW y \in Y PROVE x <= y
  <2>1. x \in Nat /\ y \in Nat /\ <<y, x>> \notin Less
    BY <1>1
  <2>2. ~(y < x)
    BY <2>1 DEF Less
  <2>. QED
    BY <2>1, <2>2
<1>. QED
  BY <1>2

(* It is the one that is chosen. *)
LEMMA LeastIsChosen ==
  ASSUME NEW Y \in SUBSET Nat, Y # {}
  PROVE  LET m == CHOOSE w \in Y : \A v \in Y : w <= v
         IN  m \in Y /\ \A v \in Y : m <= v
BY LeastExists

(* So has a set of numbers up to n a greatest one. *)
LEMMA GreatestIsThere ==
  ASSUME NEW n \in Nat, NEW S \in SUBSET (1 .. n), S # {}
  PROVE  Max(S) \in S /\ \A y \in S : Max(S) >= y
<1>. DEFINE Y == {n - x : x \in S}
<1>1. Y \in SUBSET Nat /\ Y # {}
  <2>1. \A x \in S : n - x \in Nat
    OBVIOUS
  <2>. QED
    BY <2>1
<1>2. PICK y \in Y : \A z \in Y : y <= z
  <2>. HIDE DEF Y
  <2>. QED
    BY <1>1, LeastExists
<1>3. PICK x \in S : y = n - x
  BY <1>2
<1>4. ASSUME NEW z \in S PROVE x >= z
  <2>1. n - x <= n - z
    BY <1>2, <1>3
  <2>. QED
    BY <2>1
<1>. QED
  BY <1>4 DEF Max

(* A sequence is one of its own items.                                     *)
LEMMA ItemsAreIn == ASSUME NEW A, NEW s \in Seq(A) PROVE s \in Seq(ItemsOf(s)) /\ ItemsOf(s) \subseteq A
<1>1. s = [x \in 1 .. Len(s) |-> s[x]] /\ Len(s) \in Nat /\ DOMAIN s = 1 .. Len(s)
  OBVIOUS
<1>2. s \in [1 .. Len(s) -> ItemsOf(s)]
  BY <1>1 DEF ItemsOf
<1>3. s \in Seq(ItemsOf(s))
  BY <1>1, <1>2
<1>4. ItemsOf(s) \subseteq A
  BY DEF ItemsOf
<1>. QED
  BY <1>3, <1>4

(* Values that are read ahead: at a stop there is one, and elsewhere it is *)
(* made of that of a later place.                                          *)
Ahead(V, start, end, base, stop, next, step) ==
  /\ start \in Nat /\ end \in Nat /\ start <= end /\ base \in V
  /\ next \in [start .. end -> start .. end] /\ step \in [start .. end -> [V -> V]]
  /\ \A i \in start .. end : i \notin stop => next[i] > i
ReadsAhead(g, V, start, end, base, stop, next, step) ==
  /\ g \in [start .. end -> V]
  /\ \A i \in start .. end : g[i] = IF i \in stop THEN base ELSE step[i][g[next[i]]]

(* There are such values.                                                  *)
LEMMA BackwardsExist ==
  ASSUME NEW V, NEW start, NEW end, NEW base, NEW stop, NEW next, NEW step,
         Ahead(V, start, end, base, stop, next, step)
  PROVE  \E g : ReadsAhead(g, V, start, end, base, stop, next, step)
<1>0. /\ start \in Nat /\ end \in Nat /\ start <= end /\ base \in V
      /\ next \in [start .. end -> start .. end] /\ step \in [start .. end -> [V -> V]]
      /\ \A i \in start .. end : i \notin stop => next[i] > i
  BY DEF Ahead
<1>. DEFINE D == start .. end
            Solves(g, m) == \A i \in D : i + m > end => g[i] = IF i \in stop THEN base ELSE step[i][g[next[i]]]
            T == {m \in Nat : \E g \in [D -> V] : Solves(g, m)}
<1>1. 0 \in T
  <2>. DEFINE g == [i \in D |-> base]
  <2>1. g \in [D -> V] /\ Solves(g, 0)
    BY <1>0
  <2>. HIDE DEF g, Solves
  <2>. QED
    BY <2>1
<1>2. ASSUME NEW m \in Nat, m \in T PROVE m + 1 \in T
  <2>1. PICK g \in [D -> V] : Solves(g, m)
    BY <1>2
  <2>2. CASE end - m \notin D
    <3>1. \A i \in D : i + (m + 1) > end => i + m > end
      BY <1>0, <2>2
    <3>2. Solves(g, m + 1)
      BY <2>1, <3>1
    <3>. HIDE DEF Solves
    <3>. QED
      BY <3>2
  <2>3. CASE end - m \in D
    <3>. DEFINE e == end - m
                h == [i \in D |-> IF i = e THEN IF e \in stop THEN base ELSE step[e][g[next[e]]] ELSE g[i]]
    <3>1. e \in D /\ next[e] \in D /\ step[e] \in [V -> V] /\ g[next[e]] \in V
      BY <1>0, <2>3
    <3>2. h \in [D -> V]
      BY <1>0, <3>1
    <3>3. \A i \in D : i # e => h[i] = g[i]
      OBVIOUS
    <3>4. h[e] = IF e \in stop THEN base ELSE step[e][g[next[e]]]
      BY <3>1
    <3>5. \A i \in D : i \notin stop => next[i] > i /\ next[i] \in D
      BY <1>0
    <3>6. \A i \in D : i + (m + 1) > end => i = e \/ (i + m > end /\ i > e)
      BY <1>0
    <3>. HIDE DEF h
    <3>7. ASSUME NEW i \in D, i + (m + 1) > end PROVE h[i] = IF i \in stop THEN base ELSE step[i][h[next[i]]]
      <4>1. CASE i = e
        <5>1. i \notin stop => h[next[i]] = g[next[i]]
          BY <3>3, <3>5, <4>1
        <5>. HIDE DEF e
        <5>. QED
          BY <3>4, <4>1, <5>1
      <4>2. CASE i # e
        <5>1. i + m > end /\ i > e
          BY <3>6, <3>7, <4>2
        <5>2. g[i] = IF i \in stop THEN base ELSE step[i][g[next[i]]]
          BY <2>1, <5>1
        <5>3. i \notin stop => h[next[i]] = g[next[i]]
          BY <3>3, <3>5, <5>1
        <5>4. h[i] = g[i]
          BY <3>3, <4>2
        <5>. HIDE DEF e, D
        <5>. QED
          BY <5>2, <5>3, <5>4
      <4>. QED
        BY <4>1, <4>2
    <3>8. Solves(h, m + 1)
      BY <3>7
    <3>. HIDE DEF Solves
    <3>. QED
      BY <3>2, <3>8
  <2>. QED
    BY <2>2, <2>3
<1>3. \A m \in Nat : m \in T
  <2>. HIDE DEF T
  <2>. QED
    BY <1>1, <1>2, NatInductive
<1>4. PICK g \in [D -> V] : Solves(g, end + 1)
  <2>1. end + 1 \in T
    <3>1. end + 1 \in Nat
      BY <1>0
    <3>. HIDE DEF T
    <3>. QED
      BY <1>3, <3>1
  <2>. HIDE DEF Solves
  <2>. QED
    BY <2>1
<1>5. \A i \in D : i + (end + 1) > end
  BY <1>0
<1>6. ReadsAhead(g, V, start, end, base, stop, next, step)
  BY <1>4, <1>5 DEF ReadsAhead
<1>. QED
  BY <1>6

=============================================================================
