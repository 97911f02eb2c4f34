------------------------------- MODULE SumsProofs -------------------------------
(***************************************************************************)
(* What the proofs need to know about sums over finite sets.               *)
(***************************************************************************)
EXTENDS Sums, FiniteSetTheorems, FunctionTheorems, TLAPS

\* Finitely many natural amounts have finitely many units.
LEMMA UnitsFinite ==
  ASSUME NEW S, IsFiniteSet(S), NEW f, \A x \in S : f[x] \in Nat
  PROVE  IsFiniteSet(Units(f, S))
  <1> DEFINE part == [x \in S |-> {x} \X (1..f[x])]
             parts == {{x} \X (1..f[x]) : x \in S}
  <1>1. part \in Surjection(S, parts)
    BY DEF Surjection
  <1>2. IsFiniteSet(parts)
    BY <1>1, FS_Surjection
  <1>3. \A x \in S : IsFiniteSet({x} \X (1..f[x]))
    <2> TAKE x \in S
    <2> HIDE DEF part, parts
    <2>1. IsFiniteSet({x})
      BY FS_Singleton
    <2>2. IsFiniteSet(1..f[x])
      BY FS_Interval
    <2>3. QED
      BY <2>1, <2>2, FS_Product
  <1>4. \A T \in parts : IsFiniteSet(T)
    BY <1>3
  <1> HIDE DEF parts
  <1>5. IsFiniteSet(UNION parts)
    BY <1>2, <1>4, FS_UNION
  <1>6. QED
    BY <1>5 DEF Units, parts

\* A sum is a natural number.
LEMMA SumType ==
  ASSUME NEW S, IsFiniteSet(S), NEW f, \A x \in S : f[x] \in Nat
  PROVE  SumOver(f, S) \in Nat
  BY UnitsFinite, FS_CardinalityType DEF SumOver

\* The sum over nothing.
LEMMA SumEmpty ==
  ASSUME NEW f
  PROVE  SumOver(f, {}) = 0
  <1>1. Units(f, {}) = {}
    BY DEF Units
  <1>2. QED
    BY <1>1, FS_EmptySet DEF SumOver

\* Only the amounts of the elements matter.
LEMMA SumEqual ==
  ASSUME NEW S, NEW f, NEW g, \A x \in S : f[x] = g[x]
  PROVE  SumOver(f, S) = SumOver(g, S)
  <1>1. \A x \in S : {x} \X (1..f[x]) = {x} \X (1..g[x])
    OBVIOUS
  <1>2. {{x} \X (1..f[x]) : x \in S} = {{x} \X (1..g[x]) : x \in S}
    BY <1>1
  <1>3. QED
    BY <1>2 DEF SumOver, Units

\* One more element adds its amount.
LEMMA SumAdd ==
  ASSUME NEW S, IsFiniteSet(S), NEW x, x \notin S, NEW f,
         \A y \in S \cup {x} : f[y] \in Nat
  PROVE  SumOver(f, S \cup {x}) = SumOver(f, S) + f[x]
  <1> DEFINE own == {x} \X (1..f[x])
  <1>1. Units(f, S \cup {x}) = Units(f, S) \cup own
    BY DEF Units
  <1>2. Units(f, S) \cap own = {}
    BY DEF Units
  <1>3. IsFiniteSet(own) /\ Cardinality(own) = f[x]
    <2>1. IsFiniteSet({x}) /\ Cardinality({x}) = 1
      BY FS_Singleton
    <2>2. IsFiniteSet(1..f[x]) /\ Cardinality(1..f[x]) = f[x]
      BY FS_Interval
    <2>3. IsFiniteSet(own) /\ Cardinality(own) = 1 * f[x]
      BY <2>1, <2>2, FS_Product
    <2>4. QED
      BY <2>3
  <1>4. IsFiniteSet(Units(f, S)) /\ Cardinality(Units(f, S)) \in Nat
    BY UnitsFinite, FS_CardinalityType
  <1> HIDE DEF own
  <1>5. Cardinality(Units(f, S) \cup own) = Cardinality(Units(f, S)) + f[x]
    <2>1. Cardinality(Units(f, S) \cup own)
            = Cardinality(Units(f, S)) + Cardinality(own) - Cardinality(Units(f, S) \cap own)
      BY <1>3, <1>4, FS_Union
    <2>2. Cardinality(Units(f, S) \cap own) = 0
      BY <1>2, FS_EmptySet
    <2>3. QED
      BY <2>1, <2>2, <1>3, <1>4
  <1>6. QED
    BY <1>1, <1>5 DEF SumOver

\* One element less takes its amount away.
LEMMA SumRemove ==
  ASSUME NEW S, IsFiniteSet(S), NEW x \in S, NEW f, \A y \in S : f[y] \in Nat
  PROVE  /\ SumOver(f, S \ {x}) = SumOver(f, S) - f[x]
         /\ f[x] <= SumOver(f, S)
  <1>1. IsFiniteSet(S \ {x}) /\ x \notin S \ {x} /\ (S \ {x}) \cup {x} = S
    BY FS_RemoveElement
  <1>2. SumOver(f, S) = SumOver(f, S \ {x}) + f[x]
    BY <1>1, SumAdd
  <1>3. SumOver(f, S \ {x}) \in Nat
    BY <1>1, SumType
  <1>4. QED
    BY <1>2, <1>3

\* Another amount for one element.
LEMMA SumUpdate ==
  ASSUME NEW S, IsFiniteSet(S), NEW x \in S, NEW f, NEW g,
         \A y \in S : f[y] \in Nat /\ g[y] \in Nat,
         \A y \in S \ {x} : g[y] = f[y]
  PROVE  SumOver(g, S) = SumOver(f, S) - f[x] + g[x]
  <1>1. /\ SumOver(f, S \ {x}) = SumOver(f, S) - f[x]
        /\ SumOver(g, S \ {x}) = SumOver(g, S) - g[x]
    BY SumRemove
  <1>2. SumOver(f, S \ {x}) = SumOver(g, S \ {x})
    BY SumEqual
  <1>3. SumOver(f, S) \in Nat /\ SumOver(g, S) \in Nat
    BY SumType
  <1>4. QED
    BY <1>1, <1>2, <1>3

\* A sum over fewer rows is no larger.
LEMMA SumSubset ==
  ASSUME NEW T, IsFiniteSet(T), NEW S \in SUBSET T, NEW f, \A x \in T : f[x] \in Nat
  PROVE  SumOver(f, S) <= SumOver(f, T)
  <1>1. IsFiniteSet(Units(f, T))
    BY UnitsFinite
  <1>2. Units(f, S) \subseteq Units(f, T)
    BY DEF Units
  <1>3. QED
    BY <1>1, <1>2, FS_Subset DEF SumOver

\* No sum is larger than the largest amount times the number of rows.
LEMMA SumBound ==
  ASSUME NEW S, IsFiniteSet(S), NEW b \in Nat, NEW f, \A x \in S : f[x] \in Nat /\ f[x] <= b
  PROVE  SumOver(f, S) \in Nat /\ SumOver(f, S) <= Cardinality(S) * b
  <1>1. Units(f, S) \subseteq S \X (1..b)
    BY DEF Units
  <1>2. IsFiniteSet(1..b) /\ Cardinality(1..b) = b
    BY FS_Interval
  <1>3. IsFiniteSet(S \X (1..b)) /\ Cardinality(S \X (1..b)) = Cardinality(S) * b
    BY <1>2, FS_Product
  <1>4. Cardinality(Units(f, S)) <= Cardinality(S \X (1..b))
    BY <1>1, <1>3, FS_Subset
  <1>5. QED
    BY <1>3, <1>4, SumType DEF SumOver

\* The sum of sums: for two amounts of every element.
LEMMA SumPlus ==
  ASSUME NEW S, IsFiniteSet(S), NEW f, NEW g, NEW h,
         \A x \in S : f[x] \in Nat /\ g[x] \in Nat /\ h[x] = f[x] + g[x]
  PROVE  SumOver(h, S) = SumOver(f, S) + SumOver(g, S)
  <1> DEFINE above == {u \in Units(h, S) : u[2] > f[u[1]]}
             shift == [u \in Units(g, S) |-> <<u[1], f[u[1]] + u[2]>>]
  <1>1. \A u : u \in Units(h, S) <=> \E x \in S : \E k \in 1..h[x] : u = <<x, k>>
    BY DEF Units
  <1>2. \A u : u \in Units(f, S) <=> \E x \in S : \E k \in 1..f[x] : u = <<x, k>>
    BY DEF Units
  <1>3. \A u : u \in Units(g, S) <=> \E x \in S : \E k \in 1..g[x] : u = <<x, k>>
    BY DEF Units
  <1>4. /\ IsFiniteSet(Units(f, S)) /\ IsFiniteSet(Units(g, S))
        /\ Cardinality(Units(f, S)) \in Nat /\ Cardinality(Units(g, S)) \in Nat
    BY UnitsFinite, FS_CardinalityType
  <1>5. shift \in Bijection(Units(g, S), above)
    <2>1. ASSUME NEW u \in Units(g, S) PROVE shift[u] \in above
      <3>1. PICK x \in S, k \in Nat : k \in 1..g[x] /\ u = <<x, k>>
        BY <1>3
      <3>2. f[x] + k \in 1..h[x] /\ f[x] + k > f[x]
        BY <3>1
      <3>3. shift[u] = <<x, f[x] + k>>
        BY <3>1
      <3>. QED
        BY <1>1, <3>2, <3>3
    <2>2. ASSUME NEW u \in Units(g, S), NEW v \in Units(g, S), shift[u] = shift[v] PROVE u = v
      <3>1. PICK x \in S, k \in Nat : k \in 1..g[x] /\ u = <<x, k>>
        BY <1>3
      <3>2. PICK y \in S, j \in Nat : j \in 1..g[y] /\ v = <<y, j>>
        BY <1>3
      <3>3. shift[u] = <<x, f[x] + k>> /\ shift[v] = <<y, f[y] + j>>
        BY <3>1, <3>2
      <3>4. x = y /\ f[x] + k = f[y] + j
        BY <2>2, <3>3
      <3>. QED
        BY <3>1, <3>2, <3>4
    <2>3. ASSUME NEW v \in above PROVE \E u \in Units(g, S) : shift[u] = v
      <3>1. PICK x \in S, k \in Nat : k \in 1..h[x] /\ v = <<x, k>> /\ k > f[x]
        BY <1>1
      <3>2. PICK j : j = k - f[x]
        OBVIOUS
      <3>3. j \in 1..g[x] /\ f[x] + j = k
        BY <3>1, <3>2
      <3>4. <<x, j>> \in Units(g, S)
        BY <1>3, <3>3
      <3>5. shift[<<x, j>>] = v
        BY <3>1, <3>3, <3>4
      <3>. QED
        BY <3>4, <3>5
    <2>4. shift \in [Units(g, S) -> above]
      BY <2>1
    <2>. HIDE DEF shift, above
    <2>. QED
      BY <2>2, <2>3, <2>4, Fun_IsBij
  <1>6. Units(h, S) = Units(f, S) \cup above /\ Units(f, S) \cap above = {}
    <2>1. ASSUME NEW u \in Units(f, S) PROVE u \in Units(h, S) /\ u \notin above
      <3>1. PICK x \in S, k \in Nat : k \in 1..f[x] /\ u = <<x, k>>
        BY <1>2
      <3>2. k \in 1..h[x] /\ ~(k > f[x])
        BY <3>1
      <3>. QED
        BY <1>1, <3>1, <3>2
    <2>2. ASSUME NEW u \in Units(h, S), u \notin above PROVE u \in Units(f, S)
      <3>1. PICK x \in S, k \in Nat : k \in 1..h[x] /\ u = <<x, k>>
        BY <1>1
      <3>2. ~(k > f[x])
        BY <2>2, <3>1
      <3>3. k \in 1..f[x]
        BY <3>1, <3>2
      <3>. QED
        BY <1>2, <3>1, <3>3
    <2>. QED
      BY <2>1, <2>2
  <1> HIDE DEF shift, above
  <1>7. ExistsBijection(Units(g, S), above)
    BY <1>5 DEF ExistsBijection
  <1>8. IsFiniteSet(above) /\ Cardinality(above) = Cardinality(Units(g, S))
    BY <1>4, <1>7, FS_Bijection
  <1>9. Cardinality(Units(f, S) \cap above) = 0
    BY <1>6, FS_EmptySet
  <1>10. Cardinality(Units(f, S) \cup above)
           = Cardinality(Units(f, S)) + Cardinality(above) - Cardinality(Units(f, S) \cap above)
    BY <1>4, <1>8, FS_Union
  <1>11. Cardinality(Units(h, S)) = Cardinality(Units(f, S)) + Cardinality(Units(g, S))
    BY <1>4, <1>6, <1>8, <1>9, <1>10
  <1>12. QED
    BY <1>11 DEF SumOver

\* The sum of the sums of the parts: every element is in the part that h says.
LEMMA SumByPart ==
  ASSUME NEW S, IsFiniteSet(S), NEW f, \A x \in S : f[x] \in Nat,
         NEW P, IsFiniteSet(P), NEW h, \A x \in S : h[x] \in P,
         NEW Whole, \A p \in P : \A x : x \in Whole[p] <=> x \in S /\ h[x] = p,
         NEW c, \A p \in P : c[p] = SumOver(f, Whole[p])
  PROVE  SumOver(c, P) = SumOver(f, S)
  <1> DEFINE PartOf(p) == Units(f, {x \in S : h[x] = p})
             number == [p \in P |-> CHOOSE b : b \in Bijection(1..c[p], PartOf(p))]
             all == [u \in Units(c, P) |-> number[u[1]][u[2]]]
  <1>1. \A u : u \in Units(f, S) <=> \E x \in S : \E k \in 1..f[x] : u = <<x, k>>
    BY DEF Units
  <1>2. \A p, u : u \in PartOf(p) <=> \E x \in S : h[x] = p /\ \E k \in 1..f[x] : u = <<x, k>>
    BY DEF Units
  <1>3. \A u : u \in Units(c, P) <=> \E p \in P : \E k \in 1..c[p] : u = <<p, k>>
    BY DEF Units
  <1>4. ASSUME NEW p \in P
        PROVE  c[p] \in Nat /\ number[p] \in Bijection(1..c[p], PartOf(p))
    <2>1. PICK T : T = {x \in S : h[x] = p}
      OBVIOUS
    <2>2. IsFiniteSet(T) /\ \A x \in T : f[x] \in Nat
      BY <2>1, FS_Subset
    <2>3. IsFiniteSet(Units(f, T))
      BY <2>2, UnitsFinite
    <2>4. Cardinality(Units(f, T)) \in Nat /\ ExistsBijection(1..Cardinality(Units(f, T)), Units(f, T))
      BY <2>3, FS_CardinalityType
    <2>5. c[p] = Cardinality(Units(f, T))
      <3>1. T = Whole[p]
        BY <2>1
      <3>. QED
        BY <3>1 DEF SumOver
    <2>6. \E b : b \in Bijection(1..c[p], PartOf(p))
      BY <2>1, <2>4, <2>5 DEF ExistsBijection
    <2>7. number[p] \in Bijection(1..c[p], PartOf(p))
      BY <2>6
    <2>. QED
      BY <2>4, <2>5, <2>7
  <1>5. ASSUME NEW p \in P
        PROVE  /\ \A k \in 1..c[p] : number[p][k] \in PartOf(p)
               /\ \A k, j \in 1..c[p] : number[p][k] = number[p][j] => k = j
               /\ \A u \in PartOf(p) : \E k \in 1..c[p] : number[p][k] = u
    <2>1. number[p] \in Bijection(1..c[p], PartOf(p))
      BY <1>4
    <2> HIDE DEF number, PartOf
    <2>. QED
      BY <2>1 DEF Bijection, Injection, Surjection, IsInjective
  <1> HIDE DEF number, PartOf
  <1>6. all \in Bijection(Units(c, P), Units(f, S))
    <2>0. ASSUME NEW p \in P, NEW k \in 1..c[p] PROVE all[<<p, k>>] = number[p][k] /\ <<p, k>> \in Units(c, P)
      <3>1. <<p, k>> \in Units(c, P)
        BY <1>3
      <3>. QED
        BY <3>1
    <2>1. ASSUME NEW u \in Units(c, P) PROVE all[u] \in Units(f, S)
      <3>1. PICK p \in P, k \in Nat : k \in 1..c[p] /\ u = <<p, k>>
        BY <1>3
      <3>2. all[u] \in PartOf(p)
        BY <1>5, <2>0, <3>1
      <3>. QED
        BY <1>1, <1>2, <3>2
    <2>2. ASSUME NEW u \in Units(c, P), NEW v \in Units(c, P), all[u] = all[v] PROVE u = v
      <3>1. PICK p \in P, k \in Nat : k \in 1..c[p] /\ u = <<p, k>>
        BY <1>3
      <3>2. PICK q \in P, j \in Nat : j \in 1..c[q] /\ v = <<q, j>>
        BY <1>3
      <3>3. all[u] \in PartOf(p) /\ all[v] \in PartOf(q) /\ all[u] = number[p][k] /\ all[v] = number[q][j]
        BY <1>5, <2>0, <3>1, <3>2
      <3>4. PICK x \in S : h[x] = p /\ \E i \in 1..f[x] : all[u] = <<x, i>>
        BY <1>2, <3>3
      <3>5. PICK y \in S : h[y] = q /\ \E i \in 1..f[y] : all[v] = <<y, i>>
        BY <1>2, <3>3
      <3>6. x = y
        BY <2>2, <3>4, <3>5
      <3>7. p = q
        BY <3>4, <3>5, <3>6
      <3>8. k = j
        BY <1>5, <2>2, <3>1, <3>2, <3>3, <3>7
      <3>. QED
        BY <3>1, <3>2, <3>7, <3>8
    <2>3. ASSUME NEW v \in Units(f, S) PROVE \E u \in Units(c, P) : all[u] = v
      <3>1. PICK x \in S, i \in Nat : i \in 1..f[x] /\ v = <<x, i>>
        BY <1>1
      <3>2. PICK p \in P : p = h[x]
        OBVIOUS
      <3>3. v \in PartOf(p)
        BY <1>2, <3>1, <3>2
      <3>4. PICK k \in 1..c[p] : number[p][k] = v
        BY <1>5, <3>3
      <3>. QED
        BY <2>0, <3>4
    <2>4. all \in [Units(c, P) -> Units(f, S)]
      BY <2>1
    <2> HIDE DEF all
    <2>. QED
      BY <2>2, <2>3, <2>4, Fun_IsBij
  <1>7. ExistsBijection(Units(c, P), Units(f, S))
    BY <1>6 DEF ExistsBijection
  <1>8. IsFiniteSet(Units(c, P))
    BY <1>4, UnitsFinite
  <1>9. Cardinality(Units(f, S)) = Cardinality(Units(c, P))
    BY <1>7, <1>8, FS_Bijection
  <1>10. QED
    BY <1>9 DEF SumOver

\* The sum over one element.
LEMMA SumOne ==
  ASSUME NEW x, NEW f, f[x] \in Nat
  PROVE  SumOver(f, {x}) = f[x]
  <1>1. SumOver(f, {} \cup {x}) = SumOver(f, {}) + f[x]
    BY FS_EmptySet, SumAdd
  <1>2. {} \cup {x} = {x}
    OBVIOUS
  <1>3. QED
    BY <1>1, <1>2, SumEmpty

\* The sum over two parts that share nothing.
LEMMA SumUnion ==
  ASSUME NEW S, IsFiniteSet(S), NEW T, IsFiniteSet(T), S \cap T = {},
         NEW f, \A x \in S \cup T : f[x] \in Nat
  PROVE  SumOver(f, S \cup T) = SumOver(f, S) + SumOver(f, T)
  <1>1. Units(f, S \cup T) = Units(f, S) \cup Units(f, T)
    BY DEF Units
  <1>2. Units(f, S) \cap Units(f, T) = {}
    BY DEF Units
  <1>3. IsFiniteSet(Units(f, S)) /\ IsFiniteSet(Units(f, T))
    BY UnitsFinite
  <1>4. Cardinality(Units(f, S) \cup Units(f, T))
          = Cardinality(Units(f, S)) + Cardinality(Units(f, T)) - Cardinality(Units(f, S) \cap Units(f, T))
    BY <1>3, FS_Union
  <1>5. Cardinality(Units(f, S)) \in Nat /\ Cardinality(Units(f, T)) \in Nat
    BY <1>3, FS_CardinalityType
  <1>6. Cardinality(Units(f, S) \cap Units(f, T)) = 0
    BY <1>2, FS_EmptySet
  <1>7. Cardinality(Units(f, S) \cup Units(f, T)) = Cardinality(Units(f, S)) + Cardinality(Units(f, T))
    BY <1>4, <1>5, <1>6
  <1>8. QED
    BY <1>1, <1>7 DEF SumOver

\* The sum of zeros.
LEMMA SumZero ==
  ASSUME NEW S, NEW f, \A x \in S : f[x] = 0
  PROVE  SumOver(f, S) = 0
  <1>1. Units(f, S) = {}
    BY DEF Units
  <1>2. QED
    BY <1>1, FS_EmptySet DEF SumOver

-----------------------------------------------------------------------------
(* Sums of amounts that may be negative. *)

\* Only the amounts of the elements matter.
LEMMA NetEqual ==
  ASSUME NEW S, NEW f, NEW g, \A x \in S : f[x] = g[x]
  PROVE  NetOver(f, S) = NetOver(g, S)
  <1>1. /\ [x \in S |-> IF f[x] > 0 THEN f[x] ELSE 0] = [x \in S |-> IF g[x] > 0 THEN g[x] ELSE 0]
        /\ [x \in S |-> IF f[x] < 0 THEN -f[x] ELSE 0] = [x \in S |-> IF g[x] < 0 THEN -g[x] ELSE 0]
    OBVIOUS
  <1>2. QED
    BY <1>1 DEF NetOver

\* What is positive less what is negative.
LEMMA NetDifference ==
  ASSUME NEW S, IsFiniteSet(S), NEW f, NEW g, NEW k,
         \A x \in S : f[x] \in Int /\ g[x] \in Nat /\ k[x] \in Nat /\ f[x] = g[x] - k[x]
  PROVE  NetOver(f, S) = SumOver(g, S) - SumOver(k, S) /\ NetOver(f, S) \in Int
  <1> DEFINE above == [x \in S |-> IF f[x] > 0 THEN f[x] ELSE 0]
             below == [x \in S |-> IF f[x] < 0 THEN -f[x] ELSE 0]
             both == [x \in S |-> above[x] + k[x]]
  <1>1. \A x \in S : /\ above[x] \in Nat /\ below[x] \in Nat /\ both[x] \in Nat
                     /\ both[x] = above[x] + k[x] /\ both[x] = below[x] + g[x]
    OBVIOUS
  <1>2. NetOver(f, S) = SumOver(above, S) - SumOver(below, S)
    BY DEF NetOver
  <1> HIDE DEF above, below, both
  <1>3. SumOver(both, S) = SumOver(above, S) + SumOver(k, S)
    <2>1. \A x \in S : above[x] \in Nat /\ k[x] \in Nat /\ both[x] = above[x] + k[x]
      BY <1>1
    <2>2. QED
      BY <2>1, SumPlus
  <1>4. SumOver(both, S) = SumOver(below, S) + SumOver(g, S)
    <2>1. \A x \in S : below[x] \in Nat /\ g[x] \in Nat /\ both[x] = below[x] + g[x]
      BY <1>1
    <2>2. QED
      BY <2>1, SumPlus
  <1>5. /\ SumOver(above, S) \in Nat /\ SumOver(below, S) \in Nat
        /\ SumOver(g, S) \in Nat /\ SumOver(k, S) \in Nat
    BY <1>1, SumType
  <1>6. QED
    BY <1>2, <1>3, <1>4, <1>5

\* The sum of what is added up element by element.
LEMMA NetPlus ==
  ASSUME NEW S, IsFiniteSet(S), NEW f, NEW g, NEW h,
         \A x \in S : f[x] \in Int /\ g[x] \in Int /\ h[x] = f[x] + g[x]
  PROVE  NetOver(h, S) = NetOver(f, S) + NetOver(g, S)
  <1> DEFINE a == [x \in S |-> IF f[x] > 0 THEN f[x] ELSE 0]
             b == [x \in S |-> IF f[x] < 0 THEN -f[x] ELSE 0]
             c == [x \in S |-> IF g[x] > 0 THEN g[x] ELSE 0]
             d == [x \in S |-> IF g[x] < 0 THEN -g[x] ELSE 0]
             gained == [x \in S |-> a[x] + c[x]]
             lost == [x \in S |-> b[x] + d[x]]
  <1>1. NetOver(f, S) = SumOver(a, S) - SumOver(b, S) /\ NetOver(g, S) = SumOver(c, S) - SumOver(d, S)
    BY DEF NetOver
  <1>2. \A x \in S : /\ a[x] \in Nat /\ b[x] \in Nat /\ c[x] \in Nat /\ d[x] \in Nat
                     /\ f[x] = a[x] - b[x] /\ g[x] = c[x] - d[x]
    OBVIOUS
  <1> HIDE DEF a, b, c, d
  <1>3. \A x \in S : /\ gained[x] = a[x] + c[x] /\ lost[x] = b[x] + d[x]
                     /\ gained[x] \in Nat /\ lost[x] \in Nat
                     /\ h[x] \in Int /\ h[x] = gained[x] - lost[x]
    BY <1>2
  <1> HIDE DEF gained, lost
  <1>4. NetOver(h, S) = SumOver(gained, S) - SumOver(lost, S)
    BY <1>3, NetDifference
  <1>5. SumOver(gained, S) = SumOver(a, S) + SumOver(c, S) /\ SumOver(lost, S) = SumOver(b, S) + SumOver(d, S)
    BY <1>2, <1>3, SumPlus
  <1>6. SumOver(a, S) \in Nat /\ SumOver(b, S) \in Nat /\ SumOver(c, S) \in Nat /\ SumOver(d, S) \in Nat
    BY <1>2, SumType
  <1>7. QED
    BY <1>1, <1>4, <1>5, <1>6

\* The sum of zeros.
LEMMA NetZero ==
  ASSUME NEW S, NEW f, \A x \in S : f[x] = 0
  PROVE  NetOver(f, S) = 0
  <1> DEFINE above == [x \in S |-> IF f[x] > 0 THEN f[x] ELSE 0]
             below == [x \in S |-> IF f[x] < 0 THEN -f[x] ELSE 0]
  <1>1. \A x \in S : above[x] = 0 /\ below[x] = 0
    OBVIOUS
  <1>2. NetOver(f, S) = SumOver(above, S) - SumOver(below, S)
    BY DEF NetOver
  <1> HIDE DEF above, below
  <1>3. QED
    BY <1>1, <1>2, SumZero

-----------------------------------------------------------------------------
(* Numbers. *)

\* Every set of natural numbers that is not empty has a least element.
LEMMA LeastNumber ==
  ASSUME NEW T \in SUBSET Nat, T # {}
  PROVE  \E n \in T : \A m \in T : n <= m
  <1>1. PICK t \in T : TRUE
    OBVIOUS
  <1> DEFINE below == {m \in 0..t : \A k \in T : k > m}
             d == Cardinality(below)
  <1>2. below \subseteq 0..(t - 1)
    BY <1>1
  <1>3. \A k \in Nat : IsFiniteSet(0..(k - 1)) /\ Cardinality(0..(k - 1)) = k
    BY FS_Interval
  <1>4. d \in Nat /\ d <= t /\ IsFiniteSet(below)
    BY <1>2, <1>3, FS_Subset, FS_CardinalityType
  <1>5. ASSUME NEW k \in T PROVE d <= k
    <2>1. below \subseteq 0..(k - 1)
      BY <1>5
    <2>. QED
      BY <1>3, <1>4, <2>1, FS_Subset
  <1>6. d \in T
    <2>1. d \notin below
      <3>1. SUFFICES ASSUME d \in below PROVE FALSE
        OBVIOUS
      <3>2. 0..((d + 1) - 1) \subseteq below
        <4> HIDE DEF d
        <4>. QED
          BY <1>4, <3>1
      <3>3. d + 1 <= d
        <4>1. Cardinality(0..((d + 1) - 1)) = d + 1
          BY <1>3, <1>4
        <4>2. Cardinality(0..((d + 1) - 1)) <= Cardinality(below)
          BY <1>4, <3>2, FS_Subset
        <4>. QED
          BY <4>1, <4>2
      <3>. QED
        BY <1>4, <3>3
    <2>2. PICK k \in T : k <= d
      <3> HIDE DEF d
      <3>. QED
        BY <1>4, <2>1
    <2>. QED
      BY <1>4, <1>5, <2>2
  <1>. QED
    BY <1>5, <1>6
=================================================================================
