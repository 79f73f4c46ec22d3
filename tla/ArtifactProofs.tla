--------------------------- MODULE ArtifactProofs ----------------------------
(***************************************************************************)
(* The properties of Artifact.tla hold for every size, every limit of the  *)
(* host and every width of the numbers.                                    *)
(***************************************************************************)
EXTENDS Artifact, FiniteSetTheorems, WellFoundedInduction, TLAPS

-----------------------------------------------------------------------------
(* Sums.  MapThenSumSet takes the elements of its set in the order of      *)
(* CHOOSE; that the sum does not depend on it is proved by induction over  *)
(* the cardinality, in the form of a least counterexample.                 *)

\* The sum that ChunksExact is about.
Total(w, S) == MapThenSumSet(LAMBDA i : w[i].length, S)

\* One step of the recursion of MapThenSumSet.
Pick(w, g, s) ==
    IF s = {} THEN 0 ELSE LET x == CHOOSE y \in s : TRUE IN w[x].length + g[s \ {x}]

Recursion(w, S, g) == g = [s \in SUBSET S |-> Pick(w, g, s)]

\* The least number of a set.
LEMMA LeastNat ==
    ASSUME NEW T \in SUBSET Nat, T # {}
    PROVE  \E n \in T : \A m \in T : n <= m
<1>1. PICK n \in T : \A m \in T : <<m, n>> \notin OpToRel(<, Nat)
  BY WFMin, NatLessThanWellFounded
<1>2. ASSUME NEW m \in T PROVE n <= m
  <2>1. n \in Nat /\ m \in Nat OBVIOUS
  <2>2. <<m, n>> \notin OpToRel(<, Nat) BY <1>1
  <2>3. m < n => <<m, n>> \in OpToRel(<, Nat) BY <2>1, Zenon DEF OpToRel
  <2>4. ~(m < n) BY <2>2, <2>3
  <2> QED BY <2>1, <2>4
<1> QED BY <1>2

\* A finite set without one of its elements.
LEMMA Smaller ==
    ASSUME NEW S, IsFiniteSet(S), NEW x \in S
    PROVE  /\ IsFiniteSet(S \ {x}) /\ Cardinality(S) \in Nat
           /\ Cardinality(S \ {x}) \in Nat /\ Cardinality(S \ {x}) = Cardinality(S) - 1
BY FS_RemoveElement, FS_CardinalityType

\* The recursion has a solution.
LEMMA SumExists ==
    ASSUME NEW w, NEW S, IsFiniteSet(S)
    PROVE  \E g : Recursion(w, S, g)
<1> DEFINE Solves(g, n) == /\ g = [s \in SUBSET S |-> g[s]]
                           /\ \A s \in SUBSET S : Cardinality(s) <= n => g[s] = Pick(w, g, s)
           T == {n \in Nat : ~ \E g : Solves(g, n)}
<1>1. \A s \in SUBSET S : IsFiniteSet(s) /\ Cardinality(s) \in Nat
  BY FS_Subset, FS_CardinalityType
<1>2. T = {}
  <2> SUFFICES ASSUME T # {} PROVE FALSE OBVIOUS
  <2>1. PICK n \in T : \A m \in T : n <= m
    <3>1. T \in SUBSET Nat OBVIOUS
    <3> QED BY <3>1, LeastNat
  <2>2. n \in Nat /\ ~ \E g : Solves(g, n) OBVIOUS
  <2>3. CASE n = 0
    <3> DEFINE g == [s \in SUBSET S |-> 0]
    <3>1. ASSUME NEW s \in SUBSET S, Cardinality(s) <= 0 PROVE g[s] = Pick(w, g, s)
      <4>1. s = {} BY <1>1, <3>1, FS_EmptySet
      <4> QED BY <4>1 DEF Pick
    <3>2. g = [s \in SUBSET S |-> g[s]] OBVIOUS
    <3>3. Solves(g, n) BY <2>3, <3>1, <3>2
    <3> QED BY <2>2, <3>3
  <2>4. CASE n # 0
    <3>1. n - 1 \in Nat /\ ~(n <= n - 1) BY <2>2, <2>4
    <3>2. n - 1 \notin T BY <2>1, <3>1
    <3>3. PICK g : Solves(g, n - 1) BY <3>1, <3>2
    <3> DEFINE h == [s \in SUBSET S |-> IF Cardinality(s) = n THEN Pick(w, g, s) ELSE g[s]]
    <3>4. ASSUME NEW s \in SUBSET S, Cardinality(s) <= n PROVE h[s] = Pick(w, h, s)
      <4>1. CASE s = {}
        <5>1. Cardinality(s) = 0 BY <4>1, FS_EmptySet
        <5>2. 0 <= n - 1 /\ 0 # n BY <2>2, <2>4
        <5> QED BY <3>3, <4>1, <5>1, <5>2 DEF Pick
      <4>2. CASE s # {}
        <5>1. PICK x : x = CHOOSE y \in s : TRUE OBVIOUS
        <5>2. x \in s BY <4>2, <5>1
        <5>3. s \ {x} \in SUBSET S BY <5>2
        <5>4. /\ Cardinality(s) \in Nat /\ Cardinality(s \ {x}) \in Nat
              /\ Cardinality(s \ {x}) = Cardinality(s) - 1
          BY <1>1, <5>2, Smaller
        <5>5. h[s \ {x}] = g[s \ {x}] BY <2>2, <3>4, <5>3, <5>4
        <5>6. Pick(w, h, s) = Pick(w, g, s) BY <5>1, <5>5 DEF Pick
        <5>7. CASE Cardinality(s) = n BY <5>6, <5>7
        <5>8. CASE Cardinality(s) # n
          <6>1. Cardinality(s) <= n - 1 BY <2>2, <3>4, <5>4, <5>8
          <6> QED BY <3>3, <5>6, <5>8, <6>1
        <5> QED BY <5>7, <5>8
      <4> QED BY <4>1, <4>2
    <3>5. h = [s \in SUBSET S |-> h[s]] OBVIOUS
    <3>6. Solves(h, n) BY <3>4, <3>5
    <3> QED BY <2>2, <3>6
  <2> QED BY <2>3, <2>4
<1>3. Cardinality(S) \in Nat BY <1>1
<1>4. PICK g : Solves(g, Cardinality(S)) BY <1>2, <1>3
<1>5. \A s \in SUBSET S : Cardinality(s) <= Cardinality(S) BY FS_Subset
<1>6. g = [s \in SUBSET S |-> Pick(w, g, s)] BY <1>4, <1>5
<1> QED BY <1>6 DEF Recursion

\* It has one solution only, and that depends on the elements alone.
LEMMA SumUnique ==
    ASSUME NEW w, NEW v, NEW S, IsFiniteSet(S), NEW R \in SUBSET S,
           \A x \in R : w[x].length = v[x].length,
           NEW g, Recursion(w, S, g), NEW h, Recursion(v, R, h)
    PROVE  \A s \in SUBSET R : g[s] = h[s]
<1> DEFINE F == {s \in SUBSET R : g[s] # h[s]}
           T == {Cardinality(s) : s \in F}
<1> SUFFICES ASSUME F # {} PROVE FALSE OBVIOUS
<1>1. \A s \in SUBSET R : IsFiniteSet(s) /\ Cardinality(s) \in Nat
  BY FS_Subset, FS_CardinalityType
<1>2. PICK n \in T : \A m \in T : n <= m
  <2>1. T \in SUBSET Nat /\ T # {} BY <1>1
  <2> HIDE DEF T
  <2> QED BY <2>1, LeastNat
<1>3. PICK s \in F : Cardinality(s) = n OBVIOUS
<1>4. s \in SUBSET R /\ g[s] # h[s] /\ s \in SUBSET S OBVIOUS
<1>5. g[s] = Pick(w, g, s) /\ h[s] = Pick(v, h, s) BY <1>4 DEF Recursion
<1>6. s # {} BY <1>4, <1>5 DEF Pick
<1>7. PICK x : x = CHOOSE y \in s : TRUE OBVIOUS
<1>8. x \in s BY <1>6, <1>7
<1>9. /\ Cardinality(s) \in Nat /\ Cardinality(s \ {x}) \in Nat
      /\ Cardinality(s \ {x}) = Cardinality(s) - 1
  BY <1>1, <1>4, <1>8, Smaller
<1>10. s \ {x} \notin F BY <1>2, <1>3, <1>9
<1>11. g[s \ {x}] = h[s \ {x}] BY <1>4, <1>10
<1> QED BY <1>4, <1>5, <1>6, <1>7, <1>8, <1>11 DEF Pick

\* The solution that MapThenSumSet takes.
LEMMA TotalSolves ==
    ASSUME NEW w, NEW S, IsFiniteSet(S)
    PROVE  \E g : Recursion(w, S, g) /\ Total(w, S) = g[S]
<1>1. PICK g : g = CHOOSE h : Recursion(w, S, h) OBVIOUS
<1>2. Recursion(w, S, g) BY <1>1, SumExists
<1>3. Total(w, S) = g[S]
  BY <1>1 DEF Total, MapThenSumSet, MapThenFoldSet, Recursion, Pick
<1> QED BY <1>2, <1>3

\* The sum depends on the lengths of the elements alone.
LEMMA TotalSame ==
    ASSUME NEW w, NEW v, NEW S, IsFiniteSet(S), \A x \in S : w[x].length = v[x].length
    PROVE  Total(w, S) = Total(v, S)
<1>1. PICK g : Recursion(w, S, g) /\ Total(w, S) = g[S] BY TotalSolves
<1>2. PICK h : Recursion(v, S, h) /\ Total(v, S) = h[S] BY TotalSolves
<1>3. S \in SUBSET S OBVIOUS
<1>4. g[S] = h[S] BY <1>1, <1>2, <1>3, SumUnique
<1> QED BY <1>1, <1>2, <1>4

\* The sum of nothing.
LEMMA TotalEmpty == ASSUME NEW w PROVE Total(w, {}) = 0
<1>1. PICK g : Recursion(w, {}, g) /\ Total(w, {}) = g[{}] BY TotalSolves, FS_EmptySet
<1> QED BY <1>1 DEF Recursion, Pick

\* The element that MapThenSumSet takes first.
LEMMA TotalPick ==
    ASSUME NEW w, NEW S, IsFiniteSet(S), S # {}
    PROVE  \E x \in S : Total(w, S) = w[x].length + Total(w, S \ {x})
<1>1. PICK g : Recursion(w, S, g) /\ Total(w, S) = g[S] BY TotalSolves
<1>2. PICK x : x = CHOOSE y \in S : TRUE OBVIOUS
<1>3. x \in S BY <1>2
<1>4. g[S] = Pick(w, g, S) BY <1>1 DEF Recursion
<1>5. g[S] = w[x].length + g[S \ {x}] BY <1>2, <1>4 DEF Pick
<1>6. PICK R : R = S \ {x} OBVIOUS
<1>7. IsFiniteSet(R) /\ R \in SUBSET S /\ R \in SUBSET R BY <1>3, <1>6, Smaller
<1>8. PICK h : Recursion(w, R, h) /\ Total(w, R) = h[R] BY <1>7, TotalSolves
<1>9. g[R] = h[R] BY <1>1, <1>7, <1>8, SumUnique
<1> QED BY <1>1, <1>3, <1>5, <1>6, <1>8, <1>9

\* A sum of lengths is a number, and does not depend on the order.
LEMMA TotalAdd ==
    ASSUME NEW w, NEW S, IsFiniteSet(S), NEW z \in S, \A x \in S : w[x].length \in Nat
    PROVE  /\ Total(w, S) \in Nat /\ Total(w, S \ {z}) \in Nat
           /\ Total(w, S) = w[z].length + Total(w, S \ {z})
<1> DEFINE Good(s) == /\ Total(w, s) \in Nat
                      /\ \A x \in s : Total(w, s) = w[x].length + Total(w, s \ {x})
           F == {s \in SUBSET S : ~Good(s)}
           T == {Cardinality(s) : s \in F}
<1>1. \A s \in SUBSET S : IsFiniteSet(s) /\ Cardinality(s) \in Nat
  BY FS_Subset, FS_CardinalityType
<1>2. F = {}
  <2> SUFFICES ASSUME F # {} PROVE FALSE OBVIOUS
  <2>1. PICK n \in T : \A m \in T : n <= m
    <3>1. T \in SUBSET Nat /\ T # {} BY <1>1
    <3> HIDE DEF T
    <3> QED BY <3>1, LeastNat
  <2>2. PICK s \in F : Cardinality(s) = n OBVIOUS
  <2>3. s \in SUBSET S /\ ~Good(s) OBVIOUS
  <2>4. IsFiniteSet(s) /\ n \in Nat BY <1>1, <2>2, <2>3
  <2>5. s # {}
    <3>1. Good({}) BY TotalEmpty
    <3> QED BY <2>3, <3>1
  <2>6. PICK y \in s : Total(w, s) = w[y].length + Total(w, s \ {y}) BY <2>4, <2>5, TotalPick
  <2>7. ASSUME NEW r \in SUBSET s, r # s PROVE Good(r)
    <3>1. Cardinality(r) \in Nat /\ Cardinality(r) < n
      BY <1>1, <2>2, <2>3, <2>4, <2>7, FS_Subset
    <3>2. r \in SUBSET S /\ Cardinality(r) \notin T BY <2>1, <2>3, <2>4, <3>1
    <3> QED BY <3>2
  <2>8. w[y].length \in Nat /\ Total(w, s \ {y}) \in Nat BY <2>3, <2>6, <2>7
  <2>9. Total(w, s) \in Nat BY <2>6, <2>8
  <2>10. ASSUME NEW x \in s PROVE Total(w, s) = w[x].length + Total(w, s \ {x})
    <3>1. CASE x = y BY <2>6, <3>1
    <3>2. CASE x # y
      <4>1. Good(s \ {y}) /\ Good(s \ {x}) BY <2>6, <2>7, <2>10
      <4>2. PICK c : c = (s \ {y}) \ {x} OBVIOUS
      <4>3. c = (s \ {x}) \ {y} /\ c \in SUBSET s /\ c # s BY <4>2, <2>6
      <4>4. Total(w, c) \in Nat BY <2>7, <4>3
      <4>5. Total(w, s \ {y}) = w[x].length + Total(w, c) BY <2>10, <3>2, <4>1, <4>2
      <4>6. Total(w, s \ {x}) = w[y].length + Total(w, c) BY <2>6, <3>2, <4>1, <4>3
      <4>7. w[x].length \in Nat BY <2>3, <2>10
      <4> QED BY <2>6, <2>8, <4>4, <4>5, <4>6, <4>7
    <3> QED BY <3>1, <3>2
  <2>11. Good(s) BY <2>9, <2>10
  <2> QED BY <2>3, <2>11
<1>3. Good(S) /\ Good(S \ {z}) BY <1>2
<1> QED BY <1>3

-----------------------------------------------------------------------------
(* The inductive invariant.                                                *)

Transfer == {"starting", "accepting", "reading", "sending", "completing", "storing"}

\* The chunks that are left are those that what is left of the source makes.
PlanInv ==
    /\ outcome # "none" => pc = "returned"
    /\ pc \in {"idle", "locating"} => counted = 0 /\ remaining = 0
    /\ remaining <= size
    /\ pc \in Transfer => index <= plan /\ Count(remaining) = plan - index
    /\ pc \in {"starting", "accepting"} => index = 0 /\ remaining = size
    /\ pc \in {"reading", "sending"} => index < plan
    /\ pc \in {"completing", "storing"} => index = plan

\* The transfer is the start, the chunks in order, and the completion.
WireInv ==
    /\ pc \in {"idle", "locating", "validating", "rewinding", "starting"} => wire = <<>>
    /\ pc \in {"accepting", "reading", "sending", "completing"} => Len(wire) = index + 1
    /\ pc = "storing" => Len(wire) = index + 2
    /\ wire # <<>> =>
          /\ Len(wire) = index + 1 \/ (Len(wire) = index + 2 /\ index = plan /\ remaining = 0)
          /\ wire[1].kind = "Start" /\ wire[1].number = plan
          /\ \A i \in 2..(index + 1) :
                /\ wire[i].kind = "Chunk" /\ wire[i].number = i - 2
                /\ wire[i].length \in 1..ChunkBytes
          /\ Len(wire) = index + 2 => wire[index + 2].kind = "Complete"
          /\ Total(wire, 2..(index + 1)) = size - remaining

\* A source that nobody changes is the described one, and the second pass is
\* where the chunks end.
SourceInv ==
    ~modified =>
        /\ pc = "locating" /\ source.content = "described" => source.length = position + size
        /\ pc \in {"validating", "rewinding"} /\ source.content = "described" =>
              source.length = start + size
        /\ pc \in {"validating", "rewinding"} /\ digest /\ counted > 0 =>
              source.content = "described"
        /\ pc \in Transfer /\ size > 0 =>
              /\ source.length = start + size
              /\ position = start + size - remaining
                                + (IF pc = "sending" THEN ChunkLength ELSE 0)
        /\ Len(wire) = index + 2 /\ size > 0 => position = source.length

IndInv ==
    /\ TypeOK /\ PlanInv /\ WireInv /\ SourceInv
    /\ StableSourceSuffices /\ TooManyOnlyIfNeeded

-----------------------------------------------------------------------------
(* artifact_plan.                                                          *)

USE SizesAssumption, MaximaAssumption, WidthAssumption

\* The minimum of two numbers.
LEMMA MinOfTwo ==
    ASSUME NEW a \in Nat, NEW b \in Nat
    PROVE  Min({a, b}) = IF a <= b THEN a ELSE b
<1>1. PICK m \in {a, b} : \A y \in {a, b} : m =< y
  <2>1. CASE a <= b BY <2>1
  <2>2. CASE b <= a BY <2>2
  <2> QED BY <2>1, <2>2
<1>2. Min({a, b}) \in {a, b} /\ \A y \in {a, b} : Min({a, b}) =< y BY <1>1 DEF Min
<1> QED BY <1>2

\* No chunk is empty, above the limit of the host or larger than the buffer.
LEMMA ChunkBytesFacts ==
    ASSUME maximum \in Maxima
    PROVE  /\ ChunkBytes \in Nat \ {0}
           /\ ChunkBytes <= maximum /\ ChunkBytes <= BufferBytes /\ maximum \in Nat
<1>1. maximum \in Nat \ {0} OBVIOUS
<1> QED BY <1>1, MinOfTwo DEF ChunkBytes

\* A length without its first chunk makes one chunk less.
LEMMA CountFacts ==
    ASSUME maximum \in Maxima, NEW n \in Nat
    PROVE  /\ Count(n) \in Nat
           /\ Count(n) = 0 <=> n = 0
           /\ n > 0 => /\ Min({n, ChunkBytes}) \in 1..ChunkBytes
                       /\ Min({n, ChunkBytes}) <= n
                       /\ Count(n - Min({n, ChunkBytes})) = Count(n) - 1
<1>1. PICK b : b = ChunkBytes OBVIOUS
<1>2. b \in Nat \ {0} BY <1>1, ChunkBytesFacts
<1>3. \A k \in Nat : k \div b \in Nat BY <1>2
<1>4. \A k \in Nat : (k + b) \div b = (k \div b) + 1 BY <1>2
<1>5. \A k \in Nat : k < b => k \div b = 0 BY <1>2
<1>6. \A k \in Nat : Count(k) = IF k = 0 THEN 0 ELSE (k + b - 1) \div b
  BY <1>1 DEF Count
<1>7. CASE n = 0 BY <1>6, <1>7
<1>8. CASE n # 0
  <2>1. PICK k \in Nat : n = k + 1
    <3>1. n - 1 \in Nat /\ n = (n - 1) + 1 BY <1>8
    <3> QED BY <3>1
  <2>2. n + b - 1 = k + b BY <1>2, <2>1
  <2>3. Count(n) = (k \div b) + 1 BY <1>4, <1>6, <1>8, <2>1, <2>2
  <2>4. k \div b \in Nat BY <1>3
  <2>5. Min({n, b}) = IF n <= b THEN n ELSE b BY <1>2, MinOfTwo
  <2>6. CASE n <= b
    <3>1. n - Min({n, b}) = 0 BY <2>5, <2>6
    <3>2. k < b BY <1>2, <2>1, <2>6
    <3>3. k \div b = 0 BY <1>5, <3>2
    <3>4. Count(n - Min({n, b})) = 0 BY <1>6, <3>1
    <3>5. Min({n, b}) \in 1..b /\ Min({n, b}) <= n BY <1>2, <1>8, <2>5, <2>6
    <3> QED BY <1>1, <1>8, <2>3, <3>3, <3>4, <3>5
  <2>7. CASE ~(n <= b)
    <3>1. PICK r \in Nat : k = r + b
      <4>1. k - b \in Nat /\ k = (k - b) + b BY <1>2, <2>1, <2>7
      <4> QED BY <4>1
    <3>2. n - Min({n, b}) = r + 1 BY <1>2, <2>1, <2>5, <2>7, <3>1
    <3>3. (r + 1) + b - 1 = r + b BY <1>2
    <3>4. Count(r + 1) = (r \div b) + 1 BY <1>4, <1>6, <3>3
    <3>5. k \div b = (r \div b) + 1 BY <1>4, <3>1
    <3>6. r \div b \in Nat BY <1>3
    <3>7. Min({n, b}) \in 1..b /\ Min({n, b}) <= n BY <1>2, <2>5, <2>7
    <3> QED BY <1>1, <1>8, <2>3, <3>2, <3>4, <3>5, <3>6, <3>7
  <2> QED BY <2>6, <2>7
<1> QED BY <1>7, <1>8

\* What cannot be planned has too many chunks.
LEMMA PlannableFacts ==
    ASSUME maximum \in Maxima, NEW n \in Nat, ~Plannable(n)
    PROVE  n > MaxU32 * ChunkBytes
<1>1. PICK b : b = ChunkBytes OBVIOUS
<1>2. b \in Nat \ {0} /\ b <= BufferBytes BY <1>1, ChunkBytesFacts
<1>3. PICK p \in Nat : p = MaxU32 * b BY <1>2
<1>4. (MaxU32 + 1) * b = p + b BY <1>2, <1>3
<1>5. (MaxU32 + 1) * b <= (MaxU32 + 1) * BufferBytes BY <1>2
<1>6. CASE n > 0 /\ n + b - 1 > MaxU64
  <2>1. (MaxU32 + 1) * BufferBytes \in Nat OBVIOUS
  <2>2. p + b <= MaxU64 BY <1>2, <1>4, <1>5, <2>1
  <2> QED BY <1>1, <1>2, <1>3, <1>6, <2>2
<1>7. CASE Count(n) > MaxU32
  <2>1. n # 0 BY <1>7 DEF Count
  <2>2. n + b - 1 \in Nat BY <1>2, <2>1
  <2>3. Count(n) = (n + b - 1) \div b BY <1>1, <2>1 DEF Count
  <2>4. PICK q \in Nat : q = (n + b - 1) \div b BY <1>2, <2>2
  <2>5. b * q <= n + b - 1 BY <1>2, <2>2, <2>4
  <2>6. q >= MaxU32 + 1 BY <1>7, <2>3, <2>4
  <2>7. b * (MaxU32 + 1) <= b * q BY <1>2, <2>6
  <2>8. b * (MaxU32 + 1) = p + b BY <1>2, <1>3
  <2>9. b * q \in Nat BY <1>2
  <2>10. p + b <= n + b - 1 BY <1>2, <2>2, <2>5, <2>7, <2>8, <2>9
  <2> QED BY <1>1, <1>2, <1>3, <2>10
<1>8. Count(n) \in Nat BY CountFacts
<1>9. (n > 0 /\ ~(n + b - 1 <= MaxU64)) \/ ~(Count(n) <= MaxU32) BY <1>1 DEF Plannable
<1> QED BY <1>2, <1>6, <1>7, <1>8, <1>9

-----------------------------------------------------------------------------
(* Every step keeps the invariant.                                         *)

\* Every initial state satisfies it.
LEMMA InitInv == Init => IndInv
<1> SUFFICES ASSUME Init PROVE IndInv OBVIOUS
<1>1. TypeOK
  <2>1. wire \in Seq([kind : {"Start", "Chunk", "Complete"},
                      number : 0..MaxU32, length : 0..BufferBytes])
    BY DEF Init
  <2>2. source \in [length : Nat, content : Contents]
    BY DEF Init, Contents
  <2>3. 0 \in 0..MaxU64 /\ 0 \in 0..MaxU32 OBVIOUS
  <2>4. outcome \in Outcomes /\ mid \in BOOLEAN /\ digest \in BOOLEAN /\ modified \in BOOLEAN
    BY DEF Init, Outcomes
  <2> QED BY <2>1, <2>2, <2>3, <2>4 DEF Init, TypeOK
<1>2. PlanInv /\ WireInv /\ SourceInv BY DEF Init, PlanInv, WireInv, SourceInv, Transfer
<1> QED BY <1>1, <1>2 DEF IndInv, Init, StableSourceSuffices, TooManyOnlyIfNeeded

\* A step that only concerns the token or the host.
LEMMA FrameInv ==
    ASSUME IndInv, TypeOK',
           UNCHANGED <<maximum, pc, size, sourceVars, checkVars, sendVars, outcome, wire>>
    PROVE  IndInv'
<1> USE DEF IndInv, sourceVars, checkVars, sendVars
<1>1. ChunkBytes' = ChunkBytes /\ ChunkLength' = ChunkLength BY DEF ChunkBytes, ChunkLength
<1>2. PlanInv' BY <1>1 DEF PlanInv, Count
<1>3. WireInv' BY <1>1 DEF WireInv
<1>4. SourceInv' BY <1>1 DEF SourceInv
<1>5. StableSourceSuffices' /\ TooManyOnlyIfNeeded'
  BY <1>1 DEF StableSourceSuffices, TooManyOnlyIfNeeded
<1> QED BY <1>2, <1>3, <1>4, <1>5

\* The call returns.
LEMMA ReturnInv ==
    ASSUME IndInv, TypeOK', NEW r, pc \in Awaiting, pc' = "returned", outcome' = r,
           UNCHANGED <<maximum, size, sourceVars, checkVars, sendVars, wire>>,
           r = "truncated" => modified,
           r = "too_many" => size > MaxU32 * ChunkBytes
    PROVE  IndInv'
<1> USE DEF IndInv, sourceVars, checkVars, sendVars
<1>1. ChunkBytes' = ChunkBytes BY DEF ChunkBytes
<1>2. PlanInv' BY DEF PlanInv, Transfer
<1>3. WireInv' BY <1>1 DEF WireInv
<1>4. SourceInv' BY DEF SourceInv, Transfer, Awaiting
<1>5. StableSourceSuffices' /\ TooManyOnlyIfNeeded'
  BY <1>1 DEF StableSourceSuffices, TooManyOnlyIfNeeded
<1> QED BY <1>2, <1>3, <1>4, <1>5

\* What a poll that proceeds leaves alone.
LEMMA ProceedFacts ==
    ASSUME TypeOK, NEW from, NEW to, Proceed(from, to)
    PROVE  /\ pc = from /\ pc' = to /\ mid' \in BOOLEAN
           /\ UNCHANGED <<maximum, token, size>>
           /\ maximum \in Maxima /\ ChunkBytes' = ChunkBytes
BY DEF TypeOK, Proceed, ChunkBytes

\* Every way in which the call returns from an await.
LEMMA ProceedReturningInv ==
    ASSUME IndInv, NEW from \in Awaiting, NEW r \in Outcomes, ProceedReturning(from, r),
           r = "truncated" => modified,
           r = "too_many" => size > MaxU32 * ChunkBytes
    PROVE  IndInv'
<1>1. /\ pc = from /\ pc' = "returned" /\ mid' \in BOOLEAN
      /\ UNCHANGED <<maximum, token, size, sourceVars, checkVars, sendVars, hostVars>>
      /\ outcome' = r
  BY ProceedFacts DEF IndInv, ProceedReturning
<1>2. TypeOK' BY <1>1 DEF IndInv, TypeOK, sourceVars, checkVars, sendVars, hostVars
<1> QED BY <1>1, <1>2, ReturnInv DEF hostVars

\* The steps of the token and of the host, and those that change nothing.
LEMMA FrameActions ==
    ASSUME IndInv,
           \/ Suspend \/ EndToken \/ UNCHANGED vars
           \/ \E r \in {"same", "other"} : Respond(r)
    PROVE  IndInv'
<1> USE DEF sourceVars, checkVars, sendVars, hostVars, vars
<1>1. UNCHANGED <<maximum, pc, size, sourceVars, checkVars, sendVars, outcome, wire>>
  BY DEF Suspend, EndToken, Respond
<1>2. mid' \in BOOLEAN /\ token' \in {"ACTIVE", "ENDED"} /\ reply' \in {"none", "same", "other"}
  BY DEF IndInv, TypeOK, Suspend, EndToken, Respond
<1>3. TypeOK' BY <1>1, <1>2 DEF IndInv, TypeOK
<1> QED BY <1>1, <1>3, FrameInv

\* The call returns.
LEMMA ReturnActions ==
    ASSUME IndInv,
           \/ Mismatch \/ TooMany \/ Truncated \/ Stored \/ Fail \/ Cancelled
           \/ \E n \in 1..BufferBytes : ReadOverflow(n)
           \/ \E from \in {"accepting", "storing"} : Refused(from)
    PROVE  IndInv'
<1> USE DEF Awaiting, Outcomes
<1>1. CASE Mismatch BY <1>1, ProceedReturningInv DEF Mismatch
<1>2. CASE TooMany
  <2>1. maximum \in Maxima /\ size \in Nat BY DEF IndInv, TypeOK
  <2>2. size > MaxU32 * ChunkBytes BY <1>2, <2>1, PlannableFacts DEF TooMany
  <2> QED BY <1>2, <2>2, ProceedReturningInv DEF TooMany
<1>3. CASE Truncated
  <2>1. pc = "reading" BY <1>3 DEF Truncated, ProceedReturning, Proceed
  <2>2. /\ maximum \in Maxima /\ size \in Nat /\ remaining \in Nat /\ remaining <= size
        /\ index \in Nat /\ plan \in Nat /\ index < plan /\ Count(remaining) = plan - index
    BY <2>1 DEF IndInv, TypeOK, PlanInv, Transfer
  <2>3. Count(remaining) # 0 BY <2>2
  <2>4. remaining > 0 /\ ChunkLength \in Nat /\ ChunkLength <= remaining
    <3>1. remaining # 0 BY <2>2, <2>3, CountFacts
    <3>2. ChunkBytes \in Nat BY <2>2, ChunkBytesFacts
    <3> QED BY <2>2, <3>1, <3>2, MinOfTwo DEF ChunkLength
  <2>5. modified
    <3> SUFFICES ASSUME ~modified PROVE FALSE OBVIOUS
    <3>1. size > 0 BY <2>2, <2>4
    <3>2. /\ source.length = start + size /\ position = start + size - remaining + 0
          /\ start \in Nat
      BY <2>1, <3>1 DEF IndInv, SourceInv, TypeOK, Transfer
    <3>3. position + ChunkLength > source.length BY <1>3 DEF Truncated
    <3> QED BY <2>2, <2>4, <3>2, <3>3
  <2> QED BY <1>3, <2>5, ProceedReturningInv DEF Truncated
<1>4. CASE Stored BY <1>4, ProceedReturningInv DEF Stored
<1>5. CASE Fail BY <1>5, ProceedReturningInv DEF Fail
<1>6. CASE Cancelled
  <2>1. TypeOK'
    BY <1>6 DEF IndInv, TypeOK, Cancelled, sourceVars, checkVars, sendVars, hostVars
  <2> QED BY <1>6, <2>1, ReturnInv DEF Cancelled, hostVars
<1>7. ASSUME NEW n \in 1..BufferBytes, ReadOverflow(n) PROVE IndInv'
  BY <1>7, ProceedReturningInv DEF ReadOverflow
<1>8. ASSUME NEW from \in {"accepting", "storing"}, Refused(from) PROVE IndInv'
  BY <1>8, ProceedReturningInv DEF Refused
<1> QED BY <1>1, <1>2, <1>3, <1>4, <1>5, <1>6, <1>7, <1>8

\* The descriptor and the source of the call are known.
LEMMA StoreInv ==
    ASSUME IndInv, NEW n \in Sizes, NEW p \in Starts, NEW src \in Sources(n, p), Store(n, src, p)
    PROVE  IndInv'
<1> USE DEF IndInv
<1>1. /\ pc = "idle" /\ pc' = "locating" /\ size' = n /\ source' = src /\ position' = p
      /\ UNCHANGED <<maximum, token, mid, modified, start, counted, digest, plan, index,
                     remaining, outcome, reply, wire>>
  BY DEF Store, checkVars, sendVars, hostVars
<1>2. n \in 0..MaxU64 /\ n \in Nat /\ p \in Nat OBVIOUS
<1>3. /\ src \in [length : Nat, content : Contents]
      /\ src.content = "described" => src.length = p + n
  <2>1. PICK l \in Nat : l = p + n BY <1>2
  <2>2. src = [length |-> l, content |-> "described"] \/ src \in [length : Lengths, content : {"other"}]
    BY <2>1 DEF Sources
  <2>3. CASE src = [length |-> l, content |-> "described"] BY <2>1, <2>3 DEF Contents
  <2>4. CASE src \in [length : Lengths, content : {"other"}] BY <2>4 DEF Contents
  <2> QED BY <2>2, <2>3, <2>4
<1>4. TypeOK' BY <1>1, <1>2, <1>3 DEF TypeOK, Awaiting
<1>5. counted = 0 /\ remaining = 0 /\ outcome = "none" /\ wire = <<>>
  BY <1>1 DEF PlanInv, WireInv
<1>6. PlanInv' BY <1>1, <1>2, <1>5 DEF PlanInv, Transfer
<1>7. WireInv' BY <1>1, <1>5 DEF WireInv
<1>8. SourceInv'
  <2>1. Len(wire) # index + 2 BY <1>5 DEF TypeOK
  <2> QED BY <1>1, <1>3, <2>1 DEF SourceInv, Transfer
<1> QED BY <1>1, <1>4, <1>5, <1>6, <1>7, <1>8 DEF StableSourceSuffices, TooManyOnlyIfNeeded

\* The position of the source is known.
LEMMA LocateInv == ASSUME IndInv, Locate PROVE IndInv'
<1> USE DEF IndInv
<1>1. /\ pc = "locating" /\ pc' = "validating" /\ mid' = FALSE /\ start' = position
      /\ UNCHANGED <<maximum, token, size, source, position, modified, counted, digest, plan,
                     index, remaining, outcome, reply, wire>>
  BY DEF Locate, Proceed, sourceVars, sendVars, hostVars
<1>2. counted = 0 /\ remaining = 0 /\ outcome = "none" /\ wire = <<>>
  BY <1>1 DEF PlanInv, WireInv
<1>3. TypeOK' BY <1>1 DEF TypeOK, Awaiting
<1>4. PlanInv' BY <1>1, <1>2 DEF PlanInv, Transfer
<1>5. WireInv' BY <1>1, <1>2 DEF WireInv
<1>6. SourceInv'
  <2>1. Len(wire) # index + 2 BY <1>2 DEF TypeOK
  <2> QED BY <1>1, <1>2, <2>1 DEF SourceInv, Transfer
<1> QED BY <1>1, <1>2, <1>3, <1>4, <1>5, <1>6 DEF StableSourceSuffices, TooManyOnlyIfNeeded

\* The owner of the source changes it.
LEMMA ModifyInv == ASSUME IndInv, NEW l \in Lengths, Modify(l) PROVE IndInv'
<1> USE DEF IndInv
<1>1. /\ modified' = TRUE /\ source' = [length |-> l, content |-> "other"]
      /\ UNCHANGED <<maximum, token, mid, pc, size, position, start, counted, digest, plan, index,
                     remaining, outcome, reply, wire>>
  BY DEF Modify, checkVars, sendVars, hostVars
<1>2. source' \in [length : Nat, content : Contents]
  BY <1>1 DEF Contents
<1>3. TypeOK' BY <1>1, <1>2 DEF TypeOK
<1>4. ChunkBytes' = ChunkBytes BY <1>1 DEF ChunkBytes
<1>5. PlanInv' BY <1>1, <1>4 DEF PlanInv, Count
<1>6. WireInv' BY <1>1, <1>4 DEF WireInv
<1> QED BY <1>1, <1>3, <1>4, <1>5, <1>6 DEF SourceInv, StableSourceSuffices, TooManyOnlyIfNeeded

\* The first pass reads on or ends.
LEMMA ValidateInv ==
    ASSUME IndInv, ReadEnd \/ \E n \in 1..BufferBytes : ReadSome(n)
    PROVE  IndInv'
<1> USE DEF IndInv
<1>1. /\ pc = "validating" /\ pc' \in {"validating", "rewinding"} /\ mid' = FALSE
      /\ UNCHANGED <<maximum, token, size, source, modified, start, plan, index, remaining, outcome,
                     reply, wire>>
  BY DEF ReadEnd, ReadSome, Proceed, sourceVars, checkVars, sendVars, hostVars
<1>2. /\ position' \in Nat /\ counted' \in 0..MaxU64 /\ digest' \in BOOLEAN
      /\ (digest' /\ counted' > 0) =>
              (source.content = "described" \/ (digest /\ counted > 0))
  <2>1. CASE ReadEnd BY <2>1 DEF ReadEnd, TypeOK, sourceVars, checkVars
  <2>2. ASSUME NEW n \in 1..BufferBytes, ReadSome(n)
        PROVE  /\ position' \in Nat /\ counted' \in 0..MaxU64 /\ digest' \in BOOLEAN
               /\ digest' => source.content = "described"
    <3>1. position' = position + n /\ counted' = counted + n /\ counted + n <= MaxU64
      BY <2>2 DEF ReadSome
    <3>2. position' \in Nat /\ counted' \in 0..MaxU64 BY <3>1 DEF TypeOK
    <3>3. digest' = (digest /\ source.content = "described") BY <2>2 DEF ReadSome
    <3> QED BY <3>2, <3>3
  <2> QED BY <2>1, <2>2
<1>3. TypeOK' BY <1>1, <1>2 DEF TypeOK, Awaiting
<1>4. PlanInv' BY <1>1 DEF PlanInv, Transfer
<1>5. wire = <<>> /\ outcome = "none" BY <1>1 DEF WireInv, PlanInv
<1>6. WireInv' BY <1>1, <1>5 DEF WireInv
<1>7. SourceInv'
  <2>1. Len(wire) # index + 2 BY <1>5 DEF TypeOK
  <2> QED BY <1>1, <1>2, <2>1 DEF SourceInv, Transfer
<1> QED BY <1>1, <1>3, <1>4, <1>5, <1>6, <1>7 DEF StableSourceSuffices, TooManyOnlyIfNeeded

\* The transfer is planned.
LEMMA RewindInv == ASSUME IndInv, Rewind PROVE IndInv'
<1> USE DEF IndInv
<1>1. /\ pc = "rewinding" /\ pc' = "starting" /\ mid' = FALSE
      /\ counted = size /\ digest /\ Plannable(size)
      /\ position' = start /\ plan' = Count(size) /\ index' = 0 /\ remaining' = size
      /\ UNCHANGED <<maximum, token, size, source, modified, start, counted, digest, outcome,
                     reply, wire>>
  BY DEF Rewind, Proceed, checkVars, hostVars
<1>2. maximum \in Maxima /\ size \in 0..MaxU64 /\ size \in Nat BY DEF TypeOK
<1>3. Count(size) \in Nat BY <1>2, CountFacts
<1>4. Count(size) \in 0..MaxU32 BY <1>1, <1>3 DEF Plannable
<1>5. TypeOK'
  <2>1. pc' \in Awaiting \cup {"idle", "returned"} BY <1>1 DEF Awaiting
  <2>2. 0 \in 0..MaxU32 /\ start \in Nat BY DEF TypeOK
  <2>3. mid' \in BOOLEAN /\ digest' \in BOOLEAN BY <1>1 DEF TypeOK
  <2> QED BY <1>1, <1>2, <1>4, <2>1, <2>2, <2>3 DEF TypeOK
<1>6. wire = <<>> /\ outcome = "none" BY <1>1 DEF WireInv, PlanInv
<1>7. PlanInv'
  <2>1. Count(remaining)' = Count(size) BY <1>1 DEF Count, ChunkBytes
  <2> QED BY <1>1, <1>2, <1>3, <1>6, <2>1 DEF PlanInv
<1>8. WireInv' BY <1>1, <1>6 DEF WireInv
<1>9. SourceInv'
  <2>1. ~modified /\ size > 0 => source.length = start + size BY <1>1 DEF SourceInv
  <2>2. start = start + size - size + 0 BY <1>2 DEF TypeOK
  <2>3. Len(wire) # 0 + 2 BY <1>6
  <2> QED BY <1>1, <1>2, <2>1, <2>2, <2>3 DEF SourceInv, Transfer
<1> QED BY <1>1, <1>5, <1>6, <1>7, <1>8, <1>9 DEF StableSourceSuffices, TooManyOnlyIfNeeded

\* One more envelope of the transfer.
LEMMA PutFacts ==
    ASSUME IndInv, NEW k \in {"Start", "Chunk", "Complete"}, NEW n \in 0..MaxU32,
           NEW l \in 0..BufferBytes, Put(k, n, l)
    PROVE  /\ wire' \in Seq([kind : {"Start", "Chunk", "Complete"},
                              number : 0..MaxU32, length : 0..BufferBytes])
           /\ Len(wire) \in Nat /\ Len(wire') = Len(wire) + 1 /\ wire' # <<>>
           /\ \A i \in 1..Len(wire) : wire'[i] = wire[i]
           /\ wire'[Len(wire) + 1].kind = k /\ wire'[Len(wire) + 1].number = n
           /\ wire'[Len(wire) + 1].length = l
           /\ UNCHANGED <<source, position, modified, start, counted, digest, outcome, reply>>
<1>1. PICK W, e : /\ W = [kind : {"Start", "Chunk", "Complete"},
                          number : 0..MaxU32, length : 0..BufferBytes]
                  /\ e = [kind |-> k, number |-> n, length |-> l]
  OBVIOUS
<1>2. e \in W /\ e.kind = k /\ e.number = n /\ e.length = l BY <1>1
<1>3. wire \in Seq(W) /\ wire' = Append(wire, e) BY <1>1 DEF IndInv, TypeOK, Put
<1>4. /\ wire' \in Seq(W) /\ Len(wire) \in Nat /\ Len(wire') = Len(wire) + 1
      /\ \A i \in 1..Len(wire) : wire'[i] = wire[i]
      /\ wire'[Len(wire) + 1] = e
  BY <1>2, <1>3
<1>5. wire' # <<>> BY <1>4
<1>6. UNCHANGED <<source, position, modified, start, counted, digest, outcome, reply>>
  BY DEF Put, sourceVars, checkVars
<1> QED BY <1>1, <1>2, <1>4, <1>5, <1>6

\* The transfer is announced.
LEMMA SendStartInv == ASSUME IndInv, SendStart PROVE IndInv'
<1> USE DEF IndInv
<1>1. /\ pc = "starting" /\ pc' = "accepting" /\ mid' = FALSE
      /\ UNCHANGED <<maximum, token, size, plan, index, remaining>>
      /\ Put("Start", plan, 0)
  BY DEF SendStart, Proceed, sendVars
<1>2. /\ wire = <<>> /\ index = 0 /\ outcome = "none" /\ plan \in 0..MaxU32 /\ 0 \in 0..BufferBytes
      /\ size \in Nat /\ remaining \in Nat /\ maximum \in Maxima
      /\ remaining = size
  BY <1>1 DEF WireInv, PlanInv, TypeOK, Transfer
<1>3. /\ wire' \in Seq([kind : {"Start", "Chunk", "Complete"},
                         number : 0..MaxU32, length : 0..BufferBytes])
      /\ Len(wire') = 1 /\ wire'[1].kind = "Start" /\ wire'[1].number = plan
      /\ UNCHANGED <<source, position, modified, start, counted, digest, outcome, reply>>
  <2>1. Len(wire) = 0 BY <1>2
  <2>2. /\ wire' \in Seq([kind : {"Start", "Chunk", "Complete"},
                           number : 0..MaxU32, length : 0..BufferBytes])
        /\ Len(wire') = Len(wire) + 1
        /\ wire'[Len(wire) + 1].kind = "Start" /\ wire'[Len(wire) + 1].number = plan
        /\ UNCHANGED <<source, position, modified, start, counted, digest, outcome, reply>>
    BY <1>1, <1>2, PutFacts
  <2> QED BY <2>1, <2>2
<1>4. ChunkBytes' = ChunkBytes BY <1>1 DEF ChunkBytes
<1>5. TypeOK' BY <1>1, <1>3 DEF TypeOK, Awaiting
<1>6. PlanInv' BY <1>1, <1>3, <1>4 DEF PlanInv, Transfer, Count
<1>7. WireInv'
  <2>1. 2..(index' + 1) = {} BY <1>1, <1>2
  <2>2. Total(wire', 2..(index' + 1)) = size' - remaining'
    BY <1>1, <1>2, <2>1, TotalEmpty
  <2> QED BY <1>1, <1>2, <1>3, <2>1, <2>2 DEF WireInv
<1>8. SourceInv'
  <2>1. Len(wire') # index' + 2 BY <1>1, <1>2, <1>3
  <2> QED BY <1>1, <1>3, <2>1 DEF SourceInv, Transfer
<1> QED BY <1>1, <1>2, <1>3, <1>5, <1>6, <1>7, <1>8 DEF StableSourceSuffices, TooManyOnlyIfNeeded

\* The loop over the chunks begins, or reads the next chunk.
LEMMA ReadInv == ASSUME IndInv, Accepted \/ ReadChunk PROVE IndInv'
<1> USE DEF IndInv
<1>1. CASE Accepted
  <2>1. /\ pc = "accepting" /\ pc' = NextChunk(0) /\ mid' = FALSE /\ reply' = "none"
        /\ UNCHANGED <<maximum, token, size, source, position, modified, start, counted,
                       digest, plan, index, remaining, outcome, wire>>
    BY <1>1 DEF Accepted, Proceed, sourceVars, checkVars, sendVars
  <2>2. /\ index = 0 /\ remaining = size /\ plan \in Nat /\ index <= plan
        /\ Count(remaining) = plan - index /\ Len(wire) = index + 1 /\ outcome = "none"
    BY <2>1 DEF PlanInv, WireInv, TypeOK, Transfer
  <2>3. /\ pc' \in {"reading", "completing"}
        /\ pc' = "reading" => index < plan
        /\ pc' = "completing" => index = plan
    BY <2>1, <2>2 DEF NextChunk
  <2>4. ChunkBytes' = ChunkBytes BY <2>1 DEF ChunkBytes
  <2>5. TypeOK' BY <2>1, <2>3 DEF TypeOK, Awaiting
  <2>6. PlanInv' BY <2>1, <2>2, <2>3, <2>4 DEF PlanInv, Transfer, Count
  <2>7. WireInv' BY <2>1, <2>2, <2>3, <2>4 DEF WireInv
  <2>8. SourceInv' BY <2>1, <2>3 DEF SourceInv, Transfer
  <2> QED BY <2>1, <2>2, <2>5, <2>6, <2>7, <2>8 DEF StableSourceSuffices, TooManyOnlyIfNeeded
<1>2. CASE ReadChunk
  <2>1. /\ pc = "reading" /\ pc' = "sending" /\ mid' = FALSE
        /\ position' = position + ChunkLength
        /\ UNCHANGED <<maximum, token, size, source, modified, start, counted, digest,
                       plan, index, remaining, outcome, reply, wire>>
    BY <1>2 DEF ReadChunk, Proceed, checkVars, sendVars, hostVars
  <2>2. /\ maximum \in Maxima /\ remaining \in Nat /\ size \in Nat /\ position \in Nat
        /\ outcome = "none" /\ index < plan
    BY <2>1 DEF PlanInv, TypeOK
  <2>3. ChunkBytes' = ChunkBytes /\ ChunkLength' = ChunkLength
    BY <2>1 DEF ChunkBytes, ChunkLength
  <2>4. ChunkLength \in Nat
    <3>1. ChunkBytes \in Nat BY <2>2, ChunkBytesFacts
    <3> QED BY <2>2, <3>1, MinOfTwo DEF ChunkLength
  <2>5. position' \in Nat BY <2>1, <2>2, <2>4
  <2>6. TypeOK' BY <2>1, <2>5 DEF TypeOK, Awaiting
  <2>7. PlanInv' BY <2>1, <2>2, <2>3 DEF PlanInv, Transfer, Count
  <2>8. WireInv' BY <2>1, <2>3 DEF WireInv
  <2>9. SourceInv'
    <3>1. Len(wire) # index + 2 BY <2>1 DEF WireInv, TypeOK
    <3> QED BY <2>1, <2>2, <2>3, <2>4, <3>1 DEF SourceInv, TypeOK, Transfer
  <2> QED BY <2>1, <2>2, <2>6, <2>7, <2>8, <2>9 DEF StableSourceSuffices, TooManyOnlyIfNeeded
<1> QED BY <1>1, <1>2

\* A chunk is sent: it is what the plan counts next.
LEMMA SendChunkInv == ASSUME IndInv, SendChunk PROVE IndInv'
<1> USE DEF IndInv
<1>0. PICK l, b : l = ChunkLength /\ b = ChunkBytes OBVIOUS
<1>1. /\ pc = "sending" /\ pc' = NextChunk(index + 1) /\ mid' = FALSE
      /\ index' = index + 1 /\ remaining' = remaining - l
      /\ UNCHANGED <<maximum, token, size, plan>>
      /\ Put("Chunk", index, l)
  BY <1>0 DEF SendChunk, Proceed
<1>2. /\ maximum \in Maxima /\ remaining \in 0..MaxU64 /\ remaining \in Nat /\ size \in Nat
      /\ index \in 0..MaxU32 /\ index \in Nat /\ plan \in 0..MaxU32 /\ plan \in Nat /\ position \in Nat
      /\ outcome = "none" /\ index < plan /\ remaining <= size
      /\ Count(remaining) = plan - index /\ Len(wire) = index + 1
  BY <1>1 DEF PlanInv, WireInv, TypeOK, Transfer
<1>3. b \in Nat \ {0} /\ b <= BufferBytes BY <1>0, <1>2, ChunkBytesFacts
<1>4. remaining > 0
  <2>1. Count(remaining) # 0 BY <1>2
  <2>2. remaining # 0 BY <1>2, <2>1, CountFacts
  <2> QED BY <1>2, <2>2
<1>5. /\ l \in 1..b /\ l <= remaining /\ Count(remaining - l) = Count(remaining) - 1
  BY <1>0, <1>2, <1>4, CountFacts DEF ChunkLength
<1>6. l \in 0..BufferBytes /\ l \in Nat /\ l > 0 BY <1>3, <1>5
<1>7. /\ wire' \in Seq([kind : {"Start", "Chunk", "Complete"},
                         number : 0..MaxU32, length : 0..BufferBytes])
      /\ Len(wire) \in Nat /\ Len(wire') = Len(wire) + 1 /\ wire' # <<>>
      /\ \A i \in 1..Len(wire) : wire'[i] = wire[i]
      /\ wire'[Len(wire) + 1].kind = "Chunk" /\ wire'[Len(wire) + 1].number = index
      /\ wire'[Len(wire) + 1].length = l
      /\ UNCHANGED <<source, position, modified, start, counted, digest, outcome, reply>>
  BY <1>1, <1>2, <1>6, PutFacts
<1>8. ChunkBytes' = b BY <1>0, <1>1 DEF ChunkBytes
<1>9. /\ pc' \in {"reading", "completing"}
      /\ pc' = "reading" => index' < plan
      /\ pc' = "completing" => index' = plan
  BY <1>1, <1>2 DEF NextChunk
<1>10. remaining' \in 0..MaxU64 /\ remaining' <= size /\ index' \in 0..MaxU32
  BY <1>1, <1>2, <1>5, <1>6
<1>11. TypeOK' BY <1>1, <1>7, <1>9, <1>10 DEF TypeOK, Awaiting
<1>12. Count(remaining)' = plan - index'
  <2>1. Count(remaining)' = Count(remaining - l) BY <1>0, <1>1, <1>8 DEF Count
  <2> QED BY <1>1, <1>2, <1>5, <2>1
<1>13. PlanInv'
  <2>1. index' <= plan BY <1>1, <1>2
  <2> QED BY <1>1, <1>2, <1>7, <1>9, <1>10, <1>12, <2>1 DEF PlanInv
<1>14. wire # <<>> BY <1>2
<1>15. WireInv'
  <2>1. PICK S, z : S = 2..(index + 1) /\ z = index + 2 OBVIOUS
  <2>2. z \in Nat /\ z \notin S /\ 2..(index' + 1) = S \cup {z} /\ (S \cup {z}) \ {z} = S
    BY <1>1, <1>2, <2>1
  <2>3. \A i \in S : /\ i \in 1..Len(wire) /\ wire'[i] = wire[i]
                     /\ wire[i].kind = "Chunk" /\ wire[i].number = i - 2
                     /\ wire[i].length \in 1..b
    <3>1. \A i \in S : i \in 1..Len(wire) BY <1>2, <2>1
    <3> QED BY <1>0, <1>7, <1>14, <2>1, <3>1 DEF WireInv
  <2>4. wire'[z].kind = "Chunk" /\ wire'[z].number = z - 2 /\ wire'[z].length = l
    BY <1>2, <1>7, <2>1
  <2>5. wire'[1] = wire[1] /\ wire[1].kind = "Start" /\ wire[1].number = plan
    <3>1. 1 \in 1..Len(wire) BY <1>2
    <3> QED BY <1>7, <1>14, <3>1 DEF WireInv
  <2>6. IsFiniteSet(S) /\ IsFiniteSet(S \cup {z})
    <3>1. IsFiniteSet(S) BY <1>2, <2>1, FS_Interval
    <3> QED BY <3>1, FS_AddElement
  <2>7. \A i \in S \cup {z} : wire'[i].length \in Nat BY <1>3, <1>6, <2>3, <2>4
  <2>8. Total(wire', S) \in Nat /\ Total(wire', S \cup {z}) = l + Total(wire', S)
    <3>1. PICK U, w : U = S \cup {z} /\ w = wire' OBVIOUS
    <3>2. IsFiniteSet(U) /\ z \in U /\ \A i \in U : w[i].length \in Nat BY <2>6, <2>7, <3>1
    <3>3. Total(w, U \ {z}) \in Nat /\ Total(w, U) = w[z].length + Total(w, U \ {z})
      BY ONLY <3>2, TotalAdd
    <3> QED BY <2>2, <2>4, <3>1, <3>3
  <2>9. Total(wire', S) = Total(wire, S) BY <2>3, <2>6, TotalSame
  <2>10. Total(wire, S) = size - remaining BY <1>14, <2>1 DEF WireInv
  <2>11. Total(wire', S \cup {z}) = size - remaining' BY <1>1, <1>2, <1>6, <2>8, <2>9, <2>10
  <2>12. Len(wire') = index' + 1 BY <1>1, <1>2, <1>7
  <2>13. \A i \in 2..(index' + 1) :
            /\ wire'[i].kind = "Chunk" /\ wire'[i].number = i - 2
            /\ wire'[i].length \in 1..b
    BY <1>5, <2>2, <2>3, <2>4
  <2>14. index' + 1 # index' + 2 BY <1>10
  <2> QED BY <1>1, <1>8, <1>9, <2>2, <2>5, <2>11, <2>12, <2>13, <2>14 DEF WireInv
<1>16. SourceInv'
  <2>1. ~modified /\ size > 0 => /\ source.length = start + size
                                 /\ position = start + size - remaining + l
    BY <1>0, <1>1 DEF SourceInv, Transfer
  <2>2. start + size - remaining + l = start + size - (remaining - l) + 0
    BY <1>2, <1>6 DEF TypeOK
  <2>3. Len(wire') # index' + 2 BY <1>1, <1>2, <1>7
  <2> QED BY <1>1, <1>7, <1>9, <2>1, <2>2, <2>3 DEF SourceInv, Transfer
<1> QED BY <1>1, <1>2, <1>7, <1>11, <1>13, <1>15, <1>16 DEF StableSourceSuffices, TooManyOnlyIfNeeded

\* The call asks the host to store the artifact.
LEMMA SendCompleteInv == ASSUME IndInv, SendComplete PROVE IndInv'
<1> USE DEF IndInv
<1>1. /\ pc = "completing" /\ pc' = "storing" /\ mid' = FALSE
      /\ UNCHANGED <<maximum, token, size, plan, index, remaining>>
      /\ Put("Complete", 0, 0)
  BY DEF SendComplete, Proceed, sendVars
<1>2. /\ index = plan /\ plan \in Nat /\ maximum \in Maxima /\ remaining \in Nat
      /\ Count(remaining) = plan - index /\ Len(wire) = index + 1 /\ outcome = "none"
      /\ 0 \in 0..MaxU32 /\ 0 \in 0..BufferBytes
  BY <1>1 DEF PlanInv, WireInv, TypeOK, Transfer
<1>3. remaining = 0
  <2>1. Count(remaining) = 0 BY <1>2
  <2> QED BY <1>2, <2>1, CountFacts
<1>4. /\ wire' \in Seq([kind : {"Start", "Chunk", "Complete"},
                         number : 0..MaxU32, length : 0..BufferBytes])
      /\ Len(wire) \in Nat /\ Len(wire') = Len(wire) + 1 /\ wire' # <<>>
      /\ \A i \in 1..Len(wire) : wire'[i] = wire[i]
      /\ wire'[Len(wire) + 1].kind = "Complete"
      /\ UNCHANGED <<source, position, modified, start, counted, digest, outcome, reply>>
  BY <1>1, <1>2, PutFacts
<1>5. ChunkBytes' = ChunkBytes BY <1>1 DEF ChunkBytes
<1>6. TypeOK' BY <1>1, <1>4 DEF TypeOK, Awaiting
<1>7. PlanInv' BY <1>1, <1>2, <1>4, <1>5 DEF PlanInv, Transfer, Count
<1>8. wire # <<>> BY <1>2
<1>9. WireInv'
  <2>0. PICK n, S, w, v : n = index /\ S = 2..(n + 1) /\ w = wire' /\ v = wire OBVIOUS
  <2>1. n \in Nat /\ Len(v) = n + 1 BY <1>2, <2>0
  <2>2. \A i \in S : i \in 1..Len(v) BY ONLY <2>0, <2>1
  <2>3. \A i \in S : w[i] = v[i] BY <1>4, <2>0, <2>2
  <2>4. IsFiniteSet(S)
    <3>1. 2 \in Int /\ n + 1 \in Int BY <2>1
    <3>2. IsFiniteSet(2..(n + 1)) BY ONLY <3>1, FS_Interval
    <3> QED BY <2>0, <3>2
  <2>5. Total(w, S) = Total(v, S) BY ONLY <2>3, <2>4, TotalSame
  <2>6. /\ v[1].kind = "Start" /\ v[1].number = plan /\ Total(v, S) = size - remaining
        /\ \A i \in S : /\ v[i].kind = "Chunk" /\ v[i].number = i - 2
                        /\ v[i].length \in 1..ChunkBytes
    BY <1>8, <2>0 DEF WireInv
  <2>7. w[1] = v[1] /\ w[n + 2].kind = "Complete" /\ Len(w) = n + 2
    <3>1. 1 \in 1..Len(v) /\ Len(v) + 1 = n + 2 BY ONLY <2>1
    <3> QED BY <1>4, <2>0, <3>1
  <2>8. index' = n /\ plan' = plan /\ index = plan /\ remaining' = 0 /\ size' = size
        /\ remaining = 0 /\ pc' = "storing" /\ wire' = w /\ wire' # <<>>
    BY <1>1, <1>2, <1>3, <1>4, <2>0
  <2>9. /\ wire'[1].kind = "Start" /\ wire'[1].number = plan'
        /\ \A i \in 2..(index' + 1) :
              /\ wire'[i].kind = "Chunk" /\ wire'[i].number = i - 2
              /\ wire'[i].length \in 1..(ChunkBytes')
        /\ Total(wire', 2..(index' + 1)) = size' - remaining'
    BY ONLY <1>5, <2>0, <2>3, <2>5, <2>6, <2>7, <2>8
  <2> QED BY ONLY <2>0, <2>7, <2>8, <2>9 DEF WireInv
<1>10. SourceInv'
  <2>1. ~modified /\ size > 0 => /\ source.length = start + size
                                 /\ position = start + size - remaining + 0
    BY <1>1 DEF SourceInv, Transfer
  <2>2. start + size - remaining + 0 = start + size BY <1>3 DEF TypeOK
  <2> QED BY <1>1, <1>4, <2>1, <2>2 DEF SourceInv, Transfer
<1> QED BY <1>1, <1>2, <1>4, <1>6, <1>7, <1>9, <1>10 DEF StableSourceSuffices, TooManyOnlyIfNeeded

\* Every step keeps the invariant.
LEMMA NextInv == ASSUME IndInv, [Next]_vars PROVE IndInv'
<1>1. ASSUME NEW n \in Sizes, NEW p \in Starts, NEW src \in Sources(n, p), Store(n, src, p)
      PROVE  IndInv'
  BY <1>1, StoreInv
<1>2. CASE Step
  BY <1>2, LocateInv, ValidateInv, RewindInv, ReturnActions, SendStartInv, ReadInv, SendChunkInv,
     SendCompleteInv
     DEF Step
<1>3. CASE Fail \/ Cancelled BY <1>3, ReturnActions
<1>4. CASE Suspend \/ EndToken \/ UNCHANGED vars BY <1>4, FrameActions
<1>5. ASSUME NEW r \in {"same", "other"}, Respond(r) PROVE IndInv' BY <1>5, FrameActions
<1>6. ASSUME NEW l \in Lengths, Modify(l) PROVE IndInv' BY <1>6, ModifyInv
<1>7. CASE Done BY <1>4, <1>7 DEF Done
<1> QED BY <1>1, <1>2, <1>3, <1>4, <1>5, <1>6, <1>7 DEF Next

\* The inductive invariant holds in every reachable state.
LEMMA Inductive == Spec => []IndInv
<1>1. IndInv /\ [Next]_vars => IndInv' BY NextInv
<1> QED BY InitInv, <1>1, PTL DEF Spec

-----------------------------------------------------------------------------
(* The properties.                                                         *)

\* No number of a transfer leaves its width: neither the size that validation
\* adds up, nor the number of chunks, nor the index of one.
THEOREM TypeCorrect == Spec => []TypeOK
<1>1. IndInv => TypeOK BY DEF IndInv
<1> QED BY <1>1, Inductive, PTL

\* A source that fits its descriptor and is left alone is long enough in the
\* second pass.
THEOREM ThmStableSourceSuffices == Spec => []StableSourceSuffices
<1>1. IndInv => StableSourceSuffices BY DEF IndInv
<1> QED BY <1>1, Inductive, PTL

\* An artifact is refused for its number of chunks only if that does not fit.
THEOREM ThmTooManyOnlyIfNeeded == Spec => []TooManyOnlyIfNeeded
<1>1. IndInv => TooManyOnlyIfNeeded BY DEF IndInv
<1> QED BY <1>1, Inductive, PTL

\* A transfer with a completion is complete.
LEMMA CompleteWire ==
    ASSUME IndInv, Of("Complete") # {}
    PROVE  wire # <<>> /\ Len(wire) = index + 2 /\ index = plan /\ remaining = 0
<1>1. wire # <<>>
  <2>1. wire = <<>> => 1..Len(wire) = {} OBVIOUS
  <2> QED BY <2>1 DEF Of
<1>2. index \in Nat BY DEF IndInv, TypeOK
<1>3. /\ Len(wire) = index + 1 \/ (Len(wire) = index + 2 /\ index = plan /\ remaining = 0)
      /\ wire[1].kind = "Start"
      /\ \A i \in 2..(index + 1) : wire[i].kind = "Chunk"
  BY <1>1 DEF IndInv, WireInv
<1>4. \A i \in 1..(index + 1) : i = 1 \/ i \in 2..(index + 1) BY <1>2
<1>5. \A i \in 1..(index + 1) : wire[i].kind # "Complete" BY <1>3, <1>4
<1>6. PICK i \in 1..Len(wire) : wire[i].kind = "Complete" BY DEF Of
<1> QED BY <1>1, <1>3, <1>5, <1>6

\* A completed transfer of a source left alone has sent the bytes from where the
\* caller has handed it over to its end.
THEOREM ThmDescribedBytesSent == Spec => []DescribedBytesSent
<1>1. IndInv => DescribedBytesSent BY CompleteWire DEF IndInv, SourceInv, DescribedBytesSent
<1> QED BY <1>1, Inductive, PTL

\* A completed transfer has the announced number of chunks, in order, none empty
\* or too large, and they add up to the announced size.
THEOREM ThmChunksExact == Spec => []ChunksExact
<1>1. ASSUME IndInv PROVE ChunksExact
  <2> SUFFICES ASSUME Of("Complete") # {}
               PROVE  /\ \A s \in Of("Start") : Cardinality(Of("Chunk")) = wire[s].number
                      /\ \A i \in Of("Chunk") :
                            /\ wire[i].number = Cardinality({k \in Of("Chunk") : k < i})
                            /\ wire[i].length \in 1..maximum
                      /\ Total(wire, Of("Chunk")) = size
    BY DEF ChunksExact, Total
  <2>1. /\ Len(wire) \in Nat /\ index \in Nat /\ plan \in Nat /\ size \in Nat
        /\ maximum \in Maxima
    BY <1>1 DEF IndInv, TypeOK
  <2>2. wire # <<>> /\ Len(wire) = index + 2 /\ index = plan /\ remaining = 0
    BY <1>1, CompleteWire
  <2>3. /\ wire[1].kind = "Start" /\ wire[1].number = plan
        /\ \A i \in 2..(index + 1) :
              /\ wire[i].kind = "Chunk" /\ wire[i].number = i - 2
              /\ wire[i].length \in 1..ChunkBytes
        /\ Len(wire) = index + 2 => wire[index + 2].kind = "Complete"
        /\ Total(wire, 2..(index + 1)) = size - remaining
    BY <1>1, <2>2 DEF IndInv, WireInv
  <2>4. Of("Chunk") = 2..(index + 1) /\ Of("Start") = {1}
    <3>1. \A i \in 1..Len(wire) : i = 1 \/ i \in 2..(index + 1) \/ i = index + 2
      BY <2>1, <2>2
    <3>2. 1 \in 1..Len(wire) /\ \A i \in 2..(index + 1) : i \in 1..Len(wire) BY <2>1, <2>2
    <3>3. ASSUME NEW i \in 1..Len(wire)
          PROVE  /\ wire[i].kind = "Chunk" <=> i \in 2..(index + 1)
                 /\ wire[i].kind = "Start" <=> i = 1
      <4>1. 1 \notin 2..(index + 1) /\ index + 2 \notin 2..(index + 1) /\ index + 2 # 1
        BY <2>1
      <4> QED BY <2>2, <2>3, <3>1, <4>1
    <3> QED BY <3>2, <3>3 DEF Of
  <2>5. \A n \in Nat : Cardinality(2..(n + 1)) = n
    <3> TAKE n \in Nat
    <3>1. Cardinality(2..(n + 1)) = IF 2 > n + 1 THEN 0 ELSE (n + 1) - 2 + 1 BY FS_Interval
    <3> QED BY <3>1
  <2>6. ASSUME NEW i \in Of("Chunk")
        PROVE  /\ wire[i].number = Cardinality({k \in Of("Chunk") : k < i})
               /\ wire[i].length \in 1..maximum
    <3>1. i \in 2..(index + 1) BY <2>4
    <3>2. {k \in Of("Chunk") : k < i} = 2..((i - 2) + 1) BY <2>1, <2>4, <3>1
    <3>3. i - 2 \in Nat BY <2>1, <3>1
    <3>4. ChunkBytes \in Nat /\ maximum \in Nat /\ ChunkBytes <= maximum
      BY <2>1, ChunkBytesFacts
    <3>5. wire[i].number = i - 2 /\ wire[i].length \in 1..ChunkBytes BY <2>3, <3>1
    <3>6. Cardinality(2..((i - 2) + 1)) = i - 2 BY <2>5, <3>3
    <3>7. wire[i].length \in 1..maximum BY <3>4, <3>5
    <3> QED BY <3>2, <3>5, <3>6, <3>7
  <2>7. \A s \in Of("Start") : Cardinality(Of("Chunk")) = wire[s].number
    BY <2>1, <2>2, <2>3, <2>4, <2>5
  <2>8. Total(wire, Of("Chunk")) = size BY <2>1, <2>2, <2>3, <2>4
  <2> QED BY <2>6, <2>7, <2>8
<1>2. IndInv => ChunksExact BY <1>1
<1> QED BY <1>2, Inductive, PTL
=============================================================================
