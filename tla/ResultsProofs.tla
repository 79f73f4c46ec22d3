---------------------------- MODULE ResultsProofs ----------------------------
(***************************************************************************)
(* The properties of Results.tla hold for every set of configuration       *)
(* values and artifacts: among them, that validate of value.rs accepts     *)
(* exactly the sound values, whatever their shape.                         *)
(***************************************************************************)
EXTENDS Results, FiniteSetTheorems, WellFoundedInduction, TLAPS

USE DepthAssumption, DomainAssumption

-----------------------------------------------------------------------------
(* The recursions of ConfigValue.tla.  What they compute is proved by      *)
(* induction, in the form of a least counterexample.                       *)

\* One step of the recursion of Validate.
Errors(v, bound, g, n, d) ==
    LET failing == {c \in Children(v, n) : g[d + 1][c] # {}}
    IN  IF d > MAXIMUM_VALUE_DEPTH THEN {"InvalidArgument"}
        ELSE CASE v[n].kind = "list" -> IF failing = {} THEN {} ELSE g[d + 1][Min(failing)]
               [] v[n].kind = "map" -> UNION {g[d + 1][c] : c \in failing}
               [] OTHER -> LeafErrors(v[n], bound)

Validates(v, bound, g) ==
    g = [d \in 0..MAXIMUM_VALUE_DEPTH + 1 |-> [n \in 1..Len(v) |-> Errors(v, bound, g, n, d)]]

\* The recursion of Sound.
Deepens(v, g) == g = [n \in 1..Len(v) |-> IF n = 1 THEN 0 ELSE g[v[n].parent] + 1]

\* What Sound asks of a node besides its depth.
NodeSound(v, bound, n) ==
    /\ v[n].kind \notin {"malformed", "unnamed", "foreign"}
    /\ v[n].kind = "own" => bound
    /\ v[n].kind \in {"timestamp", "duration"} => Canonical(v[n])

\* The least number of a set.
LEMMA LeastNat ==
    ASSUME NEW T \in SUBSET Nat, T # {}
    PROVE  \E n \in T : \A m \in T : n <= m
<1>1. PICK n \in T : \A m \in T : <<m, n>> \notin OpToRel(<, Nat)
  BY WFMin, NatLessThanWellFounded
<1>2. ASSUME NEW m \in T PROVE n <= m
  <2>1. n \in Nat /\ m \in Nat OBVIOUS
  <2>2. <<m, n>> \notin OpToRel(<, Nat) BY <1>1
  <2>3. m < n => <<m, n>> \in OpToRel(<, Nat) BY <2>1, Zenon DEF OpToRel
  <2>4. ~(m < n) BY <2>2, <2>3
  <2> QED BY <2>1, <2>4
<1> QED BY <1>2

\* Min of a set of numbers is one of them.
LEMMA MinInSet == ASSUME NEW T \in SUBSET Nat, T # {} PROVE Min(T) \in T
<1>1. \E n \in T : \A m \in T : n =< m BY LeastNat
<1> QED BY <1>1 DEF Min

\* What a tree says of its nodes.
LEMMA TreeFacts ==
    ASSUME NEW v, IsTree(v)
    PROVE  /\ Len(v) \in Nat /\ 1 \in 1..Len(v)
           /\ \A n \in 1..Len(v) :
                 /\ v[n] \in Nodes
                 /\ n # 1 => /\ v[n].parent \in 1..Len(v) /\ v[n].parent < n
                             /\ v[v[n].parent].kind \in {"list", "map"}
           /\ \A n \in 1..Len(v) : \A c \in Children(v, n) :
                 c \in 1..Len(v) /\ c # 1 /\ v[c].parent = n /\ n < c
<1>1. v \in Seq(Nodes) /\ Len(v) \in Nat /\ Len(v) > 0 BY DEF IsTree
<1>2. 1 \in 1..Len(v) BY <1>1
<1>3. \A n \in 1..Len(v) : v[n] \in Nodes BY <1>1
<1>4. ASSUME NEW n \in 1..Len(v), n # 1
      PROVE  /\ v[n].parent \in 1..Len(v) /\ v[n].parent < n
             /\ v[v[n].parent].kind \in {"list", "map"}
  <2>1. n \in 2..Len(v) BY <1>1, <1>4
  <2>2. v[n].parent \in 1..(n - 1) /\ v[v[n].parent].kind \in {"list", "map"}
    BY <2>1 DEF IsTree
  <2> QED BY <1>1, <2>2
<1>5. ASSUME NEW n \in 1..Len(v), NEW c \in Children(v, n)
      PROVE  c \in 1..Len(v) /\ c # 1 /\ v[c].parent = n /\ n < c
  <2>1. c \in 1..Len(v) /\ v[c].parent = n BY DEF Children
  <2>2. v[1].parent = 0 /\ n # 0 BY <1>1 DEF IsTree
  <2> QED BY <1>4, <2>1, <2>2
<1> QED BY <1>1, <1>2, <1>3, <1>4, <1>5

\* The step of the recursion looks only one level below.
LEMMA ErrorsBelow ==
    ASSUME NEW v, IsTree(v), NEW bound, NEW g, NEW h, NEW n \in 1..Len(v),
           NEW d \in 0..MAXIMUM_VALUE_DEPTH + 1,
           d <= MAXIMUM_VALUE_DEPTH => \A c \in 1..Len(v) : g[d + 1][c] = h[d + 1][c]
    PROVE  Errors(v, bound, g, n, d) = Errors(v, bound, h, n, d)
<1>1. CASE d > MAXIMUM_VALUE_DEPTH BY <1>1 DEF Errors
<1>2. CASE d <= MAXIMUM_VALUE_DEPTH
  <2>1. \A c \in Children(v, n) : g[d + 1][c] = h[d + 1][c] BY <1>2 DEF Children
  <2> DEFINE F(f) == {c \in Children(v, n) : f[d + 1][c] # {}}
  <2>2. F(g) = F(h) BY <2>1
  <2>3. F(g) # {} => g[d + 1][Min(F(g))] = h[d + 1][Min(F(h))]
    <3> SUFFICES ASSUME F(g) # {} PROVE g[d + 1][Min(F(g))] = h[d + 1][Min(F(h))] OBVIOUS
    <3>1. F(g) \in SUBSET Nat BY DEF Children
    <3>2. Min(F(g)) \in F(g)
      <4> HIDE DEF F
      <4> QED BY <3>1, MinInSet
    <3> QED BY <2>1, <2>2, <3>2
  <2>4. UNION {g[d + 1][c] : c \in F(g)} = UNION {h[d + 1][c] : c \in F(h)} BY <2>1, <2>2
  <2> QED BY <1>2, <2>2, <2>3, <2>4 DEF Errors
<1> QED BY <1>1, <1>2

\* The recursion of Validate has a solution: the depth grows up to the limit.
LEMMA ValidateExists ==
    ASSUME NEW v, IsTree(v), NEW bound
    PROVE  \E g : Validates(v, bound, g)
<1> DEFINE D == 0..MAXIMUM_VALUE_DEPTH + 1
           Solves(g, k) ==
               /\ g = [d \in D |-> [n \in 1..Len(v) |-> g[d][n]]]
               /\ \A n \in 1..Len(v), d \in D :
                     d + k > MAXIMUM_VALUE_DEPTH => g[d][n] = Errors(v, bound, g, n, d)
           T == {k \in Nat : ~ \E g : Solves(g, k)}
<1>1. T = {}
  <2> SUFFICES ASSUME T # {} PROVE FALSE OBVIOUS
  <2>1. PICK k \in T : \A m \in T : k <= m
    <3>1. T \in SUBSET Nat OBVIOUS
    <3> QED BY <3>1, LeastNat
  <2>2. k \in Nat /\ ~ \E g : Solves(g, k) OBVIOUS
  <2>3. \E h : /\ h = [d \in D |-> [n \in 1..Len(v) |-> h[d][n]]]
               /\ \A n \in 1..Len(v), d \in D :
                     d + k - 1 > MAXIMUM_VALUE_DEPTH => h[d][n] = Errors(v, bound, h, n, d)
    <3>1. CASE k = 0
      <4> DEFINE h == [d \in D |-> [n \in 1..Len(v) |-> {}]]
      <4>1. h = [d \in D |-> [n \in 1..Len(v) |-> h[d][n]]] OBVIOUS
      <4>2. \A d \in D : ~(d + k - 1 > MAXIMUM_VALUE_DEPTH) BY <3>1
      <4> QED BY <4>1, <4>2
    <3>2. CASE k # 0
      <4>1. k - 1 \in Nat /\ ~(k <= k - 1) BY <2>2, <3>2
      <4>2. k - 1 \notin T BY <2>1, <4>1
      <4>3. PICK h : Solves(h, k - 1) BY <4>1, <4>2
      <4>4. \A d \in D : d + k - 1 = d + (k - 1) BY <2>2
      <4> QED BY <4>3, <4>4
    <3> QED BY <3>1, <3>2
  <2>4. PICK h : /\ h = [d \in D |-> [n \in 1..Len(v) |-> h[d][n]]]
                 /\ \A n \in 1..Len(v), d \in D :
                       d + k - 1 > MAXIMUM_VALUE_DEPTH => h[d][n] = Errors(v, bound, h, n, d)
    BY <2>3
  <2> DEFINE g == [d \in D |-> [n \in 1..Len(v) |->
                      IF d + k > MAXIMUM_VALUE_DEPTH THEN Errors(v, bound, h, n, d) ELSE h[d][n]]]
  <2>5. ASSUME NEW n \in 1..Len(v), NEW d \in D, d + k > MAXIMUM_VALUE_DEPTH
        PROVE  g[d][n] = Errors(v, bound, g, n, d)
    <3>1. ASSUME d <= MAXIMUM_VALUE_DEPTH, NEW c \in 1..Len(v)
          PROVE  h[d + 1][c] = g[d + 1][c]
      <4>1. /\ d + 1 \in D /\ (d + 1) + k - 1 > MAXIMUM_VALUE_DEPTH
            /\ (d + 1) + k > MAXIMUM_VALUE_DEPTH
        <5>1. d \in Nat /\ d + k > MAXIMUM_VALUE_DEPTH /\ d <= MAXIMUM_VALUE_DEPTH BY <2>5, <3>1
        <5> QED BY ONLY <2>2, <5>1, DepthAssumption
      <4>2. h[d + 1][c] = Errors(v, bound, h, c, d + 1) BY <2>4, <4>1
      <4> QED BY <4>1, <4>2
    <3>2. Errors(v, bound, h, n, d) = Errors(v, bound, g, n, d)
      <4> HIDE DEF g
      <4> QED BY <3>1, ErrorsBelow
    <3> QED BY <2>5, <3>2
  <2>6. g = [d \in D |-> [n \in 1..Len(v) |-> g[d][n]]] OBVIOUS
  <2>7. Solves(g, k) BY <2>5, <2>6
  <2> QED BY <2>2, <2>7
<1>2. MAXIMUM_VALUE_DEPTH + 1 \in Nat OBVIOUS
<1>3. PICK g : Solves(g, MAXIMUM_VALUE_DEPTH + 1) BY <1>1, <1>2
<1>4. \A d \in D : d + (MAXIMUM_VALUE_DEPTH + 1) > MAXIMUM_VALUE_DEPTH OBVIOUS
<1>5. g = [d \in D |-> [n \in 1..Len(v) |-> Errors(v, bound, g, n, d)]] BY <1>3, <1>4
<1> QED BY <1>5 DEF Validates

\* The solution that Validate takes.
LEMMA ValidateSolves ==
    ASSUME NEW v, IsTree(v), NEW bound
    PROVE  \E g : /\ Validate(v, bound) = g[0][1]
                  /\ \A n \in 1..Len(v), d \in 0..MAXIMUM_VALUE_DEPTH + 1 :
                        g[d][n] = Errors(v, bound, g, n, d)
<1>1. PICK g : g = CHOOSE h : Validates(v, bound, h) OBVIOUS
<1>2. Validates(v, bound, g) BY <1>1, ValidateExists
<1>3. Validate(v, bound) = g[0][1] BY <1>1 DEF Validate, Validates, Errors
<1>4. \A n \in 1..Len(v), d \in 0..MAXIMUM_VALUE_DEPTH + 1 : g[d][n] = Errors(v, bound, g, n, d)
  <2> TAKE n \in 1..Len(v), d \in 0..MAXIMUM_VALUE_DEPTH + 1
  <2>1. g[d] = [m \in 1..Len(v) |-> Errors(v, bound, g, m, d)] BY <1>2 DEF Validates
  <2> QED BY <2>1
<1> QED BY <1>3, <1>4

\* The recursion of Sound has a solution: parents come first.
LEMMA DepthSolves ==
    ASSUME NEW v, IsTree(v)
    PROVE  \E g : /\ g = CHOOSE h : Deepens(v, h)
                  /\ \A n \in 1..Len(v) :
                        g[n] \in Nat /\ g[n] = IF n = 1 THEN 0 ELSE g[v[n].parent] + 1
<1> DEFINE Solves(g, k) ==
               /\ g = [n \in 1..Len(v) |-> g[n]]
               /\ \A n \in 1..Len(v) :
                     n <= k => /\ g[n] \in Nat
                               /\ g[n] = IF n = 1 THEN 0 ELSE g[v[n].parent] + 1
           T == {k \in Nat : ~ \E g : Solves(g, k)}
<1>0. Len(v) \in Nat BY TreeFacts
<1>1. T = {}
  <2> SUFFICES ASSUME T # {} PROVE FALSE OBVIOUS
  <2>1. PICK k \in T : \A m \in T : k <= m
    <3>1. T \in SUBSET Nat OBVIOUS
    <3> QED BY <3>1, LeastNat
  <2>2. k \in Nat /\ ~ \E g : Solves(g, k) OBVIOUS
  <2>3. CASE k = 0
    <3> DEFINE g == [n \in 1..Len(v) |-> 0]
    <3>1. g = [n \in 1..Len(v) |-> g[n]] OBVIOUS
    <3>2. \A n \in 1..Len(v) : ~(n <= 0) OBVIOUS
    <3>3. Solves(g, k) BY <2>3, <3>1, <3>2
    <3> QED BY <2>2, <3>3
  <2>4. CASE k # 0
    <3>1. k - 1 \in Nat /\ ~(k <= k - 1) BY <2>2, <2>4
    <3>2. k - 1 \notin T BY <2>1, <3>1
    <3>3. PICK h : Solves(h, k - 1) BY <3>1, <3>2
    <3> DEFINE g == [n \in 1..Len(v) |->
                        IF n = k THEN IF n = 1 THEN 0 ELSE h[v[n].parent] + 1 ELSE h[n]]
    <3>4. ASSUME NEW n \in 1..Len(v), n <= k
          PROVE  g[n] \in Nat /\ g[n] = IF n = 1 THEN 0 ELSE g[v[n].parent] + 1
      <4>1. CASE n = 1
        <5>1. CASE n = k BY <4>1, <5>1
        <5>2. CASE n # k
          <6>1. n <= k - 1 BY <2>2, <3>4, <5>2
          <6> QED BY <3>3, <4>1, <5>2, <6>1
        <5> QED BY <5>1, <5>2
      <4>2. CASE n # 1
        <5>1. v[n].parent \in 1..Len(v) /\ v[n].parent < n BY <4>2, TreeFacts
        <5>2. v[n].parent # k /\ v[n].parent <= k - 1 BY <1>0, <2>2, <3>4, <5>1
        <5>3. h[v[n].parent] \in Nat /\ g[v[n].parent] = h[v[n].parent] BY <3>3, <5>1, <5>2
        <5>4. CASE n = k
          <6>1. g[n] = h[v[n].parent] + 1 BY <4>2, <5>4
          <6> QED BY ONLY <4>2, <5>3, <6>1
        <5>5. CASE n # k
          <6>1. n <= k - 1 BY <2>2, <3>4, <5>5
          <6> QED BY <3>3, <4>2, <5>3, <5>5, <6>1
        <5> QED BY <5>4, <5>5
      <4> QED BY <4>1, <4>2
    <3>5. g = [n \in 1..Len(v) |-> g[n]] OBVIOUS
    <3>6. Solves(g, k) BY <3>4, <3>5
    <3> QED BY <2>2, <3>6
  <2> QED BY <2>3, <2>4
<1>2. PICK g : Solves(g, Len(v)) BY <1>0, <1>1
<1>3. \A n \in 1..Len(v) : n <= Len(v) BY <1>0
<1>4. Deepens(v, g) BY <1>2, <1>3 DEF Deepens
<1>5. PICK f : f = CHOOSE h : Deepens(v, h) OBVIOUS
<1>6. Deepens(v, f) BY <1>4, <1>5
<1>7. \A n \in 1..Len(v) : f[n] = IF n = 1 THEN 0 ELSE f[v[n].parent] + 1 BY <1>6 DEF Deepens
<1>8. \A n \in 1..Len(v) : f[n] \in Nat
  <2> DEFINE B == {n \in 1..Len(v) : f[n] \notin Nat}
  <2> SUFFICES ASSUME B # {} PROVE FALSE OBVIOUS
  <2>1. PICK n \in B : \A m \in B : n <= m
    <3>1. B \in SUBSET Nat OBVIOUS
    <3> QED BY <3>1, LeastNat
  <2>2. n \in 1..Len(v) /\ n # 1 BY <1>7
  <2>3. v[n].parent \in 1..Len(v) /\ v[n].parent < n BY <2>2, TreeFacts
  <2>4. v[n].parent \notin B BY <1>0, <2>1, <2>2, <2>3
  <2> QED BY <1>7, <2>2, <2>3, <2>4
<1> QED BY <1>5, <1>7, <1>8

-----------------------------------------------------------------------------
(* Leaves.                                                                 *)

\* Quotients of a number and a positive unit.
LEMMA Quotient ==
    ASSUME NEW u \in Nat \ {0}, NEW q \in Int, NEW r \in Int
    PROVE  /\ (q * u + r) \div u = q <=> r \in 0..(u - 1)
           /\ r \in 0..(u - 1) => \A m \in Int : /\ m * u <= q * u + r <=> m <= q
                                                 /\ q * u + r < (m + 1) * u <=> q <= m
<1>1. ASSUME r \in 0..(u - 1) PROVE (q * u + r) \div u = q BY <1>1
<1>2. ASSUME (q * u + r) \div u = q PROVE r \in 0..(u - 1) BY <1>2
<1>3. ASSUME r \in 0..(u - 1), NEW m \in Int PROVE m * u <= q * u + r <=> m <= q BY <1>3
<1>4. ASSUME r \in 0..(u - 1), NEW m \in Int PROVE q * u + r < (m + 1) * u <=> q <= m BY <1>4
<1> QED BY <1>1, <1>2, <1>3, <1>4

\* valid_timestamp accepts the canonical timestamps of the domain.
LEMMA TimestampCanonical ==
    ASSUME NEW t \in Nodes, t.kind = "timestamp"
    PROVE  valid_timestamp(t) <=> Canonical(t)
<1>1. PICK u, q, r : u = MaxNanoseconds + 1 /\ q = t.seconds /\ r = t.nanos OBVIOUS
<1>2. u \in Nat \ {0} /\ q \in Int /\ r \in Int /\ u - 1 = MaxNanoseconds BY <1>1 DEF Nodes
<1>3. valid_timestamp(t) <=>
         q \in MinTimestampSeconds..MaxTimestampSeconds /\ r \in 0..(u - 1)
  BY <1>1, <1>2 DEF valid_timestamp
<1>4. Canonical(t) <=> /\ q = (q * u + r) \div u
                       /\ MinTimestampSeconds * u <= q * u + r
                       /\ q * u + r < (MaxTimestampSeconds + 1) * u
  BY <1>1 DEF Canonical
<1>5. /\ (q * u + r) \div u = q <=> r \in 0..(u - 1)
      /\ r \in 0..(u - 1) => /\ MinTimestampSeconds * u <= q * u + r <=> MinTimestampSeconds <= q
                             /\ q * u + r < (MaxTimestampSeconds + 1) * u <=> q <= MaxTimestampSeconds
  BY <1>2, Quotient
<1>6. q \in MinTimestampSeconds..MaxTimestampSeconds
         <=> MinTimestampSeconds <= q /\ q <= MaxTimestampSeconds
  BY <1>2
<1> QED BY <1>3, <1>4, <1>5, <1>6

\* valid_duration accepts the canonical durations of the domain.
LEMMA DurationCanonical ==
    ASSUME NEW t \in Nodes, t.kind = "duration"
    PROVE  valid_duration(t) <=> Canonical(t)
<1>1. PICK u, q, r, M : /\ u = MaxNanoseconds + 1 /\ q = t.seconds /\ r = t.nanos
                        /\ M = MaxDurationSeconds
  OBVIOUS
<1>2. u \in Nat \ {0} /\ q \in Int /\ r \in Int /\ u - 1 = MaxNanoseconds /\ M \in Nat
  BY <1>1 DEF Nodes
<1>3. valid_duration(t) <=> /\ q \in -M..M /\ r \in -(u - 1)..(u - 1)
                            /\ ~(q > 0 /\ r < 0) /\ ~(q < 0 /\ r > 0)
  BY <1>1, <1>2 DEF valid_duration
<1>4. PICK total : total = q * u + r OBVIOUS
<1>5. total \in Int /\ -total = (-q) * u + (-r) BY <1>2, <1>4
<1>6. Canonical(t) <=> /\ q = IF total >= 0 THEN total \div u ELSE -((-total) \div u)
                       /\ -(M + 1) * u < total
                       /\ total < (M + 1) * u
  BY <1>1, <1>4 DEF Canonical
<1>7. -(M + 1) * u < total <=> -total < (M + 1) * u BY <1>2, <1>5
<1>8. /\ total \div u = q <=> r \in 0..(u - 1)
      /\ r \in 0..(u - 1) => (total < (M + 1) * u <=> q <= M)
  BY <1>2, <1>4, Quotient
<1>9. /\ (-total) \div u = -q <=> -r \in 0..(u - 1)
      /\ -r \in 0..(u - 1) => (-total < (M + 1) * u <=> -q <= M)
  <2>1. PICK a, b : a = -q /\ b = -r OBVIOUS
  <2>2. a \in Int /\ b \in Int /\ -total = a * u + b BY <1>2, <1>5, <2>1
  <2>3. /\ (a * u + b) \div u = a <=> b \in 0..(u - 1)
        /\ b \in 0..(u - 1) => (a * u + b < (M + 1) * u <=> a <= M)
    BY <1>2, <2>2, Quotient
  <2> QED BY <2>1, <2>2, <2>3
<1>10. (M + 1) * u \in Nat \ {0} BY <1>2
<1>11. CASE total >= 0
  <2>1. Canonical(t) <=> r \in 0..(u - 1) /\ q <= M
    BY <1>5, <1>6, <1>7, <1>8, <1>10, <1>11
  <2>2. r \in 0..(u - 1) => q >= 0 BY <1>2, <1>4, <1>11
  <2>3. (q < 0 => r > 0) /\ (q = 0 => r >= 0) BY <1>2, <1>4, <1>11
  <2> QED BY <1>2, <1>3, <2>1, <2>2, <2>3
<1>12. CASE ~(total >= 0)
  <2>1. (-total) \div u \in Int BY <1>2, <1>5
  <2>2. q = -((-total) \div u) <=> (-total) \div u = -q BY <1>2, <2>1
  <2>3. Canonical(t) <=> -r \in 0..(u - 1) /\ -q <= M
    BY <1>5, <1>6, <1>7, <1>9, <1>10, <1>12, <2>2
  <2>4. -r \in 0..(u - 1) => q <= 0 BY <1>2, <1>4, <1>12
  <2>5. (q > 0 => r < 0) /\ (q = 0 => r < 0) BY <1>2, <1>4, <1>12
  <2> QED BY <1>2, <1>3, <2>3, <2>4, <2>5
<1> QED BY <1>11, <1>12

\* A leaf passes exactly if it is sound.
LEMMA LeafSound ==
    ASSUME NEW v, IsTree(v), NEW bound \in BOOLEAN, NEW n \in 1..Len(v),
           v[n].kind \notin {"list", "map"}
    PROVE  /\ LeafErrors(v[n], bound) = {} <=> NodeSound(v, bound, n)
           /\ LeafErrors(v[n], bound) \subseteq {"InvalidArgument", "Protocol"}
<1>1. v[n] \in Nodes BY TreeFacts
<1>2. v[n].kind \in Leaves \cup {"timestamp", "duration"} BY <1>1 DEF Nodes
<1>3. CASE v[n].kind = "timestamp"
  <2>1. valid_timestamp(v[n]) <=> Canonical(v[n]) BY <1>1, <1>3, TimestampCanonical
  <2> QED BY <1>3, <2>1 DEF LeafErrors, NodeSound
<1>4. CASE v[n].kind = "duration"
  <2>1. valid_duration(v[n]) <=> Canonical(v[n]) BY <1>1, <1>4, DurationCanonical
  <2> QED BY <1>4, <2>1 DEF LeafErrors, NodeSound
<1>5. CASE v[n].kind \in Leaves BY <1>5 DEF LeafErrors, NodeSound, Leaves
<1> QED BY <1>2, <1>3, <1>4, <1>5

-----------------------------------------------------------------------------
(* validate.                                                               *)

\* The errors of a list or map are among those of what it holds, and it has none
\* only if nothing it holds has one.
LEMMA NestedErrors ==
    ASSUME NEW v, IsTree(v), NEW bound, NEW g, NEW n \in 1..Len(v),
           v[n].kind \in {"list", "map"},
           NEW d \in 0..MAXIMUM_VALUE_DEPTH + 1, d <= MAXIMUM_VALUE_DEPTH
    PROVE  /\ \A x \in Errors(v, bound, g, n, d) :
                 \E c \in Children(v, n) : x \in g[d + 1][c]
           /\ \A c \in Children(v, n) :
                 g[d + 1][c] # {} => Errors(v, bound, g, n, d) # {}
<1> DEFINE F == {c \in Children(v, n) : g[d + 1][c] # {}}
<1>1. ~(d > MAXIMUM_VALUE_DEPTH) OBVIOUS
<1>2. CASE v[n].kind = "list"
  <2>1. Errors(v, bound, g, n, d) = IF F = {} THEN {} ELSE g[d + 1][Min(F)]
    BY <1>1, <1>2 DEF Errors
  <2>2. F # {} => Min(F) \in F
    <3>1. F \in SUBSET Nat BY DEF Children
    <3> HIDE DEF F
    <3> QED BY <3>1, MinInSet
  <2> QED BY <2>1, <2>2
<1>3. CASE v[n].kind = "map"
  <2>1. Errors(v, bound, g, n, d) = UNION {g[d + 1][c] : c \in F}
    BY <1>1, <1>3 DEF Errors
  <2> QED BY <2>1
<1> QED BY <1>2, <1>3

\* validate returns no errors but these.
LEMMA ValidateErrors ==
    ASSUME NEW v, IsTree(v), NEW bound \in BOOLEAN
    PROVE  Validate(v, bound) \subseteq {"InvalidArgument", "Protocol"}
<1>1. PICK g : /\ Validate(v, bound) = g[0][1]
               /\ \A n \in 1..Len(v), d \in 0..MAXIMUM_VALUE_DEPTH + 1 :
                     g[d][n] = Errors(v, bound, g, n, d)
  BY ValidateSolves
<1> DEFINE Typed(d) == \A n \in 1..Len(v) : g[d][n] \subseteq {"InvalidArgument", "Protocol"}
           T == {k \in 0..MAXIMUM_VALUE_DEPTH + 1 : ~Typed(MAXIMUM_VALUE_DEPTH + 1 - k)}
<1>2. T = {}
  <2> SUFFICES ASSUME T # {} PROVE FALSE OBVIOUS
  <2>1. PICK k \in T : \A m \in T : k <= m
    <3>1. T \in SUBSET Nat OBVIOUS
    <3> HIDE DEF T
    <3> QED BY <3>1, LeastNat
  <2>2. PICK d : d = MAXIMUM_VALUE_DEPTH + 1 - k OBVIOUS
  <2>3. d \in 0..MAXIMUM_VALUE_DEPTH + 1 /\ ~Typed(d) /\ k \in Nat BY <2>2
  <2>4. d <= MAXIMUM_VALUE_DEPTH => Typed(d + 1)
    <3> SUFFICES ASSUME d <= MAXIMUM_VALUE_DEPTH PROVE Typed(d + 1) OBVIOUS
    <3>1. /\ k - 1 \in 0..MAXIMUM_VALUE_DEPTH + 1 /\ ~(k <= k - 1)
          /\ MAXIMUM_VALUE_DEPTH + 1 - (k - 1) = d + 1
      BY <2>2, <2>3
    <3>2. k - 1 \notin T BY <2>1, <3>1
    <3> QED BY <3>1, <3>2
  <2>5. PICK n \in 1..Len(v) : ~(g[d][n] \subseteq {"InvalidArgument", "Protocol"}) BY <2>3
  <2>6. g[d][n] = Errors(v, bound, g, n, d) BY <1>1, <2>3
  <2>7. CASE d > MAXIMUM_VALUE_DEPTH BY <2>5, <2>6, <2>7 DEF Errors
  <2>8. CASE d <= MAXIMUM_VALUE_DEPTH
    <3>1. CASE v[n].kind \in {"list", "map"}
      <4>1. \A x \in g[d][n] : \E c \in Children(v, n) : x \in g[d + 1][c]
        <5>1. \A x \in Errors(v, bound, g, n, d) : \E c \in Children(v, n) : x \in g[d + 1][c]
          BY <2>3, <2>8, <3>1, NestedErrors
        <5> QED BY <2>6, <5>1
      <4>2. \A c \in Children(v, n) : g[d + 1][c] \subseteq {"InvalidArgument", "Protocol"}
        BY <2>4, <2>8 DEF Children
      <4> QED BY <2>5, <4>1, <4>2
    <3>2. CASE v[n].kind \notin {"list", "map"}
      <4>1. ~(d > MAXIMUM_VALUE_DEPTH) BY <2>3, <2>8
      <4>2. Errors(v, bound, g, n, d) = LeafErrors(v[n], bound) BY <3>2, <4>1 DEF Errors
      <4> QED BY <2>5, <2>6, <3>2, <4>2, LeafSound
    <3> QED BY <3>1, <3>2
  <2> QED BY <2>3, <2>7, <2>8
<1>3. Typed(0)
  <2>1. /\ MAXIMUM_VALUE_DEPTH + 1 \in 0..MAXIMUM_VALUE_DEPTH + 1
        /\ (MAXIMUM_VALUE_DEPTH + 1) - (MAXIMUM_VALUE_DEPTH + 1) = 0
    OBVIOUS
  <2>2. MAXIMUM_VALUE_DEPTH + 1 \notin T BY <1>2
  <2> QED BY <2>1, <2>2
<1>4. 1 \in 1..Len(v) BY TreeFacts
<1> QED BY <1>1, <1>3, <1>4

\* validate accepts exactly the sound values.
LEMMA ValidateSound ==
    ASSUME NEW v, IsTree(v), NEW bound \in BOOLEAN
    PROVE  Validate(v, bound) = {} <=> Sound(v, bound)
<1>1. PICK g : /\ Validate(v, bound) = g[0][1]
               /\ \A n \in 1..Len(v), d \in 0..MAXIMUM_VALUE_DEPTH + 1 :
                     g[d][n] = Errors(v, bound, g, n, d)
  BY ValidateSolves
<1>2. PICK depth : /\ depth = CHOOSE h : Deepens(v, h)
                   /\ \A n \in 1..Len(v) :
                         /\ depth[n] \in Nat
                         /\ depth[n] = IF n = 1 THEN 0 ELSE depth[v[n].parent] + 1
  BY DepthSolves
<1>3. Sound(v, bound) <=> \A n \in 1..Len(v) :
                             depth[n] <= MAXIMUM_VALUE_DEPTH /\ NodeSound(v, bound, n)
  BY <1>2 DEF Sound, Deepens, NodeSound
<1>4. Len(v) \in Nat /\ 1 \in 1..Len(v) BY TreeFacts
<1>5. ASSUME NEW n \in 1..Len(v), NEW c \in Children(v, n)
      PROVE  c \in 1..Len(v) /\ n < c /\ depth[c] = depth[n] + 1
  BY <1>2, <1>5, TreeFacts
<1>6. ASSUME NEW n \in 1..Len(v), depth[n] <= MAXIMUM_VALUE_DEPTH + 1
      PROVE  g[depth[n]][n] = Errors(v, bound, g, n, depth[n])
  BY <1>1, <1>2, <1>6
\* A value that passes has no error anywhere.
<1>7. ASSUME Validate(v, bound) = {} PROVE Sound(v, bound)
  <2> DEFINE Passes(n) == depth[n] <= MAXIMUM_VALUE_DEPTH + 1 /\ g[depth[n]][n] = {}
             T == {n \in 1..Len(v) : ~Passes(n)}
  <2>1. ASSUME NEW n \in 1..Len(v), Passes(n) PROVE depth[n] <= MAXIMUM_VALUE_DEPTH
    <3>1. depth[n] \in Nat /\ depth[n] <= MAXIMUM_VALUE_DEPTH + 1 BY <1>2, <2>1
    <3>2. Errors(v, bound, g, n, depth[n]) = {} BY <1>6, <2>1
    <3>3. ~(depth[n] > MAXIMUM_VALUE_DEPTH) BY <3>2 DEF Errors
    <3> QED BY <3>1, <3>3
  <2>2. T = {}
    <3> SUFFICES ASSUME T # {} PROVE FALSE OBVIOUS
    <3>1. PICK n \in T : \A m \in T : n <= m
      <4>1. T \in SUBSET Nat OBVIOUS
      <4> HIDE DEF T
      <4> QED BY <4>1, LeastNat
    <3>2. n \in 1..Len(v) /\ ~Passes(n) OBVIOUS
    <3>3. n # 1
      <4>1. depth[1] = 0 BY <1>2, <1>4
      <4>2. g[0][1] = {} /\ 0 <= MAXIMUM_VALUE_DEPTH + 1 BY <1>1, <1>7
      <4> QED BY <3>2, <4>1, <4>2
    <3>4. PICK p : p = v[n].parent OBVIOUS
    <3>5. p \in 1..Len(v) /\ p < n /\ v[p].kind \in {"list", "map"} /\ n \in Children(v, p)
      BY <3>2, <3>3, <3>4, TreeFacts DEF Children
    <3>6. Passes(p)
      <4>1. p \notin T BY <1>4, <3>1, <3>2, <3>5
      <4> QED BY <3>5, <4>1
    <3>7. depth[p] \in Nat /\ depth[p] <= MAXIMUM_VALUE_DEPTH BY <1>2, <2>1, <3>5, <3>6
    <3>8. depth[p] \in 0..MAXIMUM_VALUE_DEPTH + 1 BY <3>7
    <3>9. Errors(v, bound, g, p, depth[p]) = {} BY <1>6, <3>5, <3>6
    <3>10. \A c \in Children(v, p) : g[depth[p] + 1][c] = {}
      <4>1. PICK d : d = depth[p] OBVIOUS
      <4>2. d \in 0..MAXIMUM_VALUE_DEPTH + 1 /\ d <= MAXIMUM_VALUE_DEPTH BY <3>7, <3>8, <4>1
      <4>3. \A c \in Children(v, p) : g[d + 1][c] # {} => Errors(v, bound, g, p, d) # {}
        BY <3>5, <4>2, NestedErrors
      <4> QED BY <3>9, <4>1, <4>3
    <3>11. depth[n] = depth[p] + 1 /\ depth[n] <= MAXIMUM_VALUE_DEPTH + 1 BY <1>5, <3>5, <3>7
    <3> QED BY <3>2, <3>5, <3>10, <3>11
  <2>3. ASSUME NEW n \in 1..Len(v)
        PROVE  depth[n] <= MAXIMUM_VALUE_DEPTH /\ NodeSound(v, bound, n)
    <3>1. Passes(n) BY <2>2
    <3>2. depth[n] <= MAXIMUM_VALUE_DEPTH /\ depth[n] \in Nat BY <1>2, <2>1, <3>1
    <3>3. ~(depth[n] > MAXIMUM_VALUE_DEPTH) BY <3>2
    <3>4. Errors(v, bound, g, n, depth[n]) = {} BY <1>6, <3>1
    <3>5. CASE v[n].kind \in {"list", "map"} BY <3>2, <3>5 DEF NodeSound
    <3>6. CASE v[n].kind \notin {"list", "map"}
      <4>1. LeafErrors(v[n], bound) = {} BY <3>3, <3>4, <3>6 DEF Errors
      <4> QED BY <3>2, <3>6, <4>1, LeafSound
    <3> QED BY <3>5, <3>6
  <2> QED BY <1>3, <2>3
\* The last node with an error would hold one with an error.
<1>8. ASSUME Sound(v, bound) PROVE Validate(v, bound) = {}
  <2> DEFINE Fails(n) == g[depth[n]][n] # {}
             T == {k \in 0..Len(v) : \E n \in 1..Len(v) : k = Len(v) - n /\ Fails(n)}
  <2>1. T = {}
    <3> SUFFICES ASSUME T # {} PROVE FALSE OBVIOUS
    <3>1. PICK k \in T : \A m \in T : k <= m
      <4>1. T \in SUBSET Nat OBVIOUS
      <4> HIDE DEF T
      <4> QED BY <4>1, LeastNat
    <3>2. PICK n \in 1..Len(v) : k = Len(v) - n /\ Fails(n) OBVIOUS
    <3>3. depth[n] <= MAXIMUM_VALUE_DEPTH /\ depth[n] \in Nat /\ NodeSound(v, bound, n)
      BY <1>2, <1>3, <1>8
    <3>4. ~(depth[n] > MAXIMUM_VALUE_DEPTH) /\ depth[n] \in 0..MAXIMUM_VALUE_DEPTH + 1
      BY <3>3
    <3>5. Errors(v, bound, g, n, depth[n]) # {} BY <1>6, <3>2, <3>3
    <3>6. CASE v[n].kind \notin {"list", "map"}
      <4>1. Errors(v, bound, g, n, depth[n]) = LeafErrors(v[n], bound)
        BY <3>4, <3>6 DEF Errors
      <4> QED BY <3>3, <3>5, <3>6, <4>1, LeafSound
    <3>7. CASE v[n].kind \in {"list", "map"}
      <4>1. PICK c \in Children(v, n) : g[depth[n] + 1][c] # {}
        <5>1. PICK d : d = depth[n] OBVIOUS
        <5>2. \A x \in Errors(v, bound, g, n, d) : \E c \in Children(v, n) : x \in g[d + 1][c]
          BY <3>3, <3>4, <3>7, <5>1, NestedErrors
        <5> QED BY <3>5, <5>1, <5>2
      <4>2. c \in 1..Len(v) /\ n < c /\ depth[c] = depth[n] + 1 BY <1>5
      <4>3. Len(v) - c \in 0..Len(v) /\ ~(k <= Len(v) - c) BY <1>4, <3>2, <4>2
      <4>4. Len(v) - c \in T BY <4>1, <4>2, <4>3
      <4> QED BY <3>1, <4>3, <4>4
    <3> QED BY <3>6, <3>7
  <2>2. ~Fails(1)
    <3>1. Len(v) - 1 \in 0..Len(v) BY <1>4
    <3> QED BY <1>4, <2>1, <3>1
  <2>3. depth[1] = 0 BY <1>2, <1>4
  <2> QED BY <1>1, <2>2, <2>3
<1> QED BY <1>7, <1>8

-----------------------------------------------------------------------------
(* The inductive invariant.                                                *)

\* What terminal_update makes of what the action returned.
Terminal(o) ==
    IF o.error = None /\ IntoWire(o.value, o.artifacts)
    THEN [state |-> "Succeeded", value |-> o.value, error |-> None, artifacts |-> o.artifacts]
    ELSE [state |-> "Failed", value |-> None,
          error |-> OutboundError(IF o.error # None THEN o.error
                                                    ELSE Error("InvalidArgument", TRUE)),
          artifacts |-> <<>>]

\* A value at the boundary is judged rightly.
CrossingSound ==
    crossing # None => (crossing.accepted <=> Sound(crossing.value, crossing.bound))

\* A call in progress has no error yet, and the variant Host carries the valid
\* error of the last call.
FailureInv ==
    /\ call # None => failure = None
    /\ failure # None /\ failure.variant = "Host" =>
          answer \in GivenErrors /\ ErrorValid(answer) /\ failure = HostError(answer)

\* The job's own artifacts in a result are confirmed.
OutputInv ==
    output # None =>
        \A a \in 1..Len(output.artifacts) :
            output.artifacts[a].own => output.artifacts[a].id \in confirmed

\* The update is that of the output.
UpdateInv == update # None => output # None /\ update = Terminal(output)

IndInv == TypeOK /\ CrossingSound /\ FailureInv /\ OutputInv /\ UpdateInv

\* The error of the terminal update is a valid one.
LEMMA OutboundErrorValid ==
    ASSUME NEW e \in SdkErrors
    PROVE  OutboundError(e) \in ProtocolErrors /\ ErrorValid(OutboundError(e))
<1>1. [code |-> "INTERNAL", message |-> TRUE, retryable |-> FALSE] \in ProtocolErrors
  BY DEF ProtocolErrors, Codes
<1>2. ProtocolError(e) \in ProtocolErrors
  <2>1. CASE \E h \in GivenErrors : e = HostError(h)
    BY <2>1 DEF HostError, ProtocolError, GivenErrors, ProtocolErrors, Codes
  <2>2. CASE \E x \in Variants \ {"Host"}, t \in BOOLEAN : e = Error(x, t)
    <3>1. PICK x \in Variants \ {"Host"}, t \in BOOLEAN : e = Error(x, t) BY <2>2
    <3>2. e.variant = x /\ e.message = t BY <3>1 DEF Error
    <3>3. Text(e) \in BOOLEAN /\ Retryable(e) \in BOOLEAN BY <3>2 DEF Text, Retryable
    <3>4. (CASE e.variant = "InvalidArgument" -> "INVALID_ARGUMENT"
             [] Retryable(e) -> "UNAVAILABLE"
             [] e.variant = "Protocol" -> "FAILED_PRECONDITION"
             [] e.variant = "Action" -> "INTERNAL"
             [] e.variant = "Cancelled" -> "CANCELLED") \in Codes
      BY <3>2 DEF Retryable, Variants, Codes
    <3>5. e.variant # "Host" BY <3>2
    <3> QED BY <3>3, <3>4, <3>5 DEF ProtocolError, ProtocolErrors
  <2> QED BY <2>1, <2>2 DEF SdkErrors
<1>3. ErrorValid([code |-> "INTERNAL", message |-> TRUE, retryable |-> FALSE]) BY DEF ErrorValid
<1> QED BY <1>1, <1>2, <1>3 DEF OutboundError

\* The errors the runtime makes are SdkErrors.
LEMMA ErrorTyped ==
    ASSUME NEW x \in Variants \ {"Host"}, NEW t \in BOOLEAN
    PROVE  Error(x, t) \in SdkErrors /\ Error(x, t).variant = x
BY DEF SdkErrors, Error

\* So are those of the host.
LEMMA HostErrorTyped ==
    ASSUME NEW e \in GivenErrors PROVE HostError(e) \in SdkErrors
BY DEF SdkErrors

\* A checked value is typed and judged rightly.
LEMMA CheckSound ==
    ASSUME NEW v \in Values, NEW b \in BOOLEAN, NEW base \in {2, 3}, Check(v, b, base)
    PROVE  /\ crossing' \in [value : Values, bound : BOOLEAN, base : {2, 3}, accepted : BOOLEAN]
           /\ CrossingSound'
           /\ \A x \in Validate(v, b) : x \in {"InvalidArgument", "Protocol"}
<1>1. IsTree(v) BY ValuesAssumption
<1>2. Validate(v, b) = {} <=> Sound(v, b) BY <1>1, ValidateSound
<1>3. Validate(v, b) \subseteq {"InvalidArgument", "Protocol"} BY <1>1, ValidateErrors
<1>4. PICK t \in BOOLEAN : t = (Validate(v, b) = {}) OBVIOUS
<1>5. crossing' = [value |-> v, bound |-> b, base |-> base, accepted |-> t] BY <1>4 DEF Check
<1>6. /\ crossing'.accepted = t /\ crossing'.value = v /\ crossing'.bound = b
      /\ crossing' \in [value : Values, bound : BOOLEAN, base : {2, 3}, accepted : BOOLEAN]
  BY <1>5
<1>7. CrossingSound' BY <1>2, <1>4, <1>6 DEF CrossingSound
<1> QED BY <1>3, <1>6, <1>7

\* What an action attaches is typed, and its own are confirmed.
LEMMA AttachedTyped ==
    ASSUME TypeOK, NEW s \in Attached
    PROVE  /\ s \in Seq(StoredArtifacts)
           /\ \A a \in 1..Len(s) : s[a].own => s[a].id \in confirmed
<1> DEFINE S == [own : {TRUE}, id : confirmed] \cup [own : {FALSE}, id : Artifacts]
<1>1. PICK n \in 0..MaxAttached : s \in [1..n -> S] BY DEF Attached
<1>2. S \subseteq StoredArtifacts BY DEF StoredArtifacts, TypeOK
<1>3. n \in Nat BY MaxAttachedAssumption
<1>4. s \in Seq(S) /\ Len(s) = n
  <2> HIDE DEF S
  <2> QED BY <1>1, <1>3
<1>5. s \in Seq(StoredArtifacts)
  <2> HIDE DEF S
  <2> QED BY <1>1, <1>2, <1>3
<1>6. \A x \in S : x.own => x.id \in confirmed OBVIOUS
<1>7. \A a \in 1..Len(s) : s[a] \in S
  <2> HIDE DEF S
  <2> QED BY <1>1, <1>4
<1> QED BY <1>5, <1>6, <1>7

\* The invariant holds at first.
LEMMA InitIndInv == Init => IndInv
BY DEF Init, IndInv, TypeOK, CrossingSound, FailureInv, OutputInv, UpdateInv

\* While the action runs there is no update, and steps that keep the output keep
\* what is said of both.
LEMMA KeepsOutput ==
    ASSUME OutputInv, UpdateInv, output' = output, update' = update, confirmed \subseteq confirmed'
    PROVE  OutputInv' /\ UpdateInv'
BY DEF OutputInv, UpdateInv, Terminal, OutboundError, ProtocolError, ErrorValid, Text, Retryable,
       Error, IntoWire

\* A step that fails a call with an error of the runtime.
LEMMA FailsRuntime ==
    ASSUME NEW x \in Variants \ {"Host"}, CallFails(Error(x, TRUE))
    PROVE  /\ call' \in Kinds \cup {None} /\ failure' \in SdkErrors \cup {None}
           /\ FailureInv'
<1>1. Error(x, TRUE) \in SdkErrors /\ Error(x, TRUE).variant = x BY ErrorTyped
<1>2. call' = None /\ failure' = Error(x, TRUE) BY DEF CallFails
<1> QED BY <1>1, <1>2 DEF FailureInv

\* A step that fails a call with the error of the host.
LEMMA FailsHost ==
    ASSUME NEW e \in GivenErrors, ErrorValid(e), CallFails(HostError(e)), answer' = e
    PROVE  /\ call' \in Kinds \cup {None} /\ failure' \in SdkErrors \cup {None}
           /\ FailureInv'
<1>1. call' = None /\ failure' = HostError(e) BY DEF CallFails
<1>2. ErrorValid(answer') BY DEF ErrorValid
<1>3. failure' = HostError(answer') BY <1>1
<1> QED BY <1>1, <1>2, <1>3, HostErrorTyped DEF FailureInv, HostError, ErrorValid

\* Every step keeps the invariant.
LEMMA NextIndInv == IndInv /\ [Next]_vars => IndInv'
<1> SUFFICES ASSUME IndInv, [Next]_vars PROVE IndInv' OBVIOUS
<1>0. TypeOK /\ CrossingSound /\ FailureInv /\ OutputInv /\ UpdateInv BY DEF IndInv
\* A step that keeps the output is left with the call and the value.
<1>a. ASSUME /\ output' = output /\ update' = update
             /\ confirmed \subseteq confirmed' /\ confirmed' \subseteq Artifacts
             /\ session' \in {"serving", "ended"}
             /\ call' \in Kinds \cup {None} /\ failure' \in SdkErrors \cup {None}
             /\ answer' \in GivenErrors \cup {None}
             /\ FailureInv'
             /\ \/ crossing' = None
                \/ /\ crossing' \in [value : Values, bound : BOOLEAN, base : {2, 3},
                                     accepted : BOOLEAN]
                   /\ CrossingSound'
      PROVE  IndInv'
  <2>1. OutputInv' /\ UpdateInv' BY <1>0, <1>a, KeepsOutput
  <2>2. CrossingSound' BY <1>a DEF CrossingSound
  <2>3. TypeOK' BY <1>0, <1>a DEF TypeOK
  <2> QED BY <1>a, <2>1, <2>2, <2>3 DEF IndInv
<1>b. ASSUME call' = call \/ call' = None, failure' = failure, answer' = answer PROVE FailureInv'
  BY <1>0, <1>b DEF FailureInv, HostError, ErrorValid
<1>1. ASSUME NEW k \in Kinds, Call(k) PROVE IndInv'
  <2>1. FailureInv' BY <1>1 DEF Call, FailureInv
  <2> QED BY <1>0, <1>1, <1>a, <2>1 DEF Call, Free, Running, TypeOK
<1>2. CASE CallRefused
  <2>1. CallFails(Error("InvalidArgument", TRUE)) BY <1>2 DEF CallRefused
  <2> QED BY <1>0, <1>2, <1>a, <2>1, FailsRuntime DEF CallRefused, TypeOK, Variants
<1>3. CASE RespondPlain
  <2>1. FailureInv' BY <1>3, <1>b DEF RespondPlain
  <2> QED BY <1>0, <1>3, <1>a, <2>1 DEF RespondPlain, TypeOK
<1>4. CASE RespondOther
  <2>1. CallFails(Error("Protocol", TRUE)) BY <1>4 DEF RespondOther
  <2> QED BY <1>0, <1>4, <1>a, <2>1, FailsRuntime DEF RespondOther, TypeOK, Variants
<1>5. ASSUME NEW v \in Values, Invoke(v) PROVE IndInv'
  <2>1. Check(v, TRUE, 3) BY <1>5 DEF Invoke
  <2>2. /\ crossing' \in [value : Values, bound : BOOLEAN, base : {2, 3}, accepted : BOOLEAN]
        /\ CrossingSound'
        /\ \A x \in Validate(v, TRUE) : x \in {"InvalidArgument", "Protocol"}
    BY <2>1, CheckSound
  <2>3. /\ call' \in Kinds \cup {None} /\ failure' \in SdkErrors \cup {None} /\ FailureInv'
    <3>1. CASE call' = "InvokeConfigFunction" /\ failure' = None BY <3>1 DEF FailureInv, Kinds
    <3>2. CASE \E x \in Validate(v, TRUE) : CallFails(Error(x, TRUE))
      <4>1. PICK x \in Validate(v, TRUE) : CallFails(Error(x, TRUE)) BY <3>2
      <4>2. x \in Variants \ {"Host"} BY <2>2 DEF Variants
      <4> QED BY <4>1, <4>2, FailsRuntime
    <3> QED BY <1>5, <3>1, <3>2 DEF Invoke
  <2> QED BY <1>0, <1>5, <1>a, <2>2, <2>3 DEF Invoke, TypeOK
<1>6. ASSUME NEW v \in Values, RespondValue(v) PROVE IndInv'
  <2>1. Check(v, TRUE, 3) BY <1>6 DEF RespondValue
  <2>2. /\ crossing' \in [value : Values, bound : BOOLEAN, base : {2, 3}, accepted : BOOLEAN]
        /\ CrossingSound'
        /\ \A x \in Validate(v, TRUE) : x \in {"InvalidArgument", "Protocol"}
    BY <2>1, CheckSound
  <2>3. /\ call' \in Kinds \cup {None} /\ failure' \in SdkErrors \cup {None} /\ FailureInv'
    <3>1. CASE call' = None /\ failure' = failure
      <4>1. FailureInv' BY <1>6, <1>b, <3>1 DEF RespondValue
      <4> QED BY <1>0, <3>1, <4>1 DEF TypeOK
    <3>2. CASE \E x \in Validate(v, TRUE) : CallFails(Error(x, TRUE))
      <4>1. PICK x \in Validate(v, TRUE) : CallFails(Error(x, TRUE)) BY <3>2
      <4>2. x \in Variants \ {"Host"} BY <2>2 DEF Variants
      <4> QED BY <4>1, <4>2, FailsRuntime
    <3> QED BY <1>6, <3>1, <3>2 DEF RespondValue
  <2> QED BY <1>0, <1>6, <1>a, <2>2, <2>3 DEF RespondValue, TypeOK
<1>7. ASSUME NEW v \in Values, Log(v) \/ MakeResult(v) PROVE IndInv'
  <2>1. PICK base \in {2, 3} : Check(v, FALSE, base) BY <1>7 DEF Log, MakeResult
  <2>2. /\ crossing' \in [value : Values, bound : BOOLEAN, base : {2, 3}, accepted : BOOLEAN]
        /\ CrossingSound'
    BY <2>1, CheckSound
  <2>3. UNCHANGED <<session, call, answer, failure, confirmed, output, update>>
    BY <1>7 DEF Log, MakeResult
  <2>4. FailureInv' BY <1>b, <2>3
  <2> QED BY <1>0, <1>a, <2>2, <2>3, <2>4 DEF TypeOK
<1>8. ASSUME NEW e \in GivenErrors, RespondError(e) PROVE IndInv'
  <2>1. /\ call' \in Kinds \cup {None} /\ failure' \in SdkErrors \cup {None} /\ FailureInv'
    <3>1. CASE ErrorValid(e)
      <4>1. CallFails(HostError(e)) /\ answer' = e BY <1>8, <3>1 DEF RespondError
      <4> QED BY <3>1, <4>1, FailsHost
    <3>2. CASE ~ErrorValid(e)
      <4>1. CallFails(Error("Protocol", TRUE)) BY <1>8, <3>2 DEF RespondError
      <4> QED BY <4>1, FailsRuntime DEF Variants
    <3> QED BY <3>1, <3>2
  <2> QED BY <1>0, <1>8, <1>a, <2>1 DEF RespondError, TypeOK
<1>9. ASSUME NEW e \in GivenErrors, RespondProtocolError(e) PROVE IndInv'
  <2>1. /\ call' \in Kinds \cup {None} /\ failure' \in SdkErrors \cup {None} /\ FailureInv'
        /\ session' \in {"serving", "ended"}
    <3>1. CASE ErrorValid(e)
      <4>1. /\ CallFails(HostError(e)) /\ answer' = e /\ session' = session
        BY <1>9, <3>1 DEF RespondProtocolError
      <4> QED BY <1>0, <3>1, <4>1, FailsHost DEF TypeOK
    <3>2. CASE ~ErrorValid(e)
      <4>1. /\ session' = "ended" /\ call' = call /\ failure' = failure /\ call # None
        BY <1>9, <3>2 DEF RespondProtocolError
      <4>2. failure = None BY <1>0, <4>1 DEF FailureInv
      <4> QED BY <1>0, <4>1, <4>2 DEF FailureInv, TypeOK
    <3> QED BY <3>1, <3>2
  <2> QED BY <1>0, <1>9, <1>a, <2>1 DEF RespondProtocolError, TypeOK
<1>10. ASSUME NEW x \in {"Cancelled", "Protocol", "Transport", "Runtime"}, Interrupted(x)
       PROVE  IndInv'
  <2>1. CallFails(Error(x, TRUE)) /\ x \in Variants \ {"Host"}
    BY <1>10 DEF Interrupted, Variants
  <2>2. /\ call' \in Kinds \cup {None} /\ failure' \in SdkErrors \cup {None} /\ FailureInv'
    BY <2>1, FailsRuntime
  <2> QED BY <1>0, <1>10, <1>a, <2>2 DEF Interrupted, TypeOK
<1>11. ASSUME NEW a \in Artifacts, NEW same \in BOOLEAN, StoreArtifact(a, same) PROVE IndInv'
  <2>1. failure' \in SdkErrors \cup {None} /\ FailureInv'
    <3>1. call' = None BY <1>11 DEF StoreArtifact
    <3>2. CASE failure' = None BY <3>1, <3>2 DEF FailureInv
    <3>3. CASE failure' = Error("Protocol", TRUE)
      <4>1. CallFails(Error("Protocol", TRUE)) BY <3>1, <3>3 DEF CallFails
      <4> QED BY <4>1, FailsRuntime DEF Variants
    <3> QED BY <1>11, <3>2, <3>3 DEF StoreArtifact
  <2> QED BY <1>0, <1>11, <1>a, <2>1 DEF StoreArtifact, TypeOK
<1>12. ASSUME NEW e \in SdkErrors \cup {None}, NEW v \in Values \cup {None},
              NEW s \in Seq(StoredArtifacts), Return(e, v, s),
              \A a \in 1..Len(s) : s[a].own => s[a].id \in confirmed
       PROVE  IndInv'
  <2>1. /\ output' = [error |-> e, value |-> v, artifacts |-> s] /\ output = None
        /\ UNCHANGED <<session, answer, failure, confirmed, update>>
        /\ call' = None /\ crossing' = None
    BY <1>12 DEF Return, Running
  <2>2. update = None BY <1>0, <2>1 DEF UpdateInv
  <2>3. UpdateInv' BY <2>1, <2>2 DEF UpdateInv
  <2>4. OutputInv' BY <1>12, <2>1 DEF OutputInv
  <2>5. FailureInv' BY <1>b, <2>1
  <2>6. CrossingSound' BY <2>1 DEF CrossingSound
  <2>7. TypeOK' BY <1>0, <2>1, <2>2 DEF TypeOK
  <2> QED BY <2>3, <2>4, <2>5, <2>6, <2>7 DEF IndInv
<1>13. CASE Update
  <2>1. /\ output # None /\ update' = Terminal(output)
        /\ UNCHANGED <<session, call, answer, failure, confirmed, output>> /\ crossing' = None
    BY <1>13 DEF Update, Terminal
  <2>2. UpdateInv'
    <3>1. Terminal(output') = Terminal(output)
      <4>1. PICK o : o = output OBVIOUS
      <4> QED BY <2>1, <4>1
    <3> QED BY <2>1, <3>1 DEF UpdateInv
  <2>3. OutputInv' BY <1>0, <2>1 DEF OutputInv
  <2>4. FailureInv' BY <1>b, <2>1
  <2>5. CrossingSound' BY <2>1 DEF CrossingSound
  <2>6. Terminal(output) \in Updates
    <3>1. output \in [error : SdkErrors \cup {None}, value : Values \cup {None},
                     artifacts : Seq(StoredArtifacts)]
      BY <1>0, <2>1 DEF TypeOK
    <3>2. Error("InvalidArgument", TRUE) \in SdkErrors BY ErrorTyped DEF Variants
    <3>3. PICK e \in SdkErrors :
             e = IF output.error # None THEN output.error ELSE Error("InvalidArgument", TRUE)
      BY <3>1, <3>2
    <3>4. OutboundError(e) \in ProtocolErrors BY OutboundErrorValid
    <3>5. Terminal(output) = IF output.error = None /\ IntoWire(output.value, output.artifacts)
             THEN [state |-> "Succeeded", value |-> output.value, error |-> None,
                   artifacts |-> output.artifacts]
             ELSE [state |-> "Failed", value |-> None, error |-> OutboundError(e),
                   artifacts |-> <<>>]
      BY <3>3 DEF Terminal
    <3> QED BY <3>1, <3>4, <3>5 DEF Updates
  <2>7. TypeOK' BY <1>0, <2>1, <2>6 DEF TypeOK
  <2> QED BY <2>2, <2>3, <2>4, <2>5, <2>7 DEF IndInv
<1>14. CASE End
  <2>1. FailureInv' BY <1>14, <1>b DEF End
  <2> QED BY <1>0, <1>14, <1>a, <2>1 DEF End, TypeOK
<1>15. CASE UNCHANGED vars
  <2>1. FailureInv' BY <1>15, <1>b DEF vars
  <2>2. CrossingSound'
    <3>1. crossing' = crossing BY <1>15 DEF vars
    <3> QED BY <1>0, <3>1 DEF CrossingSound
  <2> QED BY <1>0, <1>15, <1>a, <2>1, <2>2 DEF vars, TypeOK
<1>16. ASSUME NEW e \in SdkErrors \cup ({failure} \ {None}), Return(e, None, <<>>) PROVE IndInv'
  <2>1. e \in SdkErrors \cup {None} BY <1>0 DEF TypeOK
  <2>2. PICK s : s = <<>> OBVIOUS
  <2>3. s \in Seq(StoredArtifacts) /\ 1..Len(s) = {} BY <2>2
  <2>4. Return(e, None, s) BY <1>16, <2>2
  <2>5. \A a \in 1..Len(s) : s[a].own => s[a].id \in confirmed BY <2>3
  <2> QED BY <1>12, <2>1, <2>3, <2>4, <2>5
<1>17. ASSUME NEW v \in Made, NEW s \in Attached, Return(None, v, s) PROVE IndInv'
  <2>1. v \in Values \cup {None} BY <1>0 DEF Made, TypeOK
  <2> QED BY <1>0, <1>12, <1>17, <2>1, AttachedTyped
<1>18. ASSUME NEW e \in GivenErrors, StoreError(e) PROVE IndInv'
  <2>1. call' = None /\ answer' = e BY <1>18 DEF StoreError
  <2>2. /\ failure' \in SdkErrors \cup {None} /\ FailureInv'
        /\ session' \in {"serving", "ended"}
    <3>1. CASE ErrorValid(e)
      <4>1. CallFails(HostError(e)) /\ session' = session
        BY <1>18, <2>1, <3>1 DEF StoreError, CallFails
      <4> QED BY <1>0, <2>1, <3>1, <4>1, FailsHost DEF TypeOK
    <3>2. CASE ~ErrorValid(e)
      <4>1. session' = "ended" /\ failure' = None BY <1>18, <3>2 DEF StoreError
      <4> QED BY <2>1, <4>1 DEF FailureInv
    <3> QED BY <3>1, <3>2
  <2> QED BY <1>0, <1>18, <1>a, <2>1, <2>2 DEF StoreError, TypeOK
<1> QED
  BY <1>1, <1>2, <1>3, <1>4, <1>5, <1>6, <1>7, <1>8, <1>9, <1>10, <1>11, <1>13, <1>14, <1>15,
     <1>16, <1>17, <1>18
  DEF Next, Done

\* The invariant holds throughout.
LEMMA Inductive == Spec => []IndInv
BY InitIndInv, NextIndInv, PTL DEF Spec

-----------------------------------------------------------------------------
(* The properties.                                                         *)

\* TypeOK of Results.tla holds: in particular every error that runtime/error.rs
\* and terminal_update make of another is one of the wire format.
THEOREM TypeCorrect == Spec => []TypeOK
<1>1. IndInv => TypeOK BY DEF IndInv
<1> QED BY <1>1, Inductive, PTL

\* Whatever values the action and the host exchange, and however deep and wide
\* they are, validate (value.rs 14-97) accepts exactly the sound ones, and the
\* value of a terminal update is sound.
THEOREM ThmValuesSound == Spec => []ValuesSound
<1>1. IndInv => ValuesSound
  <2> SUFFICES ASSUME IndInv, update # None, update.value # None
               PROVE  Sound(update.value, FALSE)
    BY DEF IndInv, CrossingSound, ValuesSound
  <2>1. output # None /\ update = Terminal(output) BY DEF IndInv, UpdateInv
  <2>2. IntoWire(output.value, output.artifacts) /\ update.value = output.value
    BY <2>1 DEF Terminal
  <2>3. output \in [error : SdkErrors \cup {None}, value : Values \cup {None},
                    artifacts : Seq(StoredArtifacts)]
    BY <2>1 DEF IndInv, TypeOK
  <2>4. PICK v \in Values : v = update.value BY <2>2, <2>3
  <2>5. IsTree(v) BY ValuesAssumption
  <2>6. Validate(v, FALSE) = {} BY <2>2, <2>4 DEF IntoWire
  <2> QED BY <2>4, <2>5, <2>6, ValidateSound
<1> QED BY <1>1, Inductive, PTL

\* A failed update has an error with a code and a message, and only a failed one
\* has an error (jobs.rs 307-320, error.rs 43-66).
THEOREM ThmErrorsWellFormed == Spec => []ErrorsWellFormed
<1>1. IndInv => ErrorsWellFormed
  <2> SUFFICES ASSUME IndInv, update # None
               PROVE  IF update.state = "Failed" THEN ErrorValid(update.error)
                                                 ELSE output.error = None
    BY DEF ErrorsWellFormed
  <2>1. output # None /\ update = Terminal(output) BY DEF IndInv, UpdateInv
  <2>2. output \in [error : SdkErrors \cup {None}, value : Values \cup {None},
                     artifacts : Seq(StoredArtifacts)]
    BY <2>1 DEF IndInv, TypeOK
  <2>3. PICK e \in SdkErrors :
           e = IF output.error # None THEN output.error ELSE Error("InvalidArgument", TRUE)
    BY <2>2, ErrorTyped DEF Variants
  <2>4. ErrorValid(OutboundError(e)) BY OutboundErrorValid
  <2>5. CASE output.error = None /\ IntoWire(output.value, output.artifacts)
    <3>1. update.state = "Succeeded" BY <2>1, <2>5 DEF Terminal
    <3> QED BY <2>5, <3>1
  <2>6. CASE ~(output.error = None /\ IntoWire(output.value, output.artifacts))
    <3>1. update.state = "Failed" /\ update.error = OutboundError(e)
      BY <2>1, <2>3, <2>6 DEF Terminal
    <3> QED BY <2>4, <3>1
  <2> QED BY <2>5, <2>6
<1> QED BY <1>1, Inductive, PTL

\* The host gets back the error it gave when the action passes it on
\* (error.rs 44-46, client.rs 66-69, 125-128).
THEOREM ThmHostErrorKept == Spec => []HostErrorKept
<1>1. IndInv => HostErrorKept
  <2> SUFFICES ASSUME IndInv, update # None, output.error # None, output.error = failure,
                      failure.variant = "Host"
               PROVE  update.error = answer
    BY DEF HostErrorKept
  <2>1. update = Terminal(output) BY DEF IndInv, UpdateInv
  <2>2. update.error = OutboundError(failure) BY <2>1 DEF Terminal
  <2>3. ErrorValid(answer) /\ failure = HostError(answer) BY DEF IndInv, FailureInv
  <2>4. ProtocolError(failure) = answer BY <2>3 DEF ProtocolError, HostError
  <2> QED BY <2>2, <2>3, <2>4 DEF OutboundError
<1> QED BY <1>1, Inductive, PTL

\* A sequence whose IDs differ has as many of them as elements.
LEMMA DistinctCount ==
    ASSUME NEW s \in Seq(StoredArtifacts), \A a, b \in 1..Len(s) : a # b => s[a].id # s[b].id
    PROVE  Cardinality({s[a].id : a \in 1..Len(s)}) = Len(s)
<1> DEFINE ids == {s[a].id : a \in 1..Len(s)}
           f == [a \in 1..Len(s) |-> s[a].id]
<1>1. Len(s) \in Nat OBVIOUS
<1>2. IsFiniteSet(1..Len(s)) /\ Cardinality(1..Len(s)) = Len(s)
  <2>1. 1 \in Int /\ Len(s) \in Int BY <1>1
  <2>2. Cardinality(1..Len(s)) = IF 1 > Len(s) THEN 0 ELSE Len(s) - 1 + 1 BY <2>1, FS_Interval
  <2>3. IsFiniteSet(1..Len(s)) BY <2>1, FS_Interval
  <2>4. CASE Len(s) = 0 BY ONLY <2>2, <2>3, <2>4
  <2>5. CASE Len(s) # 0
    <3>1. ~(1 > Len(s)) /\ Len(s) - 1 + 1 = Len(s) BY ONLY <1>1, <2>5
    <3> QED BY ONLY <2>2, <2>3, <3>1
  <2> QED BY <2>4, <2>5
<1>3. f \in Injection(1..Len(s), ids) /\ f \in Surjection(1..Len(s), ids)
  <2>1. f \in [1..Len(s) -> ids] OBVIOUS
  <2>2. \A a, b \in 1..Len(s) : f[a] = f[b] => a = b OBVIOUS
  <2>3. \A x \in ids : \E a \in 1..Len(s) : f[a] = x OBVIOUS
  <2> HIDE DEF ids, f
  <2> QED BY <2>1, <2>2, <2>3 DEF Injection, Surjection, IsInjective
<1>4. Cardinality(ids) = Cardinality(1..Len(s))
  <2> HIDE DEF ids, f
  <2> QED BY <1>2, <1>3, FS_Surjection
<1> QED BY <1>2, <1>4

\* A successful update names each artifact once, and only such as the host has
\* confirmed to this job (host.rs 75-92).
THEOREM ThmReferencesStored == Spec => []ReferencesStored
<1>1. IndInv => ReferencesStored
  <2> SUFFICES ASSUME IndInv, update # None, update.state = "Succeeded"
               PROVE  /\ {update.artifacts[a].id : a \in 1..Len(update.artifacts)}
                            \subseteq confirmed
                      /\ Cardinality({update.artifacts[a].id : a \in 1..Len(update.artifacts)})
                            = Len(update.artifacts)
    BY DEF ReferencesStored
  <2>1. output # None /\ update = Terminal(output) BY DEF IndInv, UpdateInv
  <2>2. IntoWire(output.value, output.artifacts) /\ update.artifacts = output.artifacts BY <2>1 DEF Terminal
  <2>3. output \in [error : SdkErrors \cup {None}, value : Values \cup {None},
                     artifacts : Seq(StoredArtifacts)]
    BY <2>1 DEF IndInv, TypeOK
  <2>4. PICK s \in Seq(StoredArtifacts) : s = update.artifacts /\ s = output.artifacts
    BY <2>2, <2>3
  <2>5. \A a \in 1..Len(s) : s[a].id \in confirmed
    BY <2>1, <2>2, <2>4 DEF IndInv, OutputInv, IntoWire
  <2>6. Cardinality({s[a].id : a \in 1..Len(s)}) = Len(s)
    BY <2>2, <2>4, DistinctCount DEF IntoWire
  <2> QED BY <2>4, <2>5, <2>6
<1> QED BY <1>1, Inductive, PTL
=============================================================================
