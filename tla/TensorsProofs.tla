--------------------------- MODULE TensorsProofs ---------------------------
(***************************************************************************)
(* Proofs about Tensors for any objects, sizes and number of tensors.      *)
(***************************************************************************)
EXTENDS Tensors, FiniteSetTheorems, FunctionTheorems, TLAPS

(***************************************************************************)
(* Layout.  What the recursive definitions compute for tensors of one and  *)
(* two dimensions, the only ones the code makes: an unfolding, not an      *)
(* induction.                                                              *)
(***************************************************************************)
LEMMA PairSeq ==
  ASSUME NEW a \in Nat, NEW b \in Nat
  PROVE  /\ <<a, b>> \in Seq(Nat)
         /\ Len(<<a, b>>) = 2
         /\ DOMAIN <<a, b>> = 1 .. 2
         /\ <<a, b>>[1] = a
         /\ <<a, b>>[2] = b
OBVIOUS

LEMMA SingleSeq ==
  ASSUME NEW a \in Nat
  PROVE  /\ <<a>> \in Seq(Nat)
         /\ Len(<<a>>) = 1
         /\ DOMAIN <<a>> = 1 .. 1
         /\ <<a>>[1] = a
OBVIOUS

LEMMA FunctionIsSeq ==
  ASSUME NEW m \in Nat, NEW f \in [1 .. m -> Nat]
  PROVE  f \in Seq(Nat) /\ Len(f) = m
OBVIOUS

(* compute_row_major_strides of rows of b elements. *)
LEMMA StridesOfPair ==
  ASSUME NEW a \in Nat, NEW b \in Nat
  PROVE  /\ Strides(<<a, b>>) \in Seq(Nat)
         /\ Len(Strides(<<a, b>>)) = 2
         /\ Strides(<<a, b>>)[1] = b
         /\ Strides(<<a, b>>)[2] = 1
<1> DEFINE sh == <<a, b>>
           P(st) == st = [i \in DOMAIN sh |->
                            IF i = Len(sh) THEN 1 ELSE st[i + 1] * sh[i + 1]]
           g == [i \in 1 .. 2 |-> IF i = 2 THEN 1 ELSE b]
           S == Strides(sh)
<1>1. P(g)
  <2>1. \A i \in 1 .. 2 : g[i] = IF i = Len(sh) THEN 1 ELSE g[i + 1] * sh[i + 1]
        BY PairSeq
  <2> QED BY <2>1, PairSeq
<1>2. \E st : P(st)
      BY <1>1
<1>3. P(CHOOSE st : P(st))
      BY <1>2
<1>4. S = CHOOSE st : P(st)
      BY DEF Strides
<1>5. P(S)
      BY <1>3, <1>4
<1> HIDE DEF S
<1>6. S = [i \in 1 .. 2 |-> IF i = 2 THEN 1 ELSE S[i + 1] * sh[i + 1]]
      BY <1>5, PairSeq
<1>7. S[2] = 1
      BY <1>6
<1>8. S[1] = b
      BY <1>6, <1>7, PairSeq
<1>9. S \in [1 .. 2 -> Nat]
      BY <1>6, <1>7, <1>8
<1>10. S \in Seq(Nat) /\ Len(S) = 2
       BY <1>9
<1> QED BY <1>7, <1>8, <1>10 DEF S

LEMMA StridesOfSingle ==
  ASSUME NEW a \in Nat
  PROVE  /\ Strides(<<a>>) \in Seq(Nat)
         /\ Len(Strides(<<a>>)) = 1
         /\ Strides(<<a>>)[1] = 1
<1> DEFINE sh == <<a>>
           P(st) == st = [i \in DOMAIN sh |->
                            IF i = Len(sh) THEN 1 ELSE st[i + 1] * sh[i + 1]]
           g == [i \in 1 .. 1 |-> 1]
           S == Strides(sh)
<1>1. P(g)
      BY SingleSeq
<1>2. \E st : P(st)
      BY <1>1
<1>3. P(CHOOSE st : P(st))
      BY <1>2
<1>4. S = CHOOSE st : P(st)
      BY DEF Strides
<1>5. P(S)
      BY <1>3, <1>4
<1> HIDE DEF S
<1>6. S = [i \in 1 .. 1 |-> 1]
      BY <1>5, SingleSeq
<1>7. S \in [1 .. 1 -> Nat]
      BY <1>6, 1 \in Nat
<1>8. S \in Seq(Nat) /\ Len(S) = 1
      BY <1>7, FunctionIsSeq
<1>9. S[1] = 1
      BY <1>6
<1> QED BY <1>8, <1>9 DEF S

(* What is not made yet has no dimension. *)
LEMMA StridesOfNone ==
  Strides(<<>>) \in Seq(Nat) /\ Len(Strides(<<>>)) = 0
<1> DEFINE sh == <<>>
           P(st) == st = [i \in DOMAIN sh |->
                            IF i = Len(sh) THEN 1 ELSE st[i + 1] * sh[i + 1]]
           g == [i \in {} |-> 1]
           S == Strides(sh)
<1>1. DOMAIN sh = {} /\ Len(sh) = 0
      OBVIOUS
<1>2. P(g)
      BY <1>1
<1>3. \E st : P(st)
      BY <1>2
<1>4. P(CHOOSE st : P(st))
      BY <1>3
<1>5. S = CHOOSE st : P(st)
      BY DEF Strides
<1>6. P(S)
      BY <1>4, <1>5
<1> HIDE DEF S
<1>7. S \in [{} -> Nat]
      BY <1>1, <1>6
<1>8. S \in [1 .. 0 -> Nat]
      BY <1>7
<1>9. S \in Seq(Nat) /\ Len(S) = 0
      BY <1>8
<1> QED BY <1>9 DEF S

LEMMA ProductOfPair ==
  ASSUME NEW a \in Nat, NEW b \in Nat
  PROVE  Product(<<a, b>>) = a * b
<1> DEFINE sh == <<a, b>>
           P(pr) == pr = [i \in 0 .. Len(sh) |->
                            IF i = 0 THEN 1 ELSE pr[i - 1] * sh[i]]
           g == [i \in 0 .. 2 |-> IF i = 0 THEN 1 ELSE IF i = 1 THEN a ELSE a * b]
           R == CHOOSE pr : P(pr)
<1>1. P(g)
  <2>1. \A i \in 0 .. 2 : g[i] = IF i = 0 THEN 1 ELSE g[i - 1] * sh[i]
        BY PairSeq
  <2> QED BY <2>1, PairSeq
<1>2. \E pr : P(pr)
      BY <1>1
<1>3. P(R)
      BY <1>2
<1>4. Product(sh) = R[Len(sh)]
      BY DEF Product
<1> HIDE DEF R
<1>5. R = [i \in 0 .. 2 |-> IF i = 0 THEN 1 ELSE R[i - 1] * sh[i]]
      BY <1>3, PairSeq
<1>6. R[0] = 1
      BY <1>5
<1>7. R[1] = a
      BY <1>5, <1>6, PairSeq
<1>8. R[2] = a * b
      BY <1>5, <1>7, PairSeq
<1> QED BY <1>4, <1>8, PairSeq

LEMMA ProductOfSingle ==
  ASSUME NEW a \in Nat
  PROVE  Product(<<a>>) = a
<1> DEFINE sh == <<a>>
           P(pr) == pr = [i \in 0 .. Len(sh) |->
                            IF i = 0 THEN 1 ELSE pr[i - 1] * sh[i]]
           g == [i \in 0 .. 1 |-> IF i = 0 THEN 1 ELSE a]
           R == CHOOSE pr : P(pr)
<1>1. P(g)
  <2>1. \A i \in 0 .. 1 : g[i] = IF i = 0 THEN 1 ELSE g[i - 1] * sh[i]
        BY SingleSeq
  <2> QED BY <2>1, SingleSeq
<1>2. \E pr : P(pr)
      BY <1>1
<1>3. P(R)
      BY <1>2
<1>4. Product(sh) = R[Len(sh)]
      BY DEF Product
<1> HIDE DEF R
<1>5. R = [i \in 0 .. 1 |-> IF i = 0 THEN 1 ELSE R[i - 1] * sh[i]]
      BY <1>3, SingleSeq
<1>6. R[0] = 1
      BY <1>5
<1>7. R[1] = a
      BY <1>5, <1>6, SingleSeq
<1> QED BY <1>4, <1>7, SingleSeq

LEMMA IndicesOfPair ==
  ASSUME NEW a \in Nat, NEW b \in Nat, NEW x
  PROVE  x \in Indices(<<a, b>>) <=>
           x \in [1 .. 2 -> Nat] /\ x[1] < a /\ x[2] < b
<1> DEFINE sh == <<a, b>>
           R == UNION {0 .. sh[i] - 1 : i \in DOMAIN sh}
<1>1. DOMAIN sh = {1, 2} /\ 1 .. 2 = {1, 2} /\ sh[1] = a /\ sh[2] = b
      BY PairSeq
<1>2. x \in Indices(sh) <=>
        x \in [DOMAIN sh -> R] /\ \A i \in DOMAIN sh : x[i] < sh[i]
      BY DEF Indices
<1> HIDE DEF sh
<1>3. R = 0 .. a - 1 \cup 0 .. b - 1
      BY <1>1
<1> HIDE DEF R
<1>4. x \in Indices(sh) <=> x \in [{1, 2} -> R] /\ x[1] < a /\ x[2] < b
      BY <1>1, <1>2
<1>5. x \in [{1, 2} -> R] => x \in [{1, 2} -> Nat]
      BY <1>3
<1>6. x \in [{1, 2} -> Nat] /\ x[1] < a /\ x[2] < b => x \in [{1, 2} -> R]
      BY <1>3
<1> QED BY <1>1, <1>4, <1>5, <1>6 DEF sh

LEMMA IndicesOfSingle ==
  ASSUME NEW a \in Nat, NEW x
  PROVE  x \in Indices(<<a>>) <=> x \in [1 .. 1 -> Nat] /\ x[1] < a
<1> DEFINE sh == <<a>>
           R == UNION {0 .. sh[i] - 1 : i \in DOMAIN sh}
<1>1. DOMAIN sh = {1} /\ 1 .. 1 = {1} /\ sh[1] = a
      BY SingleSeq
<1>2. x \in Indices(sh) <=>
        x \in [DOMAIN sh -> R] /\ \A i \in DOMAIN sh : x[i] < sh[i]
      BY DEF Indices
<1> HIDE DEF sh
<1>3. R = 0 .. a - 1
      BY <1>1
<1> HIDE DEF R
<1>4. x \in Indices(sh) <=> x \in [{1} -> R] /\ x[1] < a
      BY <1>1, <1>2
<1>5. x \in [{1} -> R] => x \in [{1} -> Nat]
      BY <1>3
<1>6. x \in [{1} -> Nat] /\ x[1] < a => x \in [{1} -> R]
      BY <1>3
<1> QED BY <1>1, <1>4, <1>5, <1>6 DEF sh

LEMMA OffsetOfPair ==
  ASSUME NEW a \in Nat, NEW b \in Nat, NEW d, d.shape = <<a, b>>,
         d.strides = Strides(<<a, b>>), NEW x \in [1 .. 2 -> Nat]
  PROVE  Offset(d, x) = x[1] * b + x[2]
<1> DEFINE P(sum) == sum = [i \in 0 .. Len(d.shape) |->
                              IF i = 0 THEN 0
                              ELSE sum[i - 1] + x[i] * d.strides[i]]
           g == [i \in 0 .. 2 |-> IF i = 0 THEN 0
                                  ELSE IF i = 1 THEN x[1] * b
                                  ELSE x[1] * b + x[2]]
           R == CHOOSE sum : P(sum)
<1>1. d.strides[1] = b /\ d.strides[2] = 1 /\ Len(d.shape) = 2
      BY StridesOfPair, PairSeq
<1>2. x[1] \in Nat /\ x[2] \in Nat /\ x[1] * b \in Nat
      OBVIOUS
<1>3. P(g)
  <2>1. \A i \in 0 .. 2 : g[i] = IF i = 0 THEN 0 ELSE g[i - 1] + x[i] * d.strides[i]
        BY <1>1, <1>2
  <2> QED BY <2>1, <1>1
<1>4. \E sum : P(sum)
      BY <1>3
<1>5. P(R)
      BY <1>4
<1>6. Offset(d, x) = R[Len(d.shape)]
      BY DEF Offset
<1> HIDE DEF R
<1>7. R = [i \in 0 .. 2 |-> IF i = 0 THEN 0 ELSE R[i - 1] + x[i] * d.strides[i]]
      BY <1>1, <1>5
<1>8. R[0] = 0
      BY <1>7
<1>9. R[1] = x[1] * b
      BY <1>1, <1>2, <1>7, <1>8
<1>10. R[2] = x[1] * b + x[2]
       BY <1>1, <1>2, <1>7, <1>9
<1> QED BY <1>1, <1>6, <1>10

LEMMA OffsetOfSingle ==
  ASSUME NEW a \in Nat, NEW d, d.shape = <<a>>, d.strides = Strides(<<a>>),
         NEW x \in [1 .. 1 -> Nat]
  PROVE  Offset(d, x) = x[1]
<1> DEFINE P(sum) == sum = [i \in 0 .. Len(d.shape) |->
                              IF i = 0 THEN 0
                              ELSE sum[i - 1] + x[i] * d.strides[i]]
           g == [i \in 0 .. 1 |-> IF i = 0 THEN 0 ELSE x[1]]
           R == CHOOSE sum : P(sum)
<1>1. d.strides[1] = 1 /\ Len(d.shape) = 1
      BY StridesOfSingle, SingleSeq
<1>2. x[1] \in Nat
      OBVIOUS
<1>3. P(g)
  <2>1. \A i \in 0 .. 1 : g[i] = IF i = 0 THEN 0 ELSE g[i - 1] + x[i] * d.strides[i]
        BY <1>1, <1>2
  <2> QED BY <2>1, <1>1
<1>4. \E sum : P(sum)
      BY <1>3
<1>5. P(R)
      BY <1>4
<1>6. Offset(d, x) = R[Len(d.shape)]
      BY DEF Offset
<1> HIDE DEF R
<1>7. R = [i \in 0 .. 1 |-> IF i = 0 THEN 0 ELSE R[i - 1] + x[i] * d.strides[i]]
      BY <1>1, <1>5
<1>8. R[0] = 0
      BY <1>7
<1>9. R[1] = x[1]
      BY <1>1, <1>2, <1>7, <1>8
<1> QED BY <1>1, <1>6, <1>9

(* A map that numbers a set 0, 1, .. p - 1 counts it. *)
LEMMA Numbering ==
  ASSUME NEW S, NEW p \in Nat, NEW F \in [S -> 0 .. p - 1],
         \A x, y \in S : F[x] = F[y] => x = y,
         \A k \in 0 .. p - 1 : \E x \in S : F[x] = k
  PROVE  {F[x] : x \in S} = 0 .. p - 1 /\ Cardinality(S) = p
<1>1. F \in Bijection(S, 0 .. p - 1)
      BY DEF Bijection, Injection, Surjection, IsInjective
<1>2. ExistsBijection(S, 0 .. p - 1)
      BY <1>1 DEF ExistsBijection
<1>3. ExistsBijection(0 .. p - 1, S)
      BY <1>2, Fun_ExistsBijSymmetric
<1>4. IsFiniteSet(0 .. p - 1) /\ Cardinality(0 .. p - 1) = p
      BY FS_Interval
<1>5. Cardinality(S) = p
      BY <1>3, <1>4, FS_Bijection
<1>6. {F[x] : x \in S} = 0 .. p - 1
      OBVIOUS
<1> QED BY <1>5, <1>6

\* AddressesItsArray for one tensor.
Addresses(d) ==
  LET ix == Indices(d.shape)
  IN /\ Product(d.shape) <= d.len
     /\ {Offset(d, x) : x \in ix} = 0 .. Product(d.shape) - 1
     /\ Cardinality(ix) = Product(d.shape)
     /\ \A x, y \in ix : Len(d.shape) = 2 /\ x[1] < y[1] => Offset(d, x) < Offset(d, y)

(* Row-major strides address rows of three: positions, forces and boxes. *)
LEMMA PairAddresses ==
  ASSUME NEW n \in Nat, NEW d, d.shape = <<n, 3>>, d.strides = Strides(<<n, 3>>),
         d.len \in Nat, n * 3 <= d.len
  PROVE  Addresses(d)
<1> DEFINE ix == Indices(<<n, 3>>)
           F == [x \in ix |-> Offset(d, x)]
<1>1. Product(<<n, 3>>) = n * 3
      BY ProductOfPair, 3 \in Nat
<1>2. \A x : x \in ix <=> x \in [1 .. 2 -> Nat] /\ x[1] < n /\ x[2] < 3
      BY IndicesOfPair, 3 \in Nat
<1>3. \A x \in [1 .. 2 -> Nat] : Offset(d, x) = x[1] * 3 + x[2]
      BY OffsetOfPair, 3 \in Nat
<1>4. \A x \in ix : /\ x \in [1 .. 2 -> Nat]
                    /\ x[1] \in Nat /\ x[2] \in Nat /\ x[1] < n /\ x[2] < 3
                    /\ F[x] = x[1] * 3 + x[2]
      BY <1>2, <1>3
<1> HIDE DEF ix
<1>5. F \in [ix -> 0 .. n * 3 - 1]
  <2>1. \A x \in ix : F[x] \in 0 .. n * 3 - 1
        BY <1>4
  <2> QED BY <2>1
<1>6. \A x, y \in ix : F[x] = F[y] => x = y
  <2> SUFFICES ASSUME NEW x \in ix, NEW y \in ix, F[x] = F[y] PROVE x = y
      OBVIOUS
  <2>1. x[1] = y[1] /\ x[2] = y[2]
        BY <1>4
  <2>2. \A i \in 1 .. 2 : x[i] = y[i]
        BY <2>1
  <2>3. x \in [1 .. 2 -> Nat] /\ y \in [1 .. 2 -> Nat]
        BY <1>4
  <2> QED BY <2>2, <2>3
<1>7. \A k \in 0 .. n * 3 - 1 : \E x \in ix : F[x] = k
  <2> SUFFICES ASSUME NEW k \in 0 .. n * 3 - 1 PROVE \E x \in ix : F[x] = k
      OBVIOUS
  <2> DEFINE x == [i \in 1 .. 2 |-> IF i = 1 THEN k \div 3 ELSE k % 3]
  <2>1. /\ k \div 3 \in Nat /\ k % 3 \in Nat /\ k \div 3 < n /\ k % 3 < 3
        /\ (k \div 3) * 3 + (k % 3) = k
        OBVIOUS
  <2>2. x \in [1 .. 2 -> Nat] /\ x[1] = k \div 3 /\ x[2] = k % 3
        BY <2>1
  <2> HIDE DEF x
  <2>3. x \in ix
        BY <1>2, <2>1, <2>2
  <2>4. F[x] = k
        BY <1>4, <2>1, <2>2, <2>3
  <2> QED BY <2>3, <2>4
<1>8. {F[x] : x \in ix} = 0 .. n * 3 - 1 /\ Cardinality(ix) = n * 3
  <2> HIDE DEF F
  <2>1. n * 3 \in Nat
        OBVIOUS
  <2> QED BY <1>5, <1>6, <1>7, <2>1, Numbering
<1>9. {F[x] : x \in ix} = {Offset(d, x) : x \in ix}
      OBVIOUS
<1>10. \A x, y \in ix : x[1] < y[1] => Offset(d, x) < Offset(d, y)
       BY <1>3, <1>4
<1> HIDE DEF F
<1> QED BY <1>1, <1>8, <1>9, <1>10 DEF Addresses, ix

(* And a list of n: the atomic numbers. *)
LEMMA SingleAddresses ==
  ASSUME NEW n \in Nat, NEW d, d.shape = <<n>>, d.strides = Strides(<<n>>),
         d.len \in Nat, n <= d.len
  PROVE  Addresses(d)
<1> DEFINE ix == Indices(<<n>>)
           F == [x \in ix |-> Offset(d, x)]
<1>1. Product(<<n>>) = n /\ Len(<<n>>) = 1
      BY ProductOfSingle, SingleSeq
<1>2. \A x : x \in ix <=> x \in [1 .. 1 -> Nat] /\ x[1] < n
      BY IndicesOfSingle
<1>3. \A x \in [1 .. 1 -> Nat] : Offset(d, x) = x[1]
      BY OffsetOfSingle
<1>4. \A x \in ix : /\ x \in [1 .. 1 -> Nat]
                    /\ x[1] \in Nat /\ x[1] < n /\ F[x] = x[1]
  <2>1. \A x \in [1 .. 1 -> Nat] : x[1] \in Nat
        OBVIOUS
  <2> QED BY <1>2, <1>3, <2>1
<1> HIDE DEF ix
<1>5. F \in [ix -> 0 .. n - 1]
  <2>1. \A x \in ix : F[x] \in 0 .. n - 1
        BY <1>4
  <2> QED BY <2>1
<1>6. \A x, y \in ix : F[x] = F[y] => x = y
  <2> SUFFICES ASSUME NEW x \in ix, NEW y \in ix, F[x] = F[y] PROVE x = y
      OBVIOUS
  <2>1. \A i \in 1 .. 1 : x[i] = y[i]
        BY <1>4
  <2>2. x \in [1 .. 1 -> Nat] /\ y \in [1 .. 1 -> Nat]
        BY <1>4
  <2> QED BY <2>1, <2>2
<1>7. \A k \in 0 .. n - 1 : \E x \in ix : F[x] = k
  <2> SUFFICES ASSUME NEW k \in 0 .. n - 1 PROVE \E x \in ix : F[x] = k
      OBVIOUS
  <2> DEFINE x == [i \in 1 .. 1 |-> k]
  <2>1. x \in [1 .. 1 -> Nat] /\ x[1] = k
        OBVIOUS
  <2> HIDE DEF x
  <2>2. x \in ix
        BY <1>2, <2>1
  <2> QED BY <1>4, <2>1, <2>2
<1>8. {F[x] : x \in ix} = 0 .. n - 1 /\ Cardinality(ix) = n
  <2> HIDE DEF F
  <2> QED BY <1>5, <1>6, <1>7, Numbering
<1>9. {F[x] : x \in ix} = {Offset(d, x) : x \in ix}
      OBVIOUS
<1> HIDE DEF F
<1> QED BY <1>1, <1>8, <1>9 DEF Addresses, ix
-----------------------------------------------------------------------------
(* What the constructors of tensor.rs make. *)
LEMMA MadeTypes ==
  ASSUME NEW n \in Nat, NEW p \in Nat
  PROVE  /\ tensor_cpu_f64_2d(p, n, 3) \in TensorType
         /\ tensor_cpu_i32_1d(p, n) \in TensorType
         /\ tensor_cpu_f64_matrix3(p) \in TensorType
         /\ tensor_owned_cpu_f64_2d(n, 3) \in TensorType
         /\ \A d \in {tensor_cpu_f64_2d(p, n, 3), tensor_cpu_i32_1d(p, n),
                      tensor_cpu_f64_matrix3(p), tensor_owned_cpu_f64_2d(n, 3)} :
               Len(d.shape) = Len(d.strides)
<1>1. /\ <<n, 3>> \in Seq(Nat) /\ <<3, 3>> \in Seq(Nat) /\ <<n>> \in Seq(Nat)
      /\ Len(<<n, 3>>) = 2 /\ Len(<<3, 3>>) = 2 /\ Len(<<n>>) = 1
      BY PairSeq, SingleSeq, 3 \in Nat
<1>2. /\ Strides(<<n, 3>>) \in Seq(Nat) /\ Strides(<<3, 3>>) \in Seq(Nat)
      /\ Strides(<<n>>) \in Seq(Nat)
      /\ Len(Strides(<<n, 3>>)) = 2 /\ Len(Strides(<<3, 3>>)) = 2
      /\ Len(Strides(<<n>>)) = 1
      BY StridesOfPair, StridesOfSingle, 3 \in Nat
<1>3. <<n, 3>>[1] * <<n, 3>>[2] \in Nat
      OBVIOUS
<1> QED BY <1>1, <1>2, <1>3 DEF tensor_cpu_f64_2d, tensor_cpu_i32_1d,
      tensor_cpu_f64_matrix3, tensor_owned_cpu_f64_2d, Borrowed, Owned, Tensor,
      TensorType

(* Whose the data is, for each of them. *)
LEMMA DescFields ==
  ASSUME NEW n, NEW p
  PROVE  /\ tensor_cpu_f64_2d(p, n, 3).deleter = "borrowed"
         /\ tensor_cpu_i32_1d(p, n).deleter = "borrowed"
         /\ tensor_cpu_f64_matrix3(p).deleter = "borrowed"
         /\ tensor_owned_cpu_f64_2d(n, 3).deleter = "owned"
BY DEF tensor_cpu_f64_2d, tensor_cpu_i32_1d, tensor_cpu_f64_matrix3,
       tensor_owned_cpu_f64_2d, Borrowed, Owned, Tensor

LEMMA OwnedFields ==
  ASSUME NEW n \in Nat
  PROVE  /\ tensor_owned_cpu_f64_2d(n, 3).shape = <<n, 3>>
         /\ tensor_owned_cpu_f64_2d(n, 3).strides = Strides(<<n, 3>>)
         /\ tensor_owned_cpu_f64_2d(n, 3).len = n * 3
<1>1. <<n, 3>>[1] * <<n, 3>>[2] = n * 3
      OBVIOUS
<1> QED BY <1>1 DEF tensor_owned_cpu_f64_2d, Owned, Tensor
-----------------------------------------------------------------------------
(***************************************************************************)
(* The inductive invariant, in parts.                                      *)
(***************************************************************************)

\* The three tensors of an input are made together and move together.
HasNone(i) == inp[i].pos = null /\ inp[i].atm = null /\ inp[i].box = null

HasAll(i) ==
  /\ inp[i].exists
  /\ inp[i].pos \in live
  /\ inp[i].atm = inp[i].pos + 1 /\ inp[i].atm \in live
  /\ inp[i].box = inp[i].pos + 2 /\ inp[i].box \in live
  /\ inp[i].n * 3 <= desc[inp[i].pos].len
  /\ desc[inp[i].pos] = tensor_cpu_f64_2d(desc[inp[i].pos].len, inp[i].n, 3)
  /\ desc[inp[i].atm] = tensor_cpu_i32_1d(inp[i].n, inp[i].n)
  /\ desc[inp[i].box] = tensor_cpu_f64_matrix3(9)

InvInputs == \A i \in Inputs : HasNone(i) \/ HasAll(i)

InvResults ==
  \A r \in Results : res[r].forces # null =>
    /\ res[r].exists
    /\ res[r].forces \in live
    /\ desc[res[r].forces] = tensor_owned_cpu_f64_2d(res[r].n, 3)

\* No two objects point to the same tensor.
InvApart ==
  /\ \A i, j \in Inputs : i # j /\ inp[i].pos # null /\ inp[j].pos # null =>
       inp[i].box < inp[j].pos \/ inp[j].box < inp[i].pos
  /\ \A r, s \in Results : r # s /\ res[r].forces # null =>
       res[r].forces # res[s].forces
  /\ \A i \in Inputs, r \in Results : res[r].forces # null =>
       res[r].forces \notin Pointers(i)

\* And every tensor has an object that points to it.
InvHeld ==
  \A t \in live : \/ \E i \in Inputs : t \in Pointers(i)
                  \/ \E r \in Results : res[r].forces = t

IndInv ==
  /\ TypeOK /\ InvInputs /\ InvResults /\ InvApart /\ InvHeld
  /\ DataOutlivesTensor
-----------------------------------------------------------------------------
USE TensorsAssumption DEF Ids, null

LEMMA InitInv == Init => IndInv
<1> SUFFICES ASSUME Init PROVE IndInv
    OBVIOUS
<1>1. TypeOK
  <2>1. <<>> \in Seq(Nat) /\ Len(<<>>) = 0
        OBVIOUS
  <2>2. Borrowed("none", <<>>, 0) \in TensorType
        BY <2>1, StridesOfNone DEF Borrowed, Tensor, TensorType
  <2>3. Len(Borrowed("none", <<>>, 0).shape) = Len(Borrowed("none", <<>>, 0).strides)
        BY <2>1, StridesOfNone DEF Borrowed, Tensor
  <2>4. inp \in [Inputs -> [exists : BOOLEAN, pos : Ids \cup {null},
                            atm : Ids \cup {null}, box : Ids \cup {null}, n : Nat]]
        BY DEF Init, NoInput
  <2>5. res \in [Results -> [exists : BOOLEAN, forces : Ids \cup {null}, n : Nat]]
        BY DEF Init, NoResult
  <2> QED BY <2>2, <2>3, <2>4, <2>5 DEF Init, TypeOK
<1>2. InvInputs /\ InvResults /\ InvApart /\ InvHeld /\ DataOutlivesTensor
      BY DEF Init, InvInputs, HasNone, InvResults, InvApart, InvHeld,
             DataOutlivesTensor, NoInput, NoResult
<1> QED BY <1>1, <1>2 DEF IndInv

InputType == [exists : BOOLEAN, pos : Ids \cup {null}, atm : Ids \cup {null},
              box : Ids \cup {null}, n : Nat]
ResultType == [exists : BOOLEAN, forces : Ids \cup {null}, n : Nat]

(* An input that is left alone, or whose contents move to another object,  *)
(* keeps its three tensors if they stay alive.                             *)
LEMMA InputKept ==
  ASSUME IndInv, NEW j \in Inputs, NEW k \in Inputs, inp'[k] = inp[j],
         \A t \in 1 .. made : desc'[t] = desc[t],
         inp[j].pos # null => Pointers(j) \subseteq live'
  PROVE  (HasNone(k) \/ HasAll(k))'
<1>1. CASE HasNone(j)
      BY <1>1 DEF HasNone
<1>2. CASE HasAll(j)
  <2>1. /\ inp[j].pos \in 1 .. made /\ inp[j].atm \in 1 .. made
        /\ inp[j].box \in 1 .. made
        BY <1>2 DEF HasAll, IndInv, TypeOK
  <2>2. /\ desc'[inp[j].pos] = desc[inp[j].pos]
        /\ desc'[inp[j].atm] = desc[inp[j].atm]
        /\ desc'[inp[j].box] = desc[inp[j].box]
        BY <2>1
  <2>3. inp[j].pos \in live' /\ inp[j].atm \in live' /\ inp[j].box \in live'
        BY <2>1 DEF Pointers
  <2> QED BY <1>2, <2>2, <2>3 DEF HasAll
<1> QED BY <1>1, <1>2 DEF IndInv, InvInputs

(* New tensors have new numbers, so nothing points to them yet. *)
LEMMA CreateInputInv ==
  ASSUME IndInv, NEW i \in Inputs, NEW n \in Nat, NEW p \in Nat, n * 3 <= p,
         CreateInput(i, n, p)
  PROVE  IndInv'
<1> DEFINE a == made + 1
           x == tensor_cpu_f64_2d(p, n, 3)
           y == tensor_cpu_i32_1d(n, n)
           z == tensor_cpu_f64_matrix3(9)
           o == [exists |-> TRUE, pos |-> a, atm |-> a + 1, box |-> a + 2, n |-> n]
<1>1. /\ made \in Nat /\ made + 3 <= MaxTensors
      /\ a \in Ids /\ a + 1 \in Ids /\ a + 2 \in Ids
      BY DEF IndInv, TypeOK, CreateInput
<1>2. /\ desc' = [desc EXCEPT ![a] = x, ![a + 1] = y, ![a + 2] = z]
      /\ made' = made + 3
      /\ live' = live \cup {a, a + 1, a + 2}
      /\ mem' = mem \cup {a, a + 1, a + 2}
      /\ inp' = [inp EXCEPT ![i] = o]
      /\ res' = res
      BY <1>1 DEF CreateInput
<1>3. HasNone(i)
      BY DEF IndInv, InvInputs, HasAll, CreateInput
<1>4. /\ x \in TensorType /\ y \in TensorType /\ z \in TensorType
      /\ Len(x.shape) = Len(x.strides)
      /\ Len(y.shape) = Len(y.strides)
      /\ Len(z.shape) = Len(z.strides)
      BY MadeTypes, 9 \in Nat
<1>5. /\ x.deleter = "borrowed" /\ y.deleter = "borrowed" /\ z.deleter = "borrowed"
      /\ x.len = p
      BY DescFields DEF tensor_cpu_f64_2d, Borrowed, Tensor
<1> HIDE DEF x, y, z
<1>6. /\ desc' \in [Ids -> TensorType]
      /\ desc'[a] = x /\ desc'[a + 1] = y /\ desc'[a + 2] = z
      /\ \A t \in 1 .. made : desc'[t] = desc[t]
      /\ \A t \in Ids : t \notin {a, a + 1, a + 2} => desc'[t] = desc[t]
  <2> HIDE DEF TensorType
  <2> QED BY <1>1, <1>2, <1>4 DEF IndInv, TypeOK
<1>7. /\ inp'[i] = o
      /\ \A j \in Inputs \ {i} : inp'[j] = inp[j]
      /\ inp' \in [Inputs -> InputType]
      BY <1>1, <1>2 DEF IndInv, TypeOK, InputType
<1>8. live \subseteq 1 .. made /\ mem \subseteq 1 .. made /\ res \in [Results -> ResultType]
      BY DEF IndInv, TypeOK, ResultType
<1>9. TypeOK'
  <2>1. \A t \in Ids : Len(desc'[t].shape) = Len(desc'[t].strides)
        BY <1>4, <1>6 DEF IndInv, TypeOK
  <2>2. live' \subseteq 1 .. made' /\ mem' \subseteq 1 .. made' /\ made' \in 0 .. MaxTensors
        BY <1>1, <1>2, <1>8
  <2> QED BY <1>2, <1>6, <1>7, <1>8, <2>1, <2>2 DEF TypeOK, InputType, ResultType
<1>10. InvInputs' /\ InvResults'
  <2>1. HasAll(i)'
        BY <1>2, <1>5, <1>6, <1>7 DEF HasAll, x, y, z
  <2>2. ASSUME NEW j \in Inputs \ {i} PROVE (HasNone(j) \/ HasAll(j))'
    <3>1. inp'[j] = inp[j] /\ (inp[j].pos # null => Pointers(j) \subseteq live')
          BY <1>2, <1>7 DEF IndInv, InvInputs, HasNone, HasAll, Pointers
    <3> QED BY <1>6, <3>1, InputKept
  <2>3. InvResults'
        BY <1>2, <1>6, <1>8 DEF IndInv, InvResults
  <2> QED BY <2>1, <2>2, <2>3 DEF InvInputs
<1>11. InvApart'
  <2>1. \A j \in Inputs : inp[j].pos # null => inp[j].pos \in 1 .. made /\ inp[j].box \in 1 .. made
        BY <1>8 DEF IndInv, InvInputs, HasNone, HasAll
  <2>2. \A r \in Results : res[r].forces # null => res[r].forces \in 1 .. made
        BY <1>8 DEF IndInv, InvResults
  <2> QED BY <1>1, <1>2, <1>7, <2>1, <2>2 DEF IndInv, InvApart, Pointers
<1>12. InvHeld'
  <2>1. Pointers(i)' = {a, a + 1, a + 2}
        BY <1>7 DEF Pointers
  <2>2. ASSUME NEW t \in live
        PROVE  (\E j \in Inputs : t \in Pointers(j)') \/ (\E r \in Results : res'[r].forces = t)
    <3>1. t \notin Pointers(i)
          BY <1>3, <1>8 DEF HasNone, Pointers
    <3>2. \A j \in Inputs \ {i} : Pointers(j)' = Pointers(j)
          BY <1>7 DEF Pointers
    <3> QED BY <1>2, <3>1, <3>2 DEF IndInv, InvHeld
  <2> QED BY <1>2, <2>1, <2>2 DEF InvHeld
<1>13. DataOutlivesTensor'
  <2>1. \A t \in 1 .. made' : t \in 1 .. made \/ t \in {a, a + 1, a + 2}
        BY <1>1, <1>2
  <2>2. \A t \in 1 .. made : t \notin {a, a + 1, a + 2}
        BY <1>1
  <2> QED BY <1>2, <1>5, <1>6, <2>1, <2>2 DEF IndInv, DataOutlivesTensor
<1> QED BY <1>9, <1>10, <1>11, <1>12, <1>13 DEF IndInv

(* Freeing the tensors of one input frees nobody else's, and its data, which *)
(* is borrowed, stays.                                                       *)
LEMMA FreeInputEffect ==
  ASSUME IndInv, NEW i \in Inputs, TensorFree(Pointers(i))
  PROVE  /\ live' = live \ Pointers(i)
         /\ mem' = mem
         /\ \A j \in Inputs \ {i} : inp[j].pos # null => Pointers(j) \subseteq live'
         /\ \A r \in Results : res[r].forces # null => res[r].forces \in live'
         /\ \A t \in live' : \/ \E j \in Inputs \ {i} : t \in Pointers(j)
                             \/ \E r \in Results : res[r].forces = t
<1>1. live' = live \ Pointers(i)
      BY DEF TensorFree
<1>2. mem' = mem
  <2>1. \A t \in Pointers(i) \ {null} : desc[t].deleter = "borrowed"
    <3>1. CASE HasNone(i)
          BY <3>1 DEF HasNone, Pointers
    <3>2. CASE HasAll(i)
          BY <3>2, DescFields DEF HasAll, Pointers
    <3> QED BY <3>1, <3>2 DEF IndInv, InvInputs
  <2>2. \A t \in Pointers(i) \ {null} : desc[t].deleter # "owned"
        BY <2>1
  <2> QED BY <2>2 DEF TensorFree
<1>3. ASSUME NEW j \in Inputs \ {i}, inp[j].pos # null
      PROVE  Pointers(j) \subseteq live'
  <2>1. HasAll(j)
        BY <1>3 DEF IndInv, InvInputs, HasNone
  <2>2. CASE HasNone(i)
    <3>1. 0 \notin live
          BY DEF IndInv, TypeOK
    <3> QED BY <1>1, <2>1, <2>2, <3>1 DEF HasAll, HasNone, Pointers
  <2>3. CASE HasAll(i)
    <3>1. inp[i].pos \in Nat /\ inp[j].pos \in Nat /\ inp[i].pos # null
          BY <2>1, <2>3 DEF IndInv, TypeOK, HasAll
    <3>2. inp[i].box < inp[j].pos \/ inp[j].box < inp[i].pos
          BY <1>3, <3>1 DEF IndInv, InvApart
    <3> QED BY <1>1, <2>1, <2>3, <3>1, <3>2 DEF HasAll, Pointers
  <2> QED BY <2>2, <2>3 DEF IndInv, InvInputs
<1>4. \A r \in Results : res[r].forces # null => res[r].forces \in live'
      BY <1>1 DEF IndInv, InvApart, InvResults
<1>5. \A t \in live' : \/ \E j \in Inputs \ {i} : t \in Pointers(j)
                       \/ \E r \in Results : res[r].forces = t
      BY <1>1 DEF IndInv, InvHeld
<1> QED BY <1>1, <1>2, <1>3, <1>4, <1>5

(* An input that lets go of its tensors, on its way out or to be used again. *)
LEMMA ReleaseInv ==
  ASSUME IndInv, NEW i \in Inputs, NEW o \in {NoInput, MovedFrom(inp[i])},
         TensorFree(Pointers(i)),
         inp' = [inp EXCEPT ![i] = o], UNCHANGED <<made, desc, res>>
  PROVE  IndInv'
<1>1. /\ live' = live \ Pointers(i)
      /\ mem' = mem
      /\ \A j \in Inputs \ {i} : inp[j].pos # null => Pointers(j) \subseteq live'
      /\ \A r \in Results : res[r].forces # null => res[r].forces \in live'
      /\ \A t \in live' : \/ \E j \in Inputs \ {i} : t \in Pointers(j)
                          \/ \E r \in Results : res[r].forces = t
      BY FreeInputEffect
<1>2. /\ inp \in [Inputs -> InputType]
      /\ o \in InputType /\ o.pos = null /\ o.atm = null /\ o.box = null
  <2>1. NoInput \in InputType /\ MovedFrom(inp[i]) \in InputType
        BY DEF IndInv, TypeOK, InputType, NoInput, MovedFrom
  <2>2. NoInput.pos = null /\ NoInput.atm = null /\ NoInput.box = null
        BY DEF NoInput
  <2>3. /\ MovedFrom(inp[i]).pos = null /\ MovedFrom(inp[i]).atm = null
        /\ MovedFrom(inp[i]).box = null
        BY DEF IndInv, TypeOK, MovedFrom
  <2>4. o = NoInput \/ o = MovedFrom(inp[i])
        OBVIOUS
  <2>5. inp \in [Inputs -> InputType]
        BY DEF IndInv, TypeOK, InputType
  <2> QED BY <2>1, <2>2, <2>3, <2>4, <2>5
<1>3. /\ inp' \in [Inputs -> InputType]
      /\ inp'[i] = o
      /\ \A j \in Inputs \ {i} : inp'[j] = inp[j]
      BY <1>2
<1>4. TypeOK'
      BY <1>1, <1>3 DEF IndInv, TypeOK, InputType
<1>5. InvInputs' /\ InvResults'
  <2>1. HasNone(i)'
        BY <1>2, <1>3 DEF HasNone
  <2>2. ASSUME NEW j \in Inputs \ {i} PROVE (HasNone(j) \/ HasAll(j))'
        BY <1>1, <1>3, InputKept
  <2>3. InvResults'
        BY <1>1 DEF IndInv, InvResults
  <2> QED BY <2>1, <2>2, <2>3 DEF InvInputs
<1>6. InvApart'
  <2>1. ASSUME NEW j \in Inputs, NEW r \in Results, res[r].forces # null
        PROVE  res[r].forces \notin Pointers(j)'
        BY <1>2, <1>3, <2>1 DEF IndInv, InvApart, Pointers
  <2> QED BY <1>2, <1>3, <2>1 DEF IndInv, InvApart
<1>7. InvHeld'
  <2>1. \A j \in Inputs \ {i} : Pointers(j)' = Pointers(j)
        BY <1>3 DEF Pointers
  <2> QED BY <1>1, <2>1 DEF InvHeld
<1>8. DataOutlivesTensor'
  <2>1. \A t \in live : t \in Pointers(i) => desc[t].deleter = "borrowed"
    <3>1. CASE HasNone(i)
          BY <3>1 DEF HasNone, Pointers, IndInv, TypeOK
    <3>2. CASE HasAll(i)
          BY <3>2, DescFields DEF HasAll, Pointers
    <3> QED BY <3>1, <3>2 DEF IndInv, InvInputs
  <2> QED BY <1>1, <2>1 DEF IndInv, DataOutlivesTensor
<1> QED BY <1>4, <1>5, <1>6, <1>7, <1>8 DEF IndInv

(* The contents of s go to d, after d has let go of its own if it had any. *)
LEMMA MoveInputInv ==
  ASSUME IndInv, NEW d \in Inputs, NEW s \in Inputs, d # s,
         inp' = [inp EXCEPT ![d] = inp[s], ![s] = MovedFrom(inp[s])],
         inp[s].exists,
         \/ HasNone(d) /\ UNCHANGED <<live, mem>>
         \/ TensorFree(Pointers(d)),
         UNCHANGED <<made, desc, res>>
  PROVE  IndInv'
<1>1. /\ live' = live \ Pointers(d)
      /\ mem' = mem
      /\ \A j \in Inputs \ {d} : inp[j].pos # null => Pointers(j) \subseteq live'
      /\ \A r \in Results : res[r].forces # null => res[r].forces \in live'
      /\ \A t \in live' : \/ \E j \in Inputs \ {d} : t \in Pointers(j)
                          \/ \E r \in Results : res[r].forces = t
  <2>1. CASE HasNone(d) /\ UNCHANGED <<live, mem>>
    <3>1. 0 \notin live
          BY DEF IndInv, TypeOK
    <3>2. live \ Pointers(d) = live
          BY <2>1, <3>1 DEF HasNone, Pointers
    <3>3. \A j \in Inputs : inp[j].pos # null => Pointers(j) \subseteq live
          BY DEF IndInv, InvInputs, HasNone, HasAll, Pointers
    <3>4. \A t \in live : t \notin Pointers(d)
          BY <3>2
    <3> QED BY <2>1, <3>2, <3>3, <3>4 DEF IndInv, InvResults, InvHeld
  <2>2. CASE TensorFree(Pointers(d))
        BY <2>2, FreeInputEffect
  <2> QED BY <2>1, <2>2
<1>2. /\ inp \in [Inputs -> InputType]
      /\ MovedFrom(inp[s]) \in InputType
      /\ MovedFrom(inp[s]).pos = null /\ MovedFrom(inp[s]).atm = null
      /\ MovedFrom(inp[s]).box = null
      BY DEF IndInv, TypeOK, InputType, MovedFrom
<1>3. /\ inp' \in [Inputs -> InputType]
      /\ inp'[d] = inp[s]
      /\ inp'[s] = MovedFrom(inp[s])
      /\ \A j \in Inputs \ {d, s} : inp'[j] = inp[j]
  <2> HIDE DEF InputType, MovedFrom
  <2> QED BY <1>2
<1>4. TypeOK'
      BY <1>1, <1>3 DEF IndInv, TypeOK, InputType
<1>5. InvInputs' /\ InvResults'
  <2>1. HasNone(s)'
        BY <1>2, <1>3 DEF HasNone
  <2>2. (HasNone(d) \/ HasAll(d))'
        BY <1>1, <1>3, InputKept
  <2>3. ASSUME NEW j \in Inputs \ {d, s} PROVE (HasNone(j) \/ HasAll(j))'
        BY <1>1, <1>3, InputKept
  <2>4. InvResults'
        BY <1>1 DEF IndInv, InvResults
  <2> QED BY <2>1, <2>2, <2>3, <2>4 DEF InvInputs
<1>6. InvApart'
  <2>1. ASSUME NEW j \in Inputs, NEW r \in Results, res[r].forces # null
        PROVE  res[r].forces \notin Pointers(j)'
        BY <1>2, <1>3, <2>1 DEF IndInv, InvApart, Pointers
  <2> QED BY <1>2, <1>3, <2>1 DEF IndInv, InvApart
<1>7. InvHeld'
  <2>1. Pointers(d)' = Pointers(s)
        BY <1>3 DEF Pointers
  <2>2. \A j \in Inputs \ {d, s} : Pointers(j)' = Pointers(j)
        BY <1>3 DEF Pointers
  <2> QED BY <1>1, <2>1, <2>2 DEF InvHeld
<1>8. DataOutlivesTensor'
  <2>1. \A t \in live : t \in Pointers(d) => desc[t].deleter = "borrowed"
    <3>1. CASE HasNone(d)
          BY <3>1 DEF HasNone, Pointers, IndInv, TypeOK
    <3>2. CASE HasAll(d)
          BY <3>2, DescFields DEF HasAll, Pointers
    <3> QED BY <3>1, <3>2 DEF IndInv, InvInputs
  <2> QED BY <1>1, <2>1 DEF IndInv, DataOutlivesTensor
<1> QED BY <1>4, <1>5, <1>6, <1>7, <1>8 DEF IndInv

(* Freeing a result's forces takes their data with them and no other's. *)
LEMMA FreeForcesEffect ==
  ASSUME IndInv, NEW r \in Results, TensorFree({res[r].forces})
  PROVE  /\ live' = live \ {res[r].forces}
         /\ mem' = mem \ {res[r].forces}
<1>1. live' = live \ {res[r].forces}
      BY DEF TensorFree
<1>2. CASE res[r].forces = null
  <2>1. 0 \notin mem
        BY DEF IndInv, TypeOK
  <2> QED BY <1>1, <1>2, <2>1 DEF TensorFree
<1>3. CASE res[r].forces # null
  <2>1. desc[res[r].forces].deleter = "owned"
        BY <1>3, DescFields DEF IndInv, InvResults
  <2> QED BY <1>1, <1>3, <2>1 DEF TensorFree
<1> QED BY <1>2, <1>3

LEMMA DestroyResultInv ==
  ASSUME IndInv, NEW r \in Results, DestroyResult(r)
  PROVE  IndInv'
<1>1. /\ live' = live \ {res[r].forces}
      /\ mem' = mem \ {res[r].forces}
      /\ UNCHANGED <<made, desc, inp>>
      BY FreeForcesEffect DEF DestroyResult
<1>2. /\ res' \in [Results -> ResultType]
      /\ res'[r].forces = null
      /\ \A s \in Results \ {r} : res'[s] = res[s]
      BY DEF DestroyResult, IndInv, TypeOK, NoResult, ResultType
<1>3. 0 \notin live
      BY DEF IndInv, TypeOK
<1>4. TypeOK'
      BY <1>1, <1>2 DEF IndInv, TypeOK, ResultType
<1>5. InvInputs'
  <2>1. ASSUME NEW j \in Inputs, inp[j].pos # null PROVE Pointers(j) \subseteq live'
    <3>1. Pointers(j) \subseteq live
          BY <2>1 DEF IndInv, InvInputs, HasNone, HasAll, Pointers
    <3>2. res[r].forces \notin Pointers(j)
          BY <1>3, <3>1 DEF IndInv, InvApart
    <3> QED BY <1>1, <3>1, <3>2
  <2> QED BY <1>1, <2>1, InputKept DEF InvInputs
<1>6. InvResults' /\ InvApart'
      BY <1>1, <1>2 DEF IndInv, InvResults, InvApart, Pointers
<1>7. InvHeld'
      BY <1>1, <1>2 DEF IndInv, InvHeld, Pointers
<1>8. DataOutlivesTensor'
  <2>1. res[r].forces # null => desc[res[r].forces].deleter = "owned"
        BY DescFields DEF IndInv, InvResults
  <2> QED BY <1>1, <2>1 DEF IndInv, DataOutlivesTensor
<1> QED BY <1>4, <1>5, <1>6, <1>7, <1>8 DEF IndInv

(* The forces of s go to d, whose own are freed. *)
LEMMA MoveResultInv ==
  ASSUME IndInv, NEW d \in Results, NEW s \in Results, d # s, res[s].exists,
         res' = [res EXCEPT ![d] = res[s], ![s].forces = null],
         live' = live \ {res[d].forces},
         mem' = mem \ {res[d].forces},
         UNCHANGED <<made, desc, inp>>
  PROVE  IndInv'
<1>1. res \in [Results -> ResultType] /\ 0 \notin live
      BY DEF IndInv, TypeOK, ResultType
<1>2. /\ res'[d] = res[s]
      /\ res'[s] = [res[s] EXCEPT !.forces = null]
      /\ \A r \in Results \ {d, s} : res'[r] = res[r]
      BY <1>1
<1>3. res' \in [Results -> ResultType] /\ res'[s].forces = null
  <2>1. /\ [res[s] EXCEPT !.forces = null] \in ResultType
        /\ [res[s] EXCEPT !.forces = null].forces = null
        BY <1>1 DEF ResultType
  <2> HIDE DEF ResultType
  <2> QED BY <1>1, <1>2, <2>1
<1>4. TypeOK'
      BY <1>3 DEF IndInv, TypeOK, ResultType
<1>5. InvInputs'
  <2>1. ASSUME NEW j \in Inputs, inp[j].pos # null PROVE Pointers(j) \subseteq live'
    <3>1. Pointers(j) \subseteq live
          BY <2>1 DEF IndInv, InvInputs, HasNone, HasAll, Pointers
    <3>2. res[d].forces \notin Pointers(j)
          BY <1>1, <3>1 DEF IndInv, InvApart
    <3> QED BY <3>1, <3>2
  <2> QED BY <2>1, InputKept DEF InvInputs
<1>6. InvResults' /\ InvApart'
      BY <1>2, <1>3 DEF IndInv, InvResults, InvApart, Pointers
<1>7. InvHeld'
      BY <1>2, <1>3 DEF IndInv, InvHeld, Pointers
<1>8. DataOutlivesTensor'
  <2>1. res[d].forces # null => desc[res[d].forces].deleter = "owned"
        BY DescFields DEF IndInv, InvResults
  <2> QED BY <2>1 DEF IndInv, DataOutlivesTensor
<1> QED BY <1>4, <1>5, <1>6, <1>7, <1>8 DEF IndInv

(* The trampoline's forces are a new tensor, as long as the positions. *)
LEMMA CalculateInv ==
  ASSUME IndInv, NEW i \in Inputs, NEW r \in Results, Calculate(i, r)
  PROVE  IndInv'
<1> DEFINE n == inp[i].n
           a == made + 1
           y == tensor_owned_cpu_f64_2d(n, 3)
           o == [exists |-> TRUE, forces |-> a, n |-> n]
           old == {res[r].forces} \ {null}
<1>1. n \in Nat /\ made \in Nat /\ a \in Ids /\ a \notin 1 .. made
      BY DEF IndInv, TypeOK, Calculate
<1>2. desc[inp[i].pos].shape[1] = n
  <2>1. HasAll(i)
        BY DEF IndInv, InvInputs, HasNone, Calculate
  <2>2. desc[inp[i].pos].shape = <<n, 3>>
        BY <2>1 DEF HasAll, tensor_cpu_f64_2d, Borrowed, Tensor
  <2> QED BY <2>2
<1>3. /\ made' = made + 1
      /\ desc' = [desc EXCEPT ![a] = y]
      /\ live' = (live \ old) \cup {a}
      /\ mem' = (mem \ old) \cup {a}
      /\ res' = [res EXCEPT ![r] = o]
      /\ inp' = inp
      BY <1>2 DEF Calculate, Forces
<1>4. y \in TensorType /\ Len(y.shape) = Len(y.strides) /\ y.deleter = "owned"
      BY <1>1, MadeTypes, DescFields
<1> HIDE DEF y
<1>5. /\ desc' \in [Ids -> TensorType]
      /\ desc'[a] = y
      /\ \A t \in 1 .. made : desc'[t] = desc[t]
      /\ \A t \in Ids \ {a} : desc'[t] = desc[t]
  <2> HIDE DEF TensorType
  <2> QED BY <1>1, <1>3, <1>4 DEF IndInv, TypeOK
<1>6. /\ res' \in [Results -> ResultType]
      /\ res'[r] = o
      /\ \A s \in Results \ {r} : res'[s] = res[s]
      BY <1>1, <1>3 DEF IndInv, TypeOK, ResultType
<1>7. live \subseteq 1 .. made /\ mem \subseteq 1 .. made
      BY DEF IndInv, TypeOK
<1>8. TypeOK'
  <2>1. \A t \in Ids : Len(desc'[t].shape) = Len(desc'[t].strides)
        BY <1>4, <1>5 DEF IndInv, TypeOK
  <2>2. made' \in 0 .. MaxTensors /\ a \in 1 .. made' /\ 1 .. made \subseteq 1 .. made'
    <3> HIDE DEF old
    <3> QED BY <1>1, <1>3
  <2>3. live' \subseteq 1 .. made' /\ mem' \subseteq 1 .. made'
        BY <1>3, <1>7, <2>2
  <2> QED BY <1>3, <1>5, <1>6, <2>1, <2>2, <2>3 DEF IndInv, TypeOK, ResultType
<1>9. \A j \in Inputs : inp[j].pos # null =>
        Pointers(j) \subseteq live /\ Pointers(j) \subseteq live'
  <2> SUFFICES ASSUME NEW j \in Inputs, inp[j].pos # null
               PROVE  Pointers(j) \subseteq live /\ Pointers(j) \subseteq live'
      OBVIOUS
  <2>1. Pointers(j) \subseteq live
        BY DEF IndInv, InvInputs, HasNone, HasAll, Pointers
  <2>2. Pointers(j) \cap old = {}
        BY DEF IndInv, InvApart
  <2> QED BY <1>3, <2>1, <2>2
<1>10. InvInputs'
       BY <1>3, <1>5, <1>9, InputKept DEF InvInputs
<1>11. InvResults'
  <2>1. ASSUME NEW s \in Results \ {r}, res[s].forces # null
        PROVE  /\ res[s].forces \in live' /\ res[s].forces \in 1 .. made
               /\ desc'[res[s].forces] = tensor_owned_cpu_f64_2d(res[s].n, 3)
        BY <1>3, <1>5, <1>7, <2>1 DEF IndInv, InvResults, InvApart
  <2> QED BY <1>3, <1>5, <1>6, <2>1 DEF IndInv, InvResults, y
<1>12. InvApart'
  <2>1. \A s \in Results : res[s].forces # a
        BY <1>1, <1>7 DEF IndInv, InvResults
  <2>2. ASSUME NEW j \in Inputs PROVE a \notin Pointers(j)
    <3>1. CASE HasNone(j)
          BY <1>1, <3>1 DEF HasNone, Pointers
    <3>2. CASE HasAll(j)
          BY <1>1, <1>7, <3>2 DEF HasAll, Pointers
    <3> QED BY <3>1, <3>2 DEF IndInv, InvInputs
  <2>3. \A j \in Inputs : Pointers(j)' = Pointers(j)
        BY <1>3 DEF Pointers
  <2> QED BY <1>3, <1>6, <2>1, <2>2, <2>3 DEF IndInv, InvApart
<1>13. InvHeld'
  <2>1. ASSUME NEW t \in live \ old
        PROVE  (\E j \in Inputs : t \in Pointers(j)) \/ \E s \in Results \ {r} : res[s].forces = t
        BY <1>7 DEF IndInv, InvHeld
  <2>2. \A j \in Inputs : Pointers(j)' = Pointers(j)
        BY <1>3 DEF Pointers
  <2> QED BY <1>3, <1>6, <2>1, <2>2 DEF InvHeld
<1>14. DataOutlivesTensor'
  <2>1. \A t \in old : desc[t].deleter = "owned"
        BY DescFields DEF IndInv, InvResults
  <2>2. \A t \in 1 .. made' : t \in 1 .. made \/ t = a
        BY <1>1, <1>3
  <2>3. \A t \in old : t \in 1 .. made
        BY <1>7 DEF IndInv, InvResults
  <2> QED BY <1>1, <1>3, <1>4, <1>5, <2>1, <2>2, <2>3 DEF IndInv, DataOutlivesTensor
<1> QED BY <1>8, <1>10, <1>11, <1>12, <1>13, <1>14 DEF IndInv

LEMMA NextInv == IndInv /\ [Next]_vars => IndInv'
<1> SUFFICES ASSUME IndInv, [Next]_vars PROVE IndInv'
    OBVIOUS
<1>1. ASSUME NEW i \in Inputs, NEW n \in Atoms, InputFromArrays(i, n) PROVE IndInv'
  <2>1. n \in Nat /\ 3 * n \in Nat /\ n * 3 <= 3 * n
        OBVIOUS
  <2> QED BY <1>1, <2>1, CreateInputInv DEF InputFromArrays
<1>2. ASSUME NEW i \in Inputs, NEW p \in VecLens, InputFromVectors(i, p) PROVE IndInv'
  <2>1. p \in Nat /\ p \div 3 \in Nat /\ (p \div 3) * 3 <= p
        OBVIOUS
  <2> QED BY <1>2, <2>1, CreateInputInv DEF InputFromVectors
<1>3. ASSUME NEW i \in Inputs, DestroyInput(i) PROVE IndInv'
  <2>1. NoInput \in {NoInput, MovedFrom(inp[i])}
        OBVIOUS
  <2> QED BY <1>3, <2>1, ReleaseInv DEF DestroyInput
<1>4. ASSUME NEW i \in Inputs, FreeInput(i) PROVE IndInv'
  <2>1. MovedFrom(inp[i]) \in {NoInput, MovedFrom(inp[i])}
        OBVIOUS
  <2> QED BY <1>4, <2>1, ReleaseInv DEF FreeInput
<1>5. ASSUME NEW d \in Inputs, NEW s \in Inputs, MoveConstructInput(d, s) PROVE IndInv'
  <2>1. d # s /\ HasNone(d)
        BY <1>5 DEF IndInv, InvInputs, HasAll, MoveConstructInput
  <2> QED BY <1>5, <2>1, MoveInputInv DEF MoveConstructInput
<1>6. ASSUME NEW d \in Inputs, NEW s \in Inputs, MoveAssignInput(d, s) PROVE IndInv'
      BY <1>6, MoveInputInv DEF MoveAssignInput
<1>7. ASSUME NEW i \in Inputs, NEW r \in Results, Calculate(i, r) PROVE IndInv'
      BY <1>7, CalculateInv
<1>8. ASSUME NEW r \in Results, DestroyResult(r) PROVE IndInv'
      BY <1>8, DestroyResultInv
<1>9. ASSUME NEW d \in Results, NEW s \in Results, MoveConstructResult(d, s) PROVE IndInv'
  <2>1. d # s /\ res[d].forces = null
        BY <1>9 DEF IndInv, InvResults, MoveConstructResult
  <2>2. 0 \notin live /\ 0 \notin mem
        BY DEF IndInv, TypeOK
  <2>3. live' = live \ {res[d].forces} /\ mem' = mem \ {res[d].forces}
        BY <1>9, <2>1, <2>2 DEF MoveConstructResult
  <2> QED BY <1>9, <2>1, <2>3, MoveResultInv DEF MoveConstructResult
<1>10. ASSUME NEW d \in Results, NEW s \in Results, MoveAssignResult(d, s) PROVE IndInv'
  <2>1. live' = live \ {res[d].forces} /\ mem' = mem \ {res[d].forces}
        BY <1>10, FreeForcesEffect DEF MoveAssignResult
  <2> QED BY <1>10, <2>1, MoveResultInv DEF MoveAssignResult
<1>11. CASE UNCHANGED vars
  <2> USE <1>11 DEF IndInv, vars
  <2>1. TypeOK' /\ DataOutlivesTensor'
        BY DEF TypeOK, DataOutlivesTensor
  <2>2. InvInputs' /\ InvResults'
        BY DEF InvInputs, HasNone, HasAll, InvResults
  <2>3. InvApart' /\ InvHeld'
        BY DEF InvApart, InvHeld, Pointers
  <2> QED BY <2>1, <2>2, <2>3
<1> QED BY <1>1, <1>2, <1>3, <1>4, <1>5, <1>6, <1>7, <1>8, <1>9, <1>10, <1>11
        DEF Next, CalculateMovedFrom

(* The inductive invariant holds throughout: an input has its three tensors  *)
(* or none, objects share none, and none is without an object.               *)
THEOREM Invariance == Spec => []IndInv
BY InitInv, NextInv, PTL DEF Spec

(* Every variable keeps its type: tensors of as many strides as dimensions,  *)
(* and no pointer to what was never made.                                    *)
THEOREM TypeCorrect == Spec => []TypeOK
<1>1. IndInv => TypeOK
      BY DEF IndInv
<1> QED BY <1>1, Invariance, PTL

(* A tensor's data lives as long as it should, and the caller's arrays are   *)
(* never freed (tensor.rs:9-11).                                             *)
THEOREM DataLives == Spec => []DataOutlivesTensor
<1>1. IndInv => DataOutlivesTensor
      BY DEF IndInv
<1> QED BY <1>1, Invariance, PTL

(* The holders of a tensor are the pointers of InvApart and InvHeld. *)
LEMMA HoldersOf ==
  ASSUME IndInv, NEW t
  PROVE  \A h : h \in Holders(t) <=>
            \/ \E i \in Inputs : h = <<i, "pos">> /\ inp[i].pos = t
            \/ \E i \in Inputs : h = <<i, "atm">> /\ inp[i].atm = t
            \/ \E i \in Inputs : h = <<i, "box">> /\ inp[i].box = t
            \/ \E r \in Results : h = <<r, "forces">> /\ res[r].forces = t
<1>1. ASSUME NEW i \in Inputs
      PROVE  inp[i]["pos"] = inp[i].pos /\ inp[i]["atm"] = inp[i].atm /\ inp[i]["box"] = inp[i].box
      BY DEF IndInv, TypeOK
<1>2. \A h : h \in Holders(t) <=>
            \/ \E i \in Inputs, f \in {"pos", "atm", "box"} : h = <<i, f>> /\ inp[i][f] = t
            \/ \E r \in Results : h = <<r, "forces">> /\ res[r].forces = t
      BY DEF Holders
<1> QED BY <1>1, <1>2

(* No tensor is owned twice, none is leaked and no pointer dangles, whatever *)
(* is moved, assigned, freed and destroyed (types.rs:11-17).                 *)
THEOREM OwnedOnce == Spec => []TensorsOwnedOnce
<1>1. ASSUME IndInv, NEW t \in 1 .. made
      PROVE  Cardinality(Holders(t)) = IF t \in live THEN 1 ELSE 0
  <2>1. CASE t \notin live
    <3>1. Holders(t) = {}
          BY <1>1, <2>1, HoldersOf DEF IndInv, InvInputs, HasNone, HasAll, InvResults
    <3> QED BY <2>1, <3>1, FS_EmptySet
  <2>2. CASE t \in live
    <3>1. PICK h : h \in Holders(t)
          BY <1>1, <2>2, HoldersOf DEF IndInv, InvHeld, Pointers
    <3>2. ASSUME NEW g \in Holders(t) PROVE g = h
      <4>1. t # null
            OBVIOUS
      <4>2. ASSUME NEW i \in Inputs, t \in Pointers(i)
            PROVE  /\ HasAll(i) /\ inp[i].pos \in Nat /\ inp[i].pos # null
                   /\ \A r \in Results : res[r].forces # t
        <5>1. HasAll(i)
              BY <1>1, <4>1, <4>2 DEF IndInv, InvInputs, HasNone, Pointers
        <5>2. inp[i].pos \in 1 .. made
              BY <1>1, <5>1 DEF IndInv, TypeOK, HasAll
        <5>3. \A r \in Results : res[r].forces # t
              BY <1>1, <4>1, <4>2 DEF IndInv, InvApart
        <5> QED BY <5>1, <5>2, <5>3
      <4>3. ASSUME NEW i \in Inputs, NEW j \in Inputs, t \in Pointers(i), t \in Pointers(j)
            PROVE  i = j
        <5>1. /\ HasAll(i) /\ inp[i].pos \in Nat /\ inp[i].pos # null
              /\ HasAll(j) /\ inp[j].pos \in Nat /\ inp[j].pos # null
              BY <4>2, <4>3
        <5>2. i # j => inp[i].box < inp[j].pos \/ inp[j].box < inp[i].pos
              BY <1>1, <5>1 DEF IndInv, InvApart
        <5>3. /\ t \in inp[i].pos .. inp[i].box /\ t \in inp[j].pos .. inp[j].box
              BY <4>3, <5>1 DEF HasAll, Pointers
        <5> QED BY <5>1, <5>2, <5>3 DEF HasAll
      <4>4. ASSUME NEW i \in Inputs, t \in Pointers(i)
            PROVE  \E f : \A x : x \in Holders(t) => x = <<i, f>>
        <5>1. \A x \in Holders(t) : \/ x = <<i, "pos">> /\ inp[i].pos = t
                                    \/ x = <<i, "atm">> /\ inp[i].atm = t
                                    \/ x = <<i, "box">> /\ inp[i].box = t
              BY <1>1, <4>2, <4>3, <4>4, HoldersOf DEF Pointers
        <5>2. /\ ~(inp[i].pos = t /\ inp[i].atm = t)
              /\ ~(inp[i].pos = t /\ inp[i].box = t)
              /\ ~(inp[i].atm = t /\ inp[i].box = t)
              BY <4>2, <4>4 DEF HasAll
        <5> QED BY <5>1, <5>2
      <4>5. ASSUME NEW r \in Results, res[r].forces = t
            PROVE  \A x \in Holders(t) : x = <<r, "forces">>
        <5>1. \A i \in Inputs : t \notin Pointers(i)
              BY <4>2, <4>5
        <5>2. \A q \in Results : res[q].forces = t => q = r
              BY <1>1, <4>1, <4>5 DEF IndInv, InvApart
        <5> QED BY <1>1, <5>1, <5>2, HoldersOf DEF Pointers
      <4>6. \/ \E i \in Inputs : t \in Pointers(i)
            \/ \E r \in Results : res[r].forces = t
            BY <1>1, <2>2 DEF IndInv, InvHeld
      <4> QED BY <3>1, <3>2, <4>4, <4>5, <4>6
    <3>3. Holders(t) = {h}
          BY <3>1, <3>2
    <3> QED BY <2>2, <3>3, FS_Singleton
  <2> QED BY <2>1, <2>2
<1>2. IndInv => TensorsOwnedOnce
      BY <1>1 DEF TensorsOwnedOnce
<1> QED BY <1>2, Invariance, PTL

(* Inputs have three tensors that agree, or none, and a result's forces are  *)
(* those of its atoms (types.rs:19-26).                                      *)
THEOREM ShapesStayValid == Spec => []ShapesAgree
<1>1. ASSUME IndInv PROVE ShapesAgree
  <2>1. ASSUME NEW i \in Inputs, inp[i].pos # null
        PROVE  /\ inp[i].atm # null /\ inp[i].box # null
               /\ ValidPositions(inp[i].pos) /\ desc[inp[i].pos].shape[1] = inp[i].n
               /\ ValidAtomicNumbers(inp[i].atm, inp[i].n)
               /\ ValidBox(inp[i].box)
    <3>1. HasAll(i) /\ inp[i].pos \in Nat /\ inp[i].n \in Nat
          BY <1>1, <2>1 DEF IndInv, TypeOK, InvInputs, HasNone
    <3>2. /\ desc[inp[i].pos].dtype = "f64" /\ desc[inp[i].pos].shape = <<inp[i].n, 3>>
          /\ desc[inp[i].atm].dtype = "i32" /\ desc[inp[i].atm].shape = <<inp[i].n>>
          /\ desc[inp[i].box].dtype = "f64" /\ desc[inp[i].box].shape = <<3, 3>>
          BY <3>1 DEF HasAll, tensor_cpu_f64_2d, tensor_cpu_i32_1d,
                      tensor_cpu_f64_matrix3, Borrowed, Tensor
    <3>3. inp[i].atm # null /\ inp[i].box # null
          BY <3>1 DEF HasAll
    <3> QED BY <3>1, <3>2, <3>3, PairSeq DEF ValidPositions, ValidAtomicNumbers, ValidBox
  <2>2. \A i \in Inputs : inp[i].pos = null => inp[i].atm = null /\ inp[i].box = null
        BY <1>1 DEF IndInv, TypeOK, InvInputs, HasNone, HasAll
  <2>3. \A r \in Results : res[r].forces # null =>
          desc[res[r].forces].shape = <<res[r].n, 3>>
        BY <1>1, OwnedFields DEF IndInv, InvResults, TypeOK
  <2> QED BY <2>1, <2>2, <2>3 DEF ShapesAgree
<1> QED BY <1>1, Invariance, PTL

(* For any number of atoms and any vector, the strides of every live tensor  *)
(* address the elements of its array, each once, in row-major order, and     *)
(* never leave it (tensor.rs compute_row_major_strides).                     *)
THEOREM LayoutCorrect == Spec => []AddressesItsArray
<1>1. ASSUME IndInv, NEW t \in live PROVE Addresses(desc[t])
  <2>1. ASSUME NEW i \in Inputs, t \in Pointers(i) PROVE Addresses(desc[t])
    <3>1. HasAll(i) /\ inp[i].n \in Nat
          BY <1>1, <2>1 DEF IndInv, TypeOK, InvInputs, HasNone, Pointers
    <3>2. CASE t = inp[i].pos
      <4>1. /\ desc[t].shape = <<inp[i].n, 3>> /\ desc[t].strides = Strides(<<inp[i].n, 3>>)
            /\ inp[i].n * 3 <= desc[t].len
            BY <3>1, <3>2 DEF HasAll, tensor_cpu_f64_2d, Borrowed, Tensor
      <4>2. desc[t].len \in Nat
            BY <1>1 DEF IndInv, TypeOK, TensorType
      <4> QED BY <3>1, <4>1, <4>2, PairAddresses
    <3>3. CASE t = inp[i].atm
      <4>1. /\ desc[t].shape = <<inp[i].n>> /\ desc[t].strides = Strides(<<inp[i].n>>)
            /\ desc[t].len = inp[i].n
            BY <3>1, <3>3 DEF HasAll, tensor_cpu_i32_1d, Borrowed, Tensor
      <4> QED BY <3>1, <4>1, SingleAddresses
    <3>4. CASE t = inp[i].box
      <4>1. /\ desc[t].shape = <<3, 3>> /\ desc[t].strides = Strides(<<3, 3>>)
            /\ desc[t].len = 9
            BY <3>1, <3>4 DEF HasAll, tensor_cpu_f64_matrix3, Borrowed, Tensor
      <4>2. 3 \in Nat /\ 9 \in Nat /\ 3 * 3 <= 9
            OBVIOUS
      <4> QED BY <4>1, <4>2, PairAddresses
    <3> QED BY <2>1, <3>2, <3>3, <3>4 DEF Pointers
  <2>2. ASSUME NEW r \in Results, res[r].forces = t PROVE Addresses(desc[t])
    <3>1. t # null /\ res[r].n \in Nat
          BY <1>1 DEF IndInv, TypeOK
    <3>2. /\ desc[t].shape = <<res[r].n, 3>> /\ desc[t].strides = Strides(<<res[r].n, 3>>)
          /\ desc[t].len = res[r].n * 3
          BY <1>1, <2>2, <3>1, OwnedFields DEF IndInv, InvResults
    <3>3. res[r].n * 3 \in Nat /\ res[r].n * 3 <= res[r].n * 3
          BY <3>1
    <3> QED BY <3>1, <3>2, <3>3, PairAddresses
  <2> QED BY <1>1, <2>1, <2>2 DEF IndInv, InvHeld
<1>2. IndInv => AddressesItsArray
      BY <1>1 DEF AddressesItsArray, Addresses
<1> QED BY <1>2, Invariance, PTL
=============================================================================
