---------------------------- MODULE SharedLemmas ----------------------------
(***************************************************************************)
(* What several proofs need: the locks a transaction holds that takes      *)
(* those of a sequence one after the other, and sums.                      *)
(***************************************************************************)
EXTENDS RowLocks, Totals, FiniteSetTheorems, TLAPS

-----------------------------------------------------------------------------
(* Row locks *)

(* A lock is one of those a sequence lists.                                *)
Has(seq, lock) == \E i \in DOMAIN seq : seq[i] = lock

(* It does not matter which of two transactions holds a lock already.      *)
LEMMA ConflictSymmetric ==
  ASSUME NEW a, NEW b, Conflict(a, b)
  PROVE  Conflict(b, a)
BY DEF Conflict

(* A lock for update excludes every other lock on the row.                 *)
LEMMA UpdateExcludes ==
  ASSUME NEW row, NEW lock \in {Update(row), NoKey(row), KeyShare(row)}
  PROVE  Conflict(Update(row), lock) /\ Conflict(lock, Update(row))
<1>1. Update(row)[1] = row /\ Update(row)[2] = "for update"
  BY DEF Update
<1>2. lock[1] = row
  <2>1. CASE lock = Update(row)
    BY <2>1 DEF Update
  <2>2. CASE lock = NoKey(row)
    BY <2>2 DEF NoKey
  <2>3. CASE lock = KeyShare(row)
    BY <2>3 DEF KeyShare
  <2> QED
    BY <2>1, <2>2, <2>3
<1> QED
  BY <1>1, <1>2 DEF Conflict

(* Before the first lock nothing is held.                                  *)
LEMMA NoLocks ==
  ASSUME NEW seq
  PROVE  FirstLocks(seq, 0) = {}
BY DEF FirstLocks

(* One more lock is the next one of the sequence.                          *)
LEMMA NextLock ==
  ASSUME NEW L, NEW seq \in Seq(L), NEW n \in Nat, n < Len(seq)
  PROVE  FirstLocks(seq, n + 1) = FirstLocks(seq, n) \cup {seq[n + 1]}
<1>1. DOMAIN seq = 1..Len(seq) /\ Len(seq) \in Nat
  OBVIOUS
<1>2. DOMAIN seq \cap 1..(n + 1) = (DOMAIN seq \cap 1..n) \cup {n + 1}
  BY <1>1
<1> QED
  BY <1>2 DEF FirstLocks

(* At the end all of them are held.                                        *)
LEMMA AllLocks ==
  ASSUME NEW L, NEW seq \in Seq(L), NEW n \in Nat, ~(n < Len(seq)),
         NEW lock, Has(seq, lock)
  PROVE  lock \in FirstLocks(seq, n)
<1>1. DOMAIN seq = 1..Len(seq) /\ Len(seq) \in Nat
  OBVIOUS
<1>2. DOMAIN seq \cap 1..n = DOMAIN seq
  BY <1>1
<1> QED
  BY <1>2 DEF FirstLocks, Has

(* A sequence put together of two has the locks of both.                   *)
LEMMA HasConcat ==
  ASSUME NEW L, NEW seq \in Seq(L), NEW more \in Seq(L)
  PROVE  /\ seq \o more \in Seq(L)
         /\ \A lock : Has(seq, lock) \/ Has(more, lock) =>
                        Has(seq \o more, lock)
<1>1. seq \o more \in Seq(L)
  OBVIOUS
<1>2. ASSUME NEW lock, Has(seq, lock) PROVE Has(seq \o more, lock)
  BY <1>2 DEF Has
<1>3. ASSUME NEW lock, Has(more, lock) PROVE Has(seq \o more, lock)
  <2>1. PICK i \in DOMAIN more : more[i] = lock
    BY <1>3 DEF Has
  <2>2. /\ Len(seq) + i \in DOMAIN (seq \o more)
        /\ (seq \o more)[Len(seq) + i] = lock
    BY <2>1
  <2> QED
    BY <2>2 DEF Has
<1> QED
  BY <1>1, <1>2, <1>3

(* A lock that is only taken sometimes.                                    *)
LEMMA LockIf ==
  ASSUME NEW L, NEW lock, NEW there \in BOOLEAN, there => lock \in L
  PROVE  /\ (IF there THEN <<lock>> ELSE <<>>) \in Seq(L)
         /\ there => Has(IF there THEN <<lock>> ELSE <<>>, lock)
BY DEF Has

(* A foreign key that is not null shares its row.                          *)
LEMMA KeyShareIfLocks ==
  ASSUME NEW L, NEW row, NEW there \in BOOLEAN, there => KeyShare(row) \in L
  PROVE  /\ KeyShareIf(there, row) \in Seq(L)
         /\ there => Has(KeyShareIf(there, row), KeyShare(row))
BY LockIf DEF KeyShareIf

-----------------------------------------------------------------------------
(* Sums *)

Units(f) == UNION {{x} \X (1..f[x]) : x \in DOMAIN f}

(* One x stands for f[x] units.                                            *)
LEMMA UnitsOf ==
  ASSUME NEW S, NEW f \in [S -> Nat]
  PROVE  \A u : u \in Units(f) <=> \E x \in S : \E i \in 1..f[x] : u = <<x, i>>
BY DEF Units

LEMMA ElementUnits ==
  ASSUME NEW x, NEW n \in Nat
  PROVE  IsFiniteSet({x} \X (1..n)) /\ Cardinality({x} \X (1..n)) = n
<1>1. IsFiniteSet({x}) /\ Cardinality({x}) = 1
  BY FS_Singleton
<1>2. IsFiniteSet(1..n) /\ Cardinality(1..n) = n
  BY FS_Interval
<1>3. /\ IsFiniteSet({x} \X (1..n))
      /\ Cardinality({x} \X (1..n)) = Cardinality({x}) * Cardinality(1..n)
  BY <1>1, <1>2, FS_Product
<1> QED
  BY <1>1, <1>2, <1>3

(* A sum over a finite set is a number.                                    *)
LEMMA TotalIsNat ==
  ASSUME NEW S, IsFiniteSet(S), NEW f \in [S -> Nat]
  PROVE  IsFiniteSet(Units(f)) /\ Total(f) = Cardinality(Units(f)) /\ Total(f) \in Nat
<1> DEFINE parts == {{x} \X (1..f[x]) : x \in S}
           part  == [x \in S |-> {x} \X (1..f[x])]
<1>1. part \in Surjection(S, parts)
  BY DEF Surjection
<1>2. IsFiniteSet(parts)
  BY <1>1, FS_Surjection
<1>3. ASSUME NEW P \in parts PROVE IsFiniteSet(P)
  <2>1. PICK x \in S : P = {x} \X (1..f[x])
    OBVIOUS
  <2>2. f[x] \in Nat
    OBVIOUS
  <2> QED
    BY <2>1, <2>2, ElementUnits
<1> HIDE DEF parts
<1>4. IsFiniteSet(UNION parts)
  BY <1>2, <1>3, FS_UNION
<1>5. UNION parts = Units(f)
  BY DEF parts, Units
<1>6. Total(f) = Cardinality(Units(f))
  BY DEF Total, Units
<1> QED
  BY <1>4, <1>5, <1>6, FS_CardinalityType

(* A sum grows with what is summed up.                                     *)
LEMMA TotalMonotone ==
  ASSUME NEW S, IsFiniteSet(S), NEW f \in [S -> Nat], NEW g \in [S -> Nat],
         \A x \in S : f[x] <= g[x]
  PROVE  Total(f) <= Total(g)
<1>1. Units(f) \subseteq Units(g)
  <2> SUFFICES ASSUME NEW u \in Units(f) PROVE u \in Units(g)
    OBVIOUS
  <2>1. PICK x \in S : \E j \in 1..f[x] : u = <<x, j>>
    BY UnitsOf
  <2>2. PICK i \in 1..f[x] : u = <<x, i>>
    BY <2>1
  <2>3. f[x] \in Nat /\ g[x] \in Nat /\ f[x] <= g[x]
    OBVIOUS
  <2>4. i \in 1..g[x]
    BY <2>3
  <2> QED
    BY <2>2, <2>4, UnitsOf
<1> QED
  BY <1>1, TotalIsNat, FS_Subset

(* An element that changes changes the sum by as much.                     *)
LEMMA TotalChange ==
  ASSUME NEW S, IsFiniteSet(S), NEW f \in [S -> Nat], NEW g \in [S -> Nat],
         NEW x \in S, \A y \in S : y # x => g[y] = f[y]
  PROVE  Total(g) + f[x] = Total(f) + g[x]
<1> DEFINE others(h) == Units(h) \ ({x} \X (1..h[x]))
<1>1. ASSUME NEW h \in [S -> Nat]
      PROVE  /\ Total(h) = Cardinality(others(h)) + h[x]
             /\ Cardinality(others(h)) \in Nat
  <2> DEFINE own == {x} \X (1..h[x])
  <2>1. IsFiniteSet(own) /\ Cardinality(own) = h[x] /\ h[x] \in Nat
    BY ElementUnits
  <2>2. Units(h) \cap own = own
    BY UnitsOf
  <2>3. /\ IsFiniteSet(Units(h)) /\ Total(h) = Cardinality(Units(h))
        /\ Cardinality(Units(h)) \in Nat
    BY TotalIsNat
  <2> HIDE DEF own
  <2>4. /\ IsFiniteSet(Units(h) \ own)
        /\ Cardinality(Units(h) \ own) = Cardinality(Units(h)) - h[x]
    <3>1. /\ IsFiniteSet(Units(h) \ own)
          /\ Cardinality(Units(h) \ own)
               = Cardinality(Units(h)) - Cardinality(Units(h) \cap own)
      BY <2>3, FS_Difference
    <3> QED
      BY <2>1, <2>2, <3>1
  <2>5. Cardinality(Units(h) \ own) \in Nat
    BY <2>4, FS_CardinalityType
  <2> QED
    BY <2>1, <2>3, <2>4, <2>5 DEF own
<1>2. others(f) = others(g)
  <2>1. ASSUME NEW h \in [S -> Nat]
        PROVE  \A u : u \in others(h) <=>
                 \E y \in S : \E i \in 1..h[y] : y # x /\ u = <<y, i>>
    BY UnitsOf
  <2>2. \A u : u \in others(f) <=> u \in others(g)
    BY <2>1
  <2> HIDE DEF others
  <2> QED
    BY <2>2
<1>3. f[x] \in Nat /\ g[x] \in Nat
  OBVIOUS
<1> HIDE DEF others
<1> QED
  BY <1>1, <1>2, <1>3

(* No element is more than the sum.                                        *)
LEMMA TotalElement ==
  ASSUME NEW S, IsFiniteSet(S), NEW f \in [S -> Nat], NEW x \in S
  PROVE  f[x] <= Total(f)
<1>1. IsFiniteSet({x} \X (1..f[x])) /\ Cardinality({x} \X (1..f[x])) = f[x]
  BY ElementUnits
<1>2. {x} \X (1..f[x]) \subseteq Units(f)
  BY UnitsOf
<1> QED
  BY <1>1, <1>2, TotalIsNat, FS_Subset

(* Nothing adds up to nothing.                                             *)
LEMMA TotalOfNothing ==
  ASSUME NEW f, \A x \in DOMAIN f : f[x] = 0
  PROVE  Total(f) = 0
<1>1. Units(f) = {}
  BY DEF Units
<1> QED
  BY <1>1, FS_EmptySet DEF Total, Units

(* A sum is that of a part and that of the rest.                           *)
LEMMA TotalSplit ==
  ASSUME NEW S, IsFiniteSet(S), NEW P, P \subseteq S,
         NEW f \in [S -> Nat], NEW g \in [S -> Nat], NEW h \in [P -> Nat],
         \A x \in P : h[x] = f[x] /\ g[x] = 0,
         \A x \in S \ P : g[x] = f[x]
  PROVE  Total(f) = Total(g) + Total(h)
<1>1. IsFiniteSet(P)
  BY FS_Subset
<1>2. /\ IsFiniteSet(Units(g)) /\ Total(g) = Cardinality(Units(g))
      /\ IsFiniteSet(Units(h)) /\ Total(h) = Cardinality(Units(h))
      /\ Total(f) = Cardinality(Units(f)) /\ Total(g) \in Nat /\ Total(h) \in Nat
  BY <1>1, TotalIsNat
<1>3. Units(f) = Units(g) \cup Units(h)
  <2>1. ASSUME NEW u \in Units(f) PROVE u \in Units(g) \cup Units(h)
    <3>1. PICK x \in S : \E i \in 1..f[x] : u = <<x, i>>
      BY UnitsOf
    <3>2. CASE x \in P
      BY <3>1, <3>2, UnitsOf
    <3>3. CASE x \notin P
      BY <3>1, <3>3, UnitsOf
    <3> QED
      BY <3>2, <3>3
  <2>2. ASSUME NEW u \in Units(g) PROVE u \in Units(f)
    <3>1. PICK x \in S : \E i \in 1..g[x] : u = <<x, i>>
      BY UnitsOf
    <3>2. x \notin P
      BY <3>1
    <3> QED
      BY <3>1, <3>2, UnitsOf
  <2>3. ASSUME NEW u \in Units(h) PROVE u \in Units(f)
    <3>1. PICK x \in P : \E i \in 1..h[x] : u = <<x, i>>
      BY UnitsOf
    <3> QED
      BY <3>1, UnitsOf
  <2> QED
    BY <2>1, <2>2, <2>3
<1>4. Units(g) \cap Units(h) = {}
  <2> SUFFICES ASSUME NEW u \in Units(g), u \in Units(h) PROVE FALSE
    OBVIOUS
  <2>1. PICK x \in S : \E i \in 1..g[x] : u = <<x, i>>
    BY UnitsOf
  <2>2. PICK y \in P : \E i \in 1..h[y] : u = <<y, i>>
    BY UnitsOf
  <2>3. x = y
    BY <2>1, <2>2
  <2>4. g[x] = 0
    BY <2>3
  <2> QED
    BY <2>1, <2>4
<1>5. Cardinality(Units(g) \cup Units(h))
        = Cardinality(Units(g)) + Cardinality(Units(h)) - Cardinality({})
  BY <1>2, <1>4, FS_Union
<1>6. Cardinality({}) = 0
  BY FS_EmptySet
<1> QED
  BY <1>2, <1>3, <1>5, <1>6

=============================================================================
