-------------------------- MODULE CacheStoreProofs --------------------------
(***************************************************************************)
(* Proofs about CacheStore and CacheRecency, for every set of keys, tags,  *)
(* values and policies and every budget: the structure is sound, and       *)
(* eviction takes the least recently used entry, after any history.        *)
(***************************************************************************)
EXTENDS CacheRecency, TLAPS, WellFoundedInduction
-----------------------------------------------------------------------------
(* The recency list.                                                       *)

(* A function on 1..n into S is a sequence of length n.                    *)
LEMMA FunctionIsSeq ==
  ASSUME NEW S, NEW n \in Nat, NEW f \in [1..n -> S]
  PROVE  f \in Seq(S) /\ Len(f) = n
  OBVIOUS

(* Place finds a listed key.                                               *)
LEMMA PlaceFinds ==
  ASSUME NEW order \in Seq(Key), NEW k \in Listed(order)
  PROVE  Place(order, k) \in 1..Len(order) /\ order[Place(order, k)] = k
  <1>1. \E i \in 1..Len(order) : order[i] = k
    BY DEF Listed
  <1> QED
    BY <1>1 DEF Place

(* list.MoveToFront permutes the list and puts k first.                    *)
LEMMA MoveToFrontKeeps ==
  ASSUME NEW order \in Seq(Key), Distinct(order), NEW k \in Listed(order)
  PROVE  LET moved == MoveToFront(order, k)
         IN  /\ moved \in Seq(Key) /\ Len(moved) = Len(order)
             /\ Listed(moved) = Listed(order)
             /\ Distinct(moved)
             /\ moved[1] = k
  <1> DEFINE moved == MoveToFront(order, k)
             p == Place(order, k)
  <1>1. p \in 1..Len(order) /\ order[p] = k /\ k \in Key
    BY PlaceFinds DEF Listed
  <1>2. moved = [i \in 1..Len(order) |-> IF i = 1 THEN k
                                         ELSE IF i <= p THEN order[i - 1] ELSE order[i]]
    BY DEF MoveToFront
  <1> HIDE DEF moved, p
  <1>3. moved \in [1..Len(order) -> Key]
    BY <1>1, <1>2
  <1>4. moved \in Seq(Key) /\ Len(moved) = Len(order)
    BY <1>3, FunctionIsSeq
  <1>5. moved[1] = k
    BY <1>1, <1>2
  <1>6. \A i \in 1..Len(order) :
          \E j \in 1..Len(order) : moved[i] = order[j]
    BY <1>1, <1>2
  <1>7. \A j \in 1..Len(order) :
          \E i \in 1..Len(order) : moved[i] = order[j]
    <2> TAKE j \in 1..Len(order)
    <2>1. CASE j = p
      BY <2>1, <1>1, <1>2
    <2>2. CASE j < p
      <3>1. j + 1 \in 1..Len(order) /\ moved[j + 1] = order[j]
        BY <2>2, <1>1, <1>2
      <3> QED
        BY <3>1
    <2>3. CASE j > p
      <3>1. moved[j] = order[j]
        BY <2>3, <1>1, <1>2
      <3> QED
        BY <3>1
    <2> QED
      BY <2>1, <2>2, <2>3, <1>1
  <1>8. Listed(moved) = Listed(order)
    <2>1. ASSUME NEW x \in Listed(moved) PROVE x \in Listed(order)
      <3>1. PICK i \in 1..Len(order) : x = moved[i]
        BY <1>4 DEF Listed
      <3>2. PICK j \in 1..Len(order) : moved[i] = order[j]
        BY <1>6
      <3> QED
        BY <3>1, <3>2 DEF Listed
    <2>2. ASSUME NEW x \in Listed(order) PROVE x \in Listed(moved)
      <3>1. PICK j \in 1..Len(order) : x = order[j]
        BY DEF Listed
      <3>2. PICK i \in 1..Len(order) : moved[i] = order[j]
        BY <1>7
      <3> QED
        BY <3>1, <3>2, <1>4 DEF Listed
    <2> QED
      BY <2>1, <2>2
  <1>9. Distinct(moved)
    <2> DEFINE origin(i) == IF i = 1 THEN p ELSE IF i <= p THEN i - 1 ELSE i
    <2>1. \A i \in 1..Len(order) : origin(i) \in 1..Len(order) /\ moved[i] = order[origin(i)]
      BY <1>1, <1>2
    <2>2. \A i, j \in 1..Len(order) : origin(i) = origin(j) => i = j
      BY <1>1
    <2> HIDE DEF origin
    <2> SUFFICES ASSUME NEW i \in 1..Len(order), NEW j \in 1..Len(order), moved[i] = moved[j]
                 PROVE  i = j
      BY <1>4 DEF Distinct
    <2>3. order[origin(i)] = order[origin(j)]
      BY <2>1
    <2>4. origin(i) = origin(j)
      BY <2>1, <2>3 DEF Distinct
    <2> QED
      BY <2>2, <2>4
  <1> QED
    BY <1>4, <1>5, <1>8, <1>9 DEF moved

(* list.Remove takes k out and keeps the others in their order.            *)
LEMMA UnlinkKeeps ==
  ASSUME NEW order \in Seq(Key), Distinct(order), NEW k \in Listed(order)
  PROVE  LET left == Unlink(order, k)
         IN  /\ left \in Seq(Key) /\ Len(left) = Len(order) - 1
             /\ Listed(left) = Listed(order) \ {k}
             /\ Distinct(left)
  <1> DEFINE left == Unlink(order, k)
             p == Place(order, k)
  <1>1. p \in 1..Len(order) /\ order[p] = k /\ k \in Key
    BY PlaceFinds DEF Listed
  <1>2. left = [i \in 1..(Len(order) - 1) |-> IF i < p THEN order[i] ELSE order[i + 1]]
    BY DEF Unlink
  <1> HIDE DEF left, p
  <1>3. Len(order) - 1 \in Nat /\ left \in [1..(Len(order) - 1) -> Key]
    BY <1>1, <1>2
  <1>4. left \in Seq(Key) /\ Len(left) = Len(order) - 1
    BY <1>3, FunctionIsSeq
  <1>5. \A i \in 1..(Len(order) - 1) :
          \E j \in 1..Len(order) : left[i] = order[j] /\ order[j] # k
    <2> TAKE i \in 1..(Len(order) - 1)
    <2>1. CASE i < p
      BY <2>1, <1>1, <1>2 DEF Distinct
    <2>2. CASE i >= p
      <3>1. i + 1 \in 1..Len(order) /\ left[i] = order[i + 1] /\ i + 1 # p
        BY <2>2, <1>1, <1>2
      <3> QED
        BY <3>1, <1>1 DEF Distinct
    <2> QED
      BY <2>1, <2>2, <1>1
  <1>6. \A j \in 1..Len(order) :
          order[j] # k => \E i \in 1..(Len(order) - 1) : left[i] = order[j]
    <2> SUFFICES ASSUME NEW j \in 1..Len(order), order[j] # k
                 PROVE  \E i \in 1..(Len(order) - 1) : left[i] = order[j]
      OBVIOUS
    <2>1. CASE j < p
      <3>1. j \in 1..(Len(order) - 1) /\ left[j] = order[j]
        BY <2>1, <1>1, <1>2
      <3> QED
        BY <3>1
    <2>2. CASE j > p
      <3>1. j - 1 \in 1..(Len(order) - 1) /\ left[j - 1] = order[j]
        BY <2>2, <1>1, <1>2
      <3> QED
        BY <3>1
    <2> QED
      BY <2>1, <2>2, <1>1
  <1>7. Listed(left) = Listed(order) \ {k}
    <2>1. \A x \in Listed(left) : x \in Listed(order) \ {k}
      BY <1>4, <1>5 DEF Listed
    <2>2. \A x \in Listed(order) \ {k} : x \in Listed(left)
      BY <1>4, <1>6 DEF Listed
    <2> QED
      BY <2>1, <2>2
  <1>8. Distinct(left)
    BY <1>1, <1>2, <1>4 DEF Distinct
  <1> QED
    BY <1>4, <1>7, <1>8 DEF left

(* list.PushFront adds a key that was not listed.                          *)
LEMMA PushFrontKeeps ==
  ASSUME NEW order \in Seq(Key), Distinct(order), NEW k \in Key, k \notin Listed(order)
  PROVE  LET more == PushFront(order, k)
         IN  /\ more \in Seq(Key) /\ Len(more) = Len(order) + 1
             /\ Listed(more) = Listed(order) \cup {k}
             /\ Distinct(more)
             /\ more[1] = k
  <1> DEFINE more == PushFront(order, k)
  <1>1. more = [i \in 1..(Len(order) + 1) |-> IF i = 1 THEN k ELSE order[i - 1]]
    BY DEF PushFront
  <1> HIDE DEF more
  <1>2. Len(order) + 1 \in Nat /\ more \in [1..(Len(order) + 1) -> Key]
    BY <1>1
  <1>3. more \in Seq(Key) /\ Len(more) = Len(order) + 1
    BY <1>2, FunctionIsSeq
  <1>4. more[1] = k
    BY <1>1
  <1>5. \A j \in 1..Len(order) : j + 1 \in 1..Len(more) /\ more[j + 1] = order[j]
    BY <1>1, <1>3
  <1>6. \A i \in 1..Len(more) : i # 1 => i - 1 \in 1..Len(order) /\ more[i] = order[i - 1]
    BY <1>1, <1>3
  <1>7. 1 \in 1..Len(more)
    BY <1>3
  <1>8. Listed(more) = Listed(order) \cup {k}
    <2>1. \A x \in Listed(more) : x \in Listed(order) \cup {k}
      BY <1>4, <1>6 DEF Listed
    <2>2. \A x \in Listed(order) \cup {k} : x \in Listed(more)
      BY <1>4, <1>5, <1>7 DEF Listed
    <2> QED
      BY <2>1, <2>2
  <1>9. Distinct(more)
    <2> SUFFICES ASSUME NEW i \in 1..Len(more), NEW j \in 1..Len(more), more[i] = more[j]
                 PROVE  i = j
      BY DEF Distinct
    <2>1. CASE i = 1 \/ j = 1
      BY <2>1, <1>4, <1>6 DEF Listed
    <2>2. CASE i # 1 /\ j # 1
      BY <2>2, <1>6, <1>3 DEF Distinct
    <2> QED
      BY <2>1, <2>2
  <1> QED
    BY <1>3, <1>4, <1>8, <1>9 DEF more
-----------------------------------------------------------------------------
(* Sums along a list.                                                      *)

(* sum is the running total of a[1], ..., a[n].  That such a total exists  *)
(* and ends in "total" says that total is the sum of a[1..n], in a form    *)
(* that needs no induction over the list.                                  *)
Running(a, n, sum) ==
  /\ sum \in [0..n -> Int]
  /\ sum[0] = 0
  /\ \A i \in 1..n : sum[i] = sum[i - 1] + a[i]

Total(a, n, total) == \E sum : Running(a, n, sum) /\ sum[n] = total

(* Sets of numbers have a least one.                                       *)
LEMMA LeastOfSet ==
  ASSUME NEW S, S \subseteq Nat, S # {}
  PROVE  \E m \in S : \A i \in S : m <= i
  <1>1. PICK m \in S : \A i \in S : ~ (<<i, m>> \in OpToRel(<, Nat))
    BY NatLessThanWellFounded, WFMin
  <1>2. \A i \in S : ~ (i < m)
    BY <1>1 DEF OpToRel
  <1> QED
    BY <1>2

(* There is one running total of a list: where two first differed, they    *)
(* would have agreed the step before.                                      *)
LEMMA RunningIsUnique ==
  ASSUME NEW n \in Nat, NEW a \in [1..n -> Int],
         NEW f, Running(a, n, f),
         NEW g, g[0] = 0, \A i \in 1..n : g[i] = g[i - 1] + a[i]
  PROVE  g[n] = f[n]
  <1> DEFINE Differ == {i \in 0..n : f[i] # g[i]}
  <1> SUFFICES ASSUME Differ # {} PROVE FALSE
    BY DEF Differ
  <1>1. Differ \subseteq Nat
    OBVIOUS
  <1>2. PICK m \in Differ : \A i \in Differ : m <= i
    <2> HIDE DEF Differ
    <2> QED
      BY <1>1, LeastOfSet
  <1>3. m # 0
    BY <1>2 DEF Running
  <1>4. m \in 1..n /\ m - 1 \in 0..n
    BY <1>2, <1>3
  <1>5. m - 1 \notin Differ
    BY <1>2, <1>4
  <1>6. f[m - 1] = g[m - 1]
    BY <1>4, <1>5
  <1>7. f[m] = g[m]
    BY <1>4, <1>6 DEF Running
  <1> QED
    BY <1>2, <1>7

(* A running total in single facts.                                        *)
LEMMA RunningFacts ==
  ASSUME NEW n \in Nat, NEW a \in [1..n -> Int], NEW sum, Running(a, n, sum)
  PROVE  /\ sum[0] = 0
         /\ \A i \in 0..n : sum[i] \in Int
         /\ \A i \in 1..n : /\ a[i] \in Int /\ sum[i] \in Int /\ sum[i - 1] \in Int
                            /\ sum[i] = sum[i - 1] + a[i]
  <1>1. \A i \in 1..n : i \in 0..n /\ i - 1 \in 0..n
    OBVIOUS
  <1> QED
    BY <1>1 DEF Running

(* Moving one summand to the front does not change the sum.                *)
LEMMA TotalMoved ==
  ASSUME NEW n \in Nat, NEW a \in [1..n -> Int], NEW b \in [1..n -> Int],
         NEW total \in Int, Total(a, n, total), NEW p \in 1..n,
         \A i \in 1..n : b[i] = IF i = 1 THEN a[p] ELSE IF i <= p THEN a[i - 1] ELSE a[i]
  PROVE  Total(b, n, total)
  <1>1. PICK sum : Running(a, n, sum) /\ sum[n] = total
    BY DEF Total
  <1> DEFINE new == [i \in 0..n |-> IF i = 0 THEN 0
                                   ELSE IF i <= p THEN sum[i - 1] + a[p] ELSE sum[i]]
  <1>6. /\ sum[0] = 0 /\ \A i \in 0..n : sum[i] \in Int
        /\ \A i \in 1..n : /\ a[i] \in Int /\ sum[i] \in Int /\ sum[i - 1] \in Int
                            /\ sum[i] = sum[i - 1] + a[i]
    <2> HIDE DEF new
    <2>1. /\ sum \in [0..n -> Int] /\ sum[0] = 0
          /\ \A i \in 1..n : sum[i] = sum[i - 1] + a[i]
      BY <1>1, Zenon DEF Running
    <2>2. ASSUME NEW i \in 1..n
          PROVE  a[i] \in Int /\ sum[i] \in Int /\ sum[i - 1] \in Int
      <3>1. i \in 0..n /\ i - 1 \in 0..n
        OBVIOUS
      <3> QED
        BY <3>1, <2>1
    <2> QED
      BY <2>1, <2>2
  <1>7. a[p] \in Int
    OBVIOUS
  <1>2. new \in [0..n -> Int] /\ new[0] = 0
    <2>1. ASSUME NEW i \in 0..n
          PROVE  (IF i = 0 THEN 0 ELSE IF i <= p THEN sum[i - 1] + a[p] ELSE sum[i]) \in Int
      <3>1. CASE i = 0
        BY <3>1
      <3>2. CASE i # 0 /\ i <= p
        <4>1. i \in 1..n
          BY <3>2
        <4>2. sum[i - 1] \in Int
          BY <4>1, <1>6
        <4>3. sum[i - 1] + a[p] \in Int
          BY <4>2, <1>7
        <4> QED
          BY <3>2, <4>3
      <3>3. CASE i # 0 /\ ~(i <= p)
        <4>1. sum[i] \in Int
          BY <1>6
        <4> QED
          BY <3>3, <4>1
      <3> QED
        BY <3>1, <3>2, <3>3
    <2>2. 0 \in 0..n
      OBVIOUS
    <2> QED
      BY <2>1, <2>2
  <1>3. sum[p] = sum[p - 1] + a[p]
    BY <1>6
  <1>4. ASSUME NEW i \in 1..n PROVE new[i] = new[i - 1] + b[i]
    <2>1. sum[i] = sum[i - 1] + a[i] /\ sum[i] \in Int /\ sum[i - 1] \in Int /\ sum[0] = 0
      BY <1>6
    <2>2. CASE i = 1
      BY <2>1, <2>2
    <2>3. CASE i # 1 /\ i <= p
      <3>1. i - 1 \in 1..n
        BY <2>3
      <3>2. sum[i - 1] = sum[(i - 1) - 1] + a[i - 1] /\ sum[(i - 1) - 1] \in Int
        BY <3>1, <1>6
      <3>3. (i - 1) - 1 = i - 2 /\ a[i - 1] \in Int /\ a[p] \in Int
        BY <3>1
      <3>4. new[i] = sum[i - 1] + a[p] /\ new[i - 1] = sum[i - 2] + a[p] /\ b[i] = a[i - 1]
        BY <2>3, <3>1, <3>3
      <3> HIDE DEF new
      <3>5. PICK u \in Int, x \in Int, q \in Int : u = sum[i - 2] /\ x = a[i - 1] /\ q = a[p]
        BY <3>2, <3>3
      <3>6. (u + x) + q = (u + q) + x
        OBVIOUS
      <3>7. sum[i - 1] = u + x
        BY <3>2, <3>3, <3>5, Zenon
      <3>8. new[i] = (u + x) + q /\ new[i - 1] + b[i] = (u + q) + x
        BY <3>4, <3>5, <3>7, Zenon
      <3> QED
        BY <3>6, <3>8, Zenon
    <2>4. CASE i = p + 1
      BY <2>1, <2>4, <1>3
    <2>5. CASE i > p + 1
      BY <2>1, <2>5
    <2> QED
      BY <2>2, <2>3, <2>4, <2>5
  <1>5. new[n] = total
    BY <1>1, <1>3
  <1> HIDE DEF new
  <1> QED
    BY <1>2, <1>4, <1>5 DEF Total, Running

(* Taking one summand out takes it off the sum.                            *)
LEMMA TotalRemoved ==
  ASSUME NEW n \in Nat, NEW a \in [1..n -> Int], NEW b \in [1..(n - 1) -> Int],
         NEW total \in Int, Total(a, n, total), NEW p \in 1..n,
         \A i \in 1..(n - 1) : b[i] = IF i < p THEN a[i] ELSE a[i + 1]
  PROVE  Total(b, n - 1, total - a[p])
  <1>1. PICK sum : Running(a, n, sum) /\ sum[n] = total
    BY DEF Total
  <1> DEFINE new == [i \in 0..(n - 1) |-> IF i < p THEN sum[i] ELSE sum[i + 1] - a[p]]
  <1>2. new \in [0..(n - 1) -> Int] /\ new[0] = 0
    <2>1. ASSUME NEW i \in 0..(n - 1) PROVE sum[i] \in Int /\ sum[i + 1] \in Int /\ a[p] \in Int
      <3>1. i \in 0..n /\ i + 1 \in 0..n
        BY <2>1
      <3> QED
        BY <3>1, <1>1, RunningFacts
    <2>2. 0 \in 0..(n - 1) /\ 0 < p /\ sum[0] = 0
      BY <1>1, RunningFacts
    <2>3. new[0] = 0
      BY <2>2
    <2>4. ASSUME NEW i \in 0..(n - 1)
          PROVE  (IF i < p THEN sum[i] ELSE sum[i + 1] - a[p]) \in Int
      <3>1. sum[i] \in Int /\ sum[i + 1] \in Int /\ a[p] \in Int
        BY <2>1
      <3>2. sum[i + 1] - a[p] \in Int
        BY <3>1
      <3> QED
        BY <3>1, <3>2
    <2>5. new \in [0..(n - 1) -> Int]
      BY <2>4
    <2> QED
      BY <2>3, <2>5
  <1>3. sum[p] = sum[p - 1] + a[p] /\ sum[p - 1] \in Int /\ a[p] \in Int
    BY <1>1, RunningFacts
  <1>4. ASSUME NEW i \in 1..(n - 1) PROVE new[i] = new[i - 1] + b[i]
    <2>1. sum[i] = sum[i - 1] + a[i] /\ sum[i] \in Int /\ sum[i - 1] \in Int
      BY <1>1 DEF Running
    <2>2. sum[i + 1] = sum[i] + a[i + 1] /\ sum[i + 1] \in Int /\ a[i + 1] \in Int
      <3>1. i + 1 \in 1..n /\ i + 1 \in 0..n /\ (i + 1) - 1 = i
        OBVIOUS
      <3>2. sum[i + 1] = sum[(i + 1) - 1] + a[i + 1]
        BY <3>1, <1>1, RunningFacts
      <3> QED
        BY <3>1, <3>2, <1>1, RunningFacts
    <2>3. CASE i < p
      BY <2>1, <2>3
    <2>4. CASE i = p
      <3>1. new[i] = sum[i + 1] - a[p] /\ new[i - 1] = sum[i - 1] /\ b[i] = a[i + 1]
        BY <2>4
      <3>2. sum[i] = sum[i - 1] + a[p] /\ a[p] \in Int
        BY <2>1, <2>4, <1>3
      <3> HIDE DEF new
      <3>3. sum[i + 1] - a[p] = sum[i - 1] + a[i + 1]
        <4>1. PICK t \in Int, x \in Int, q \in Int : t = sum[i - 1] /\ x = a[i + 1] /\ q = a[p]
          BY <2>1, <2>2, <3>2
        <4>2. ((t + q) + x) - q = t + x
          OBVIOUS
        <4>3. sum[i + 1] = (t + q) + x
          BY <2>2, <3>2, <4>1, Zenon
        <4> QED
          BY <4>1, <4>2, <4>3, Zenon
      <3> QED
        BY <3>1, <3>3, Zenon
    <2>5. CASE i > p
      <3>1. new[i] = sum[i + 1] - a[p] /\ b[i] = a[i + 1]
        BY <2>5
      <3>2. (i - 1) + 1 = i /\ i - 1 \in 0..(n - 1) /\ ~(i - 1 < p)
        BY <2>5
      <3>3. new[i - 1] = sum[i] - a[p]
        BY <3>2
      <3> HIDE DEF new
      <3>4. sum[i + 1] - a[p] = (sum[i] - a[p]) + a[i + 1]
        <4>1. PICK u \in Int, x \in Int, q \in Int : u = sum[i] /\ x = a[i + 1] /\ q = a[p]
          BY <2>1, <2>2, <1>3
        <4>2. (u + x) - q = (u - q) + x
          OBVIOUS
        <4>3. sum[i + 1] = u + x
          BY <2>2, <4>1, Zenon
        <4> QED
          BY <4>1, <4>2, <4>3, Zenon
      <3> QED
        BY <3>1, <3>3, <3>4, Zenon
    <2> QED
      BY <2>3, <2>4, <2>5
  <1>5. new[n - 1] = total - a[p]
    <2>1. n - 1 \in 0..(n - 1) /\ (n - 1) + 1 = n
      OBVIOUS
    <2>2. CASE n - 1 < p
      <3>1. p = n
        BY <2>2
      <3>2. new[n - 1] = sum[p - 1]
        BY <2>1, <2>2, <3>1
      <3>3. sum[p] = total
        BY <1>1, <3>1
      <3> HIDE DEF new
      <3> QED
        BY <3>2, <3>3, <1>3
    <2>3. CASE ~(n - 1 < p)
      <3>1. new[n - 1] = sum[(n - 1) + 1] - a[p]
        BY <2>1, <2>3
      <3> QED
        BY <3>1, <2>1, <1>1
    <2> QED
      BY <2>2, <2>3
  <1> HIDE DEF new
  <1> QED
    BY <1>2, <1>4, <1>5 DEF Total, Running

(* A summand added in front adds to the sum.                               *)
LEMMA TotalAdded ==
  ASSUME NEW n \in Nat, NEW a \in [1..n -> Int], NEW b \in [1..(n + 1) -> Int],
         NEW total \in Int, Total(a, n, total),
         \A i \in 1..n : b[i + 1] = a[i]
  PROVE  Total(b, n + 1, total + b[1])
  <1>1. PICK sum : Running(a, n, sum) /\ sum[n] = total
    BY DEF Total
  <1> DEFINE new == [i \in 0..(n + 1) |-> IF i = 0 THEN 0 ELSE sum[i - 1] + b[1]]
  <1>2. new \in [0..(n + 1) -> Int] /\ new[0] = 0
    BY <1>1 DEF Running
  <1>3. ASSUME NEW i \in 1..(n + 1) PROVE new[i] = new[i - 1] + b[i]
    <2>1. CASE i = 1
      BY <2>1, <1>1 DEF Running
    <2>2. CASE i # 1
      <3>1. i - 1 \in 1..n
        BY <2>2
      <3>2. sum[i - 1] = sum[i - 2] + a[i - 1] /\ sum[i - 2] \in Int
        BY <3>1, <1>1 DEF Running
      <3>3. b[i] = a[i - 1]
        BY <3>1
      <3> QED
        BY <2>2, <3>1, <3>2, <3>3
    <2> QED
      BY <2>1, <2>2
  <1>4. new[n + 1] = total + b[1]
    BY <1>1 DEF Running
  <1> HIDE DEF new
  <1> QED
    BY <1>2, <1>3, <1>4 DEF Total, Running
-----------------------------------------------------------------------------
(* The structure as a whole.                                               *)

WeightsOf(c) == [i \in 1..Len(c.order) |-> c.items[c.order[i]].weight]

Counted(c) == Total(WeightsOf(c), Len(c.order), c.used)

Light(c) == \A k \in DOMAIN c.items : c.items[k].weight <= Limit

Consistent(c) == Shaped(c) /\ Ordered(c) /\ Indexed(c) /\ Counted(c) /\ Light(c)

(* The weights along the list of a consistent structure are integers.      *)
LEMMA WeightsAreInts ==
  ASSUME NEW c, Shaped(c), Ordered(c)
  PROVE  /\ Len(c.order) \in Nat
         /\ WeightsOf(c) \in [1..Len(c.order) -> Int]
         /\ \A i \in 1..Len(c.order) : c.order[i] \in DOMAIN c.items
  BY DEF Shaped, Ordered, Listed, WeightsOf, Entry

(* The structure New and Purge leave is consistent.                        *)
LEMMA EmptyConsistent == Consistent(Empty)
  <1>1. Shaped(Empty) /\ Light(Empty)
    BY DEF Shaped, Light, Empty
  <1>2. Ordered(Empty)
    BY DEF Ordered, Listed, Distinct, Empty
  <1>3. Indexed(Empty)
    BY DEF Indexed, Carrying, Empty
  <1>4. Running(WeightsOf(Empty), 0, [i \in 0..0 |-> 0])
    BY DEF Running
  <1>5. Counted(Empty)
    BY <1>4 DEF Counted, Total, Empty
  <1> QED
    BY <1>1, <1>2, <1>3, <1>5 DEF Consistent

(* A hit keeps the structure consistent and drops nothing.                 *)
LEMMA TouchConsistent ==
  ASSUME NEW c, Consistent(c), NEW k \in DOMAIN c.items
  PROVE  Consistent(Touch(c, k)) /\ Touch(c, k).items = c.items
  <1> DEFINE d == Touch(c, k)
             p == Place(c.order, k)
  <1>1. /\ d = [items |-> c.items, order |-> MoveToFront(c.order, k),
                used |-> c.used, tags |-> c.tags]
        /\ c.order \in Seq(Key) /\ Distinct(c.order)
        /\ Listed(c.order) = DOMAIN c.items /\ k \in Listed(c.order)
    BY DEF Consistent, Shaped, Ordered, Touch
  <1>2. /\ d.order \in Seq(Key) /\ Len(d.order) = Len(c.order)
        /\ Listed(d.order) = DOMAIN c.items
        /\ Distinct(d.order)
    BY <1>1, MoveToFrontKeeps
  <1>3. Shaped(d) /\ Ordered(d) /\ Light(d)
    BY <1>1, <1>2 DEF Consistent, Shaped, Ordered, Light
  <1>4. Indexed(d)
    BY <1>1 DEF Consistent, Indexed, Carrying
  <1>5. Counted(d)
    <2>1. p \in 1..Len(c.order) /\ c.order[p] = k
      BY <1>1, PlaceFinds
    <2>2. /\ Len(c.order) \in Nat /\ c.used \in Int
          /\ WeightsOf(c) \in [1..Len(c.order) -> Int]
          /\ WeightsOf(d) \in [1..Len(c.order) -> Int]
      BY <1>1, <1>2, <1>3, WeightsAreInts DEF Consistent, Shaped
    <2>3. d.order = [i \in 1..Len(c.order) |-> IF i = 1 THEN k
                                              ELSE IF i <= p THEN c.order[i - 1]
                                              ELSE c.order[i]]
      BY <1>1 DEF MoveToFront
    <2>4. d.items = c.items /\ d.used = c.used
      BY <1>1
    <2> HIDE DEF d, p
    <2>5. \A i \in 1..Len(c.order) :
            WeightsOf(d)[i] = IF i = 1 THEN WeightsOf(c)[p]
                              ELSE IF i <= p THEN WeightsOf(c)[i - 1]
                              ELSE WeightsOf(c)[i]
      <3> TAKE i \in 1..Len(c.order)
      <3>1. \A j \in 1..Len(c.order) : WeightsOf(c)[j] = c.items[c.order[j]].weight
        BY DEF WeightsOf
      <3>2. WeightsOf(d)[i] = c.items[d.order[i]].weight
        BY <1>2, <2>4 DEF WeightsOf
      <3>3. CASE i = 1
        BY <2>1, <2>3, <3>1, <3>2, <3>3
      <3>4. CASE i # 1 /\ i <= p
        <4>1. d.order[i] = c.order[i - 1] /\ i - 1 \in 1..Len(c.order)
          BY <2>3, <2>2, <3>4
        <4> QED
          BY <3>1, <3>2, <3>4, <4>1
      <3>5. CASE i # 1 /\ ~(i <= p)
        <4>1. d.order[i] = c.order[i]
          BY <2>3, <3>5
        <4> QED
          BY <3>1, <3>2, <3>5, <4>1
      <3> QED
        BY <3>3, <3>4, <3>5
    <2> QED
      BY <1>2, <2>1, <2>2, <2>4, <2>5, TotalMoved DEF Consistent, Counted
  <1> QED
    BY <1>1, <1>3, <1>4, <1>5 DEF Consistent

(* Dropping an entry keeps the structure consistent and drops only it.     *)
LEMMA DropConsistent ==
  ASSUME NEW c, Consistent(c), NEW k \in DOMAIN c.items
  PROVE  /\ Consistent(Drop(c, k))
         /\ DOMAIN Drop(c, k).items = DOMAIN c.items \ {k}
         /\ \A j \in DOMAIN c.items \ {k} : Drop(c, k).items[j] = c.items[j]
         /\ Drop(c, k).used <= c.used
         /\ Len(Drop(c, k).order) = Len(c.order) - 1
         /\ \A i \in 1..(Len(c.order) - 1) :
              Drop(c, k).order[i] = IF i < Place(c.order, k) THEN c.order[i]
                                    ELSE c.order[i + 1]
  <1> DEFINE d == Drop(c, k)
             p == Place(c.order, k)
             T == c.items[k].value.tags
  <1>1. /\ d.items = [j \in DOMAIN c.items \ {k} |-> c.items[j]]
        /\ d.order = Unlink(c.order, k)
        /\ d.used = c.used - c.items[k].weight
        /\ d.tags = Untag(c.tags, k, T)
        /\ d = [items |-> d.items, order |-> d.order, used |-> d.used, tags |-> d.tags]
    BY DEF Drop
  <1>2. /\ c.order \in Seq(Key) /\ Distinct(c.order)
        /\ Listed(c.order) = DOMAIN c.items /\ k \in Listed(c.order)
        /\ c.used \in Int /\ c.items[k] \in Entry
    BY DEF Consistent, Shaped, Ordered
  <1>3. /\ d.order \in Seq(Key) /\ Len(d.order) = Len(c.order) - 1
        /\ Listed(d.order) = DOMAIN c.items \ {k}
        /\ Distinct(d.order)
    BY <1>1, <1>2, UnlinkKeeps
  <1>4. d.order = [i \in 1..(Len(c.order) - 1) |-> IF i < p THEN c.order[i]
                                                   ELSE c.order[i + 1]]
    BY <1>1 DEF Unlink
  <1> HIDE DEF d, p, T
  <1>5. Ordered(d) /\ Light(d)
    BY <1>1, <1>3 DEF Consistent, Ordered, Light
  <1>6. /\ DOMAIN d.tags \subseteq DOMAIN c.tags
        /\ d.tags = [t \in DOMAIN d.tags |-> d.tags[t]]
        /\ \A t \in DOMAIN c.tags :
             t \in DOMAIN d.tags <=> (IF t \in T THEN c.tags[t] \ {k} ELSE c.tags[t]) # {}
        /\ \A t \in DOMAIN d.tags :
             d.tags[t] = IF t \in T THEN c.tags[t] \ {k} ELSE c.tags[t]
    BY <1>1 DEF Untag
  <1>7. Shaped(d)
    BY <1>1, <1>2, <1>3, <1>6 DEF Consistent, Shaped, Entry
  <1>8. Indexed(d)
    <2>1. \A t : Carrying(d, t) = Carrying(c, t) \ {k}
      BY <1>1 DEF Carrying
    <2>2. \A t : t \notin T => k \notin Carrying(c, t)
      BY DEF Carrying, T
    <2>3. \A t \in DOMAIN c.tags :
            Carrying(d, t) = IF t \in T THEN c.tags[t] \ {k} ELSE c.tags[t]
      BY <2>1, <2>2 DEF Consistent, Indexed
    <2>4. \A t \in Tag : t \notin DOMAIN c.tags => Carrying(d, t) = {}
      BY <2>1 DEF Consistent, Indexed
    <2>5. DOMAIN d.tags = {t \in Tag : Carrying(d, t) # {}}
      BY <1>6, <2>3, <2>4 DEF Consistent, Shaped
    <2>6. \A t \in DOMAIN d.tags : d.tags[t] = Carrying(d, t)
      BY <1>6, <2>3
    <2> QED
      BY <2>5, <2>6 DEF Indexed
  <1>9. Counted(d)
    <2>1. p \in 1..Len(c.order) /\ c.order[p] = k
      BY <1>2, PlaceFinds DEF p
    <2>2. /\ Len(c.order) \in Nat
          /\ WeightsOf(c) \in [1..Len(c.order) -> Int]
          /\ WeightsOf(d) \in [1..(Len(c.order) - 1) -> Int]
      BY <1>3, <1>5, <1>7, WeightsAreInts DEF Consistent
    <2>3. d.used = c.used - WeightsOf(c)[p]
      BY <1>1, <2>1 DEF WeightsOf
    <2>4. \A i \in 1..Len(d.order) : d.items[d.order[i]] = c.items[d.order[i]]
      BY <1>1, <1>3 DEF Listed
    <2>5. \A i \in 1..(Len(c.order) - 1) :
            WeightsOf(d)[i] = IF i < p THEN WeightsOf(c)[i] ELSE WeightsOf(c)[i + 1]
      <3> TAKE i \in 1..(Len(c.order) - 1)
      <3>1. i \in 1..Len(d.order) /\ i \in 1..Len(c.order) /\ i + 1 \in 1..Len(c.order)
        BY <1>3, <2>2
      <3>2. WeightsOf(d)[i] = c.items[d.order[i]].weight
        BY <3>1, <2>4 DEF WeightsOf
      <3>3. d.order[i] = IF i < p THEN c.order[i] ELSE c.order[i + 1]
        BY <1>4
      <3> QED
        BY <3>1, <3>2, <3>3 DEF WeightsOf
    <2>6. Total(WeightsOf(c), Len(c.order), c.used)
      BY DEF Consistent, Counted
    <2>7. Total(WeightsOf(d), Len(c.order) - 1, c.used - WeightsOf(c)[p])
      BY <1>2, <2>1, <2>2, <2>5, <2>6, TotalRemoved
    <2> QED
      BY <1>3, <2>3, <2>7 DEF Counted
  <1>10. d.used <= c.used
    BY <1>1, <1>2 DEF Entry
  <1> QED
    BY <1>1, <1>3, <1>4, <1>5, <1>7, <1>8, <1>9, <1>10 DEF Consistent, d, p

(* Inserting a light entry under a key not held keeps the structure        *)
(* consistent and puts the key first.                                      *)
LEMMA InsertConsistent ==
  ASSUME NEW c, Consistent(c), NEW k \in Key, k \notin DOMAIN c.items,
         NEW e \in Entry, e.weight <= Limit
  PROVE  /\ Consistent(Insert(c, k, e))
         /\ DOMAIN Insert(c, k, e).items = DOMAIN c.items \cup {k}
         /\ Insert(c, k, e).order[1] = k
  <1> DEFINE d == Insert(c, k, e)
             T == e.value.tags
  <1>1. /\ d.items = [j \in DOMAIN c.items \cup {k} |-> IF j = k THEN e ELSE c.items[j]]
        /\ d.order = PushFront(c.order, k)
        /\ d.used = c.used + e.weight
        /\ d.tags = Entag(c.tags, k, T)
        /\ d = [items |-> d.items, order |-> d.order, used |-> d.used, tags |-> d.tags]
    BY DEF Insert
  <1>2. /\ c.order \in Seq(Key) /\ Distinct(c.order)
        /\ Listed(c.order) = DOMAIN c.items
        /\ c.used \in Int
    BY DEF Consistent, Shaped, Ordered
  <1>3. /\ d.order \in Seq(Key) /\ Len(d.order) = Len(c.order) + 1
        /\ Listed(d.order) = DOMAIN c.items \cup {k}
        /\ Distinct(d.order)
        /\ d.order[1] = k
    BY <1>1, <1>2, PushFrontKeeps
  <1>4. d.order = [i \in 1..(Len(c.order) + 1) |-> IF i = 1 THEN k ELSE c.order[i - 1]]
    BY <1>1 DEF PushFront
  <1>5. T \subseteq Tag
    BY ValueAssumption DEF Entry
  <1> HIDE DEF d, T
  <1>6. Ordered(d) /\ Light(d)
    BY <1>1, <1>3 DEF Consistent, Ordered, Light
  <1>7. /\ DOMAIN d.tags = DOMAIN c.tags \cup T
        /\ d.tags = [t \in DOMAIN d.tags |-> d.tags[t]]
        /\ \A t \in DOMAIN d.tags :
             d.tags[t] = (IF t \in DOMAIN c.tags THEN c.tags[t] ELSE {})
                           \cup (IF t \in T THEN {k} ELSE {})
    BY <1>1 DEF Entag
  <1>8. Shaped(d)
    BY <1>1, <1>2, <1>3, <1>5, <1>7 DEF Consistent, Shaped, Entry
  <1>9. Indexed(d)
    <2>1. \A t : Carrying(d, t) = Carrying(c, t) \cup (IF t \in T THEN {k} ELSE {})
      BY <1>1 DEF Carrying, T
    <2>2. \A t \in Tag :
            Carrying(c, t) = IF t \in DOMAIN c.tags THEN c.tags[t] ELSE {}
      BY DEF Consistent, Indexed
    <2>3. DOMAIN d.tags \subseteq Tag
      BY <1>5, <1>7 DEF Consistent, Shaped
    <2>4. \A t \in DOMAIN d.tags : d.tags[t] = Carrying(d, t)
      BY <1>7, <2>1, <2>2, <2>3
    <2>5. DOMAIN d.tags = {t \in Tag : Carrying(d, t) # {}}
      BY <1>5, <1>7, <2>1, <2>2, <2>3 DEF Consistent, Indexed
    <2> QED
      BY <2>4, <2>5 DEF Indexed
  <1>10. Counted(d)
    <2>1. /\ Len(c.order) \in Nat
          /\ WeightsOf(c) \in [1..Len(c.order) -> Int]
          /\ WeightsOf(d) \in [1..(Len(c.order) + 1) -> Int]
          /\ \A i \in 1..Len(c.order) : c.order[i] \in DOMAIN c.items
      BY <1>3, <1>6, <1>8, WeightsAreInts DEF Consistent
    <2>2. WeightsOf(d)[1] = e.weight
      BY <1>1, <1>3, <2>1 DEF WeightsOf
    <2>3. ASSUME NEW i \in 1..Len(c.order)
          PROVE  WeightsOf(d)[i + 1] = WeightsOf(c)[i]
      <3>1. i + 1 \in 1..Len(d.order) /\ i + 1 # 1 /\ (i + 1) - 1 = i
        BY <1>3, <2>1
      <3>2. d.order[i + 1] = c.order[i]
        BY <1>3, <1>4, <3>1
      <3> QED
        BY <1>1, <2>1, <3>1, <3>2 DEF WeightsOf
    <2>4. Total(WeightsOf(c), Len(c.order), c.used)
      BY DEF Consistent, Counted
    <2>5. Total(WeightsOf(d), Len(c.order) + 1, c.used + WeightsOf(d)[1])
      BY <1>2, <2>1, <2>3, <2>4, TotalAdded
    <2> QED
      BY <1>1, <1>3, <2>2, <2>5 DEF Counted
  <1> QED
    BY <1>1, <1>3, <1>6, <1>8, <1>9, <1>10 DEF Consistent, d

(* A consistent structure above its budget holds two entries at least.     *)
LEMMA OverBudgetHoldsTwo ==
  ASSUME NEW c, Consistent(c), c.used > Limit
  PROVE  Len(c.order) >= 2
  <1>1. PICK sum : Running(WeightsOf(c), Len(c.order), sum) /\ sum[Len(c.order)] = c.used
    BY DEF Consistent, Counted, Total
  <1>2. /\ Len(c.order) \in Nat
        /\ WeightsOf(c) \in [1..Len(c.order) -> Int]
        /\ \A i \in 1..Len(c.order) : c.order[i] \in DOMAIN c.items
    BY WeightsAreInts DEF Consistent
  <1>3. Len(c.order) # 0
    BY <1>1, <1>2, RunningFacts, LimitAssumption
  <1>4. Len(c.order) # 1
    <2> SUFFICES ASSUME Len(c.order) = 1 PROVE FALSE
      OBVIOUS
    <2>1. c.used = 0 + WeightsOf(c)[1]
      <3>1. sum[0] = 0 /\ \A i \in 1..Len(c.order) : sum[i] = sum[i - 1] + WeightsOf(c)[i]
        BY <1>1, <1>2, RunningFacts
      <3>2. sum[1] = sum[1 - 1] + WeightsOf(c)[1]
        BY <3>1
      <3> QED
        BY <3>1, <3>2, <1>1
    <2>2. WeightsOf(c)[1] <= Limit /\ WeightsOf(c)[1] \in Int
      BY <1>2 DEF WeightsOf, Consistent, Light
    <2> QED
      BY <2>1, <2>2, LimitAssumption
  <1>5. \A n \in Nat : n # 0 /\ n # 1 => n >= 2
    OBVIOUS
  <1> QED
    BY <1>2, <1>3, <1>4, <1>5
-----------------------------------------------------------------------------
(* The inductive invariant.  WithinBudget is not inductive alone: that a   *)
(* turn of the eviction loop finds a victim, and one other than the entry  *)
(* just stored, needs the byte count to be the sum of the weights listed.  *)

LockOK == lock \in {Free} \cup {Evicting(k) : k \in Key}
                          \cup {Invalidating(T, rest, keys) :
                                  T \in SUBSET Tag, rest \in SUBSET Tag, keys \in SUBSET Key}

EvictionOK == lock.op = "evict" => cache.used > Limit /\ cache.order[1] = lock.key

(* An entry that carries a tag of the call is still ahead of the loops: it *)
(* is to be visited for the current tag, or its tags are all yet to begin. *)
SweepOK ==
  lock.op = "invalidate" =>
    \A k \in DOMAIN cache.items :
      k \in lock.keys \/ cache.items[k].value.tags \cap lock.tags \subseteq lock.rest

IInv ==
  /\ Consistent(cache)
  /\ now \in Nat
  /\ LockOK
  /\ WithinBudget
  /\ EvictionOK
  /\ SweepOK

(* What the mutex says of its holder.                                      *)
LEMMA LockCases ==
  ASSUME LockOK
  PROVE  /\ lock.op = "evict" => \E k \in Key : lock = Evicting(k)
         /\ lock.op = "invalidate" => 
              \E T \in SUBSET Tag, rest \in SUBSET Tag, keys \in SUBSET Key :
                lock = Invalidating(T, rest, keys)
         /\ lock.op = "free" => lock = Free
  BY DEF LockOK, Free, Evicting, Invalidating

LEMMA InitIInv == Init => IInv
  <1> SUFFICES ASSUME Init PROVE IInv
    OBVIOUS
  <1>1. Consistent(cache)
    BY EmptyConsistent DEF Init
  <1>2. WithinBudget
    BY LimitAssumption DEF Init, Empty, WithinBudget
  <1> QED
    BY <1>1, <1>2 DEF Init, IInv, LockOK, EvictionOK, SweepOK, Free

(* An entry made from a value and a policy is one, and light if accepted.  *)
LEMMA NewEntryOK ==
  ASSUME NEW k \in Key, NEW v \in Value, NEW p \in Policy, now \in Nat
  PROVE  /\ NewEntry(k, v, p) \in Entry
         /\ ~Refused(k, v) => NewEntry(k, v, p).weight <= Limit
  <1>1. p.ttl \in Nat /\ p.stale \in Nat /\ v.bytes \in Nat /\ KeyLen[k] \in Nat
    BY KeyLenAssumption, ValueAssumption, PolicyAssumption
  <1>2. Weigh(k, v) \in Nat
    BY <1>1 DEF Weigh, Weight, EntryOverhead
  <1> QED
    BY <1>1, <1>2, LimitAssumption DEF NewEntry, Entry, Refused

(* store, up to its loop.                                                  *)
LEMMA StoreKeeps ==
  ASSUME IInv, NEW k \in Key, NEW v \in Value, NEW p \in Policy, Store(k, v, p)
  PROVE  IInv'
  <1> DEFINE rest == Discard(cache, k)
             next == IF Refused(k, v) THEN rest ELSE Insert(rest, k, NewEntry(k, v, p))
  <1>1. /\ lock = Free /\ cache' = next /\ now' = now
        /\ lock' = IF next.used > Limit THEN Evicting(k) ELSE Free
    BY DEF Store
  <1>2. cache.used <= Limit /\ cache.used \in Int
    BY <1>1 DEF IInv, WithinBudget, Free, Consistent, Shaped
  <1>3. Consistent(rest) /\ k \notin DOMAIN rest.items /\ rest.used <= Limit
    <2>1. CASE k \in DOMAIN cache.items
      <3>1. rest = Drop(cache, k)
        BY <2>1 DEF Discard
      <3>2. /\ Consistent(rest) /\ rest.used <= cache.used
            /\ DOMAIN rest.items = DOMAIN cache.items \ {k}
        BY <2>1, <3>1, DropConsistent DEF IInv
      <3>3. rest.used \in Int
        BY <3>2 DEF Consistent, Shaped
      <3> QED
        BY <3>2, <3>3, <1>2, LimitAssumption
    <2>2. CASE k \notin DOMAIN cache.items
      BY <2>2, <1>2 DEF Discard, IInv
    <2> QED
      BY <2>1, <2>2
  <1> HIDE DEF rest
  <1>4. CASE Refused(k, v)
    <2>1. rest.used \in Int
      BY <1>3 DEF Consistent, Shaped
    <2>2. cache' = rest /\ lock' = Free
      BY <1>1, <1>3, <1>4, <2>1, LimitAssumption
    <2> QED
      BY <1>1, <1>3, <2>2 DEF IInv, LockOK, WithinBudget, EvictionOK, SweepOK, Free
  <1>5. CASE ~Refused(k, v)
    <2>1. NewEntry(k, v, p) \in Entry /\ NewEntry(k, v, p).weight <= Limit
      BY <1>5, NewEntryOK DEF IInv
    <2>2. cache' = Insert(rest, k, NewEntry(k, v, p))
      BY <1>1, <1>5
    <2>3. Consistent(cache') /\ cache'.order[1] = k
      BY <1>3, <2>1, <2>2, InsertConsistent
    <2>4. lock' = IF cache'.used > Limit THEN Evicting(k) ELSE Free
      BY <1>1
    <2>5. cache'.used \in Int
      BY <2>3 DEF Consistent, Shaped
    <2> QED
      BY <1>1, <2>3, <2>4, <2>5, LimitAssumption
      DEF IInv, LockOK, WithinBudget, EvictionOK, SweepOK, Free, Evicting
  <1> QED
    BY <1>4, <1>5

(* One turn of the eviction loop.                                          *)
LEMMA EvictKeeps ==
  ASSUME IInv, Evict
  PROVE  IInv'
  <1> DEFINE order == cache.order
             victim == Back(order)
             next == Drop(cache, victim)
  <1>1. /\ lock.op = "evict" /\ cache' = next /\ now' = now
        /\ lock' = IF next.used > Limit THEN lock ELSE Free
    BY DEF Evict
  <1>2. PICK k \in Key : lock = Evicting(k)
    BY <1>1, LockCases DEF IInv
  <1>3. /\ Consistent(cache) /\ cache.used > Limit /\ order[1] = k
        /\ order \in Seq(Key) /\ Distinct(order)
        /\ Listed(order) = DOMAIN cache.items
    BY <1>1, <1>2 DEF IInv, EvictionOK, Evicting, Consistent, Shaped, Ordered
  <1>4. Len(order) \in Nat /\ Len(order) >= 2
    BY <1>3, OverBudgetHoldsTwo
  <1> HIDE DEF order
  <1>5. Len(order) \in 1..Len(order) /\ victim = order[Len(order)] /\ victim \in Listed(order)
    BY <1>4 DEF Back, Listed
  <1>6. Place(order, victim) = Len(order)
    BY <1>3, <1>5, PlaceFinds DEF Distinct
  <1> HIDE DEF victim
  <1>7. /\ Consistent(next)
        /\ Len(next.order) = Len(order) - 1
        /\ \A i \in 1..(Len(order) - 1) :
             next.order[i] = IF i < Place(order, victim) THEN order[i] ELSE order[i + 1]
    BY <1>3, <1>5, DropConsistent DEF order
  <1>8. next.order[1] = k
    BY <1>3, <1>4, <1>6, <1>7
  <1>9. next.used \in Int
    BY <1>7 DEF Consistent, Shaped
  <1> HIDE DEF next
  <1> QED
    BY <1>1, <1>2, <1>7, <1>8, <1>9, LimitAssumption
    DEF IInv, LockOK, WithinBudget, EvictionOK, SweepOK, Free, Evicting

(* The operations that drop one entry outside the eviction loop.           *)
LEMMA DropKeeps ==
  ASSUME IInv, NEW k \in DOMAIN cache.items, lock = Free,
         cache' = Drop(cache, k), now' = now, lock' = lock
  PROVE  IInv'
  <1>1. Consistent(cache') /\ cache'.used <= cache.used
    BY DropConsistent DEF IInv
  <1>2. cache.used \in Int /\ cache'.used \in Int
    BY <1>1 DEF IInv, Consistent, Shaped
  <1> QED
    BY <1>1, <1>2, LimitAssumption
    DEF IInv, LockOK, WithinBudget, EvictionOK, SweepOK, Free

(* The next tag of a call: the index lists exactly the entries carrying it.*)
LEMMA SweepTagKeeps ==
  ASSUME IInv, SweepTag
  PROVE  IInv'
  <1>1. PICK T \in SUBSET Tag, rest \in SUBSET Tag, keys \in SUBSET Key :
          lock = Invalidating(T, rest, keys)
    BY LockCases DEF IInv, SweepTag
  <1>2. PICK t \in rest :
          /\ keys = {} /\ lock' = Invalidating(T, rest \ {t}, KeysOf(cache, t))
          /\ cache' = cache /\ now' = now
    BY <1>1 DEF SweepTag, Invalidating
  <1>3. KeysOf(cache, t) = Carrying(cache, t)
    BY DEF KeysOf, IInv, Consistent, Indexed
  <1>4. KeysOf(cache, t) \subseteq Key
    BY <1>3 DEF Carrying, IInv, Consistent, Shaped
  <1>5. LockOK'
    BY <1>2, <1>4 DEF LockOK
  <1>6. ASSUME NEW k \in DOMAIN cache.items, k \notin KeysOf(cache, t)
        PROVE  cache.items[k].value.tags \cap T \subseteq rest \ {t}
    <2>1. t \notin cache.items[k].value.tags
      BY <1>3, <1>6 DEF Carrying
    <2>2. cache.items[k].value.tags \cap T \subseteq rest
      BY <1>1, <1>2 DEF IInv, SweepOK, Invalidating
    <2> QED
      BY <2>1, <2>2
  <1>7. SweepOK'
    BY <1>2, <1>6 DEF SweepOK, Invalidating
  <1> QED
    BY <1>1, <1>2, <1>5, <1>7 DEF IInv, WithinBudget, EvictionOK, Invalidating

(* One turn over the keys of a tag.                                        *)
LEMMA SweepKeeps ==
  ASSUME IInv, Sweep
  PROVE  IInv'
  <1>1. PICK T \in SUBSET Tag, rest \in SUBSET Tag, keys \in SUBSET Key :
          lock = Invalidating(T, rest, keys)
    BY LockCases DEF IInv, Sweep
  <1>2. PICK k \in keys :
          /\ cache' = Discard(cache, k) /\ now' = now
          /\ lock' = Invalidating(T, rest, keys \ {k})
    BY <1>1 DEF Sweep, Invalidating
  <1>3. cache.used \in Int
    BY DEF IInv, Consistent, Shaped
  <1>4. /\ Consistent(cache') /\ cache'.used <= cache.used
        /\ cache'.items = [j \in DOMAIN cache.items \ {k} |-> cache.items[j]]
    <2>1. CASE k \in DOMAIN cache.items
      <3>1. cache' = Drop(cache, k)
        BY <1>2, <2>1 DEF Discard
      <3>2. Consistent(cache') /\ cache'.used <= cache.used
        BY <2>1, <3>1, DropConsistent DEF IInv
      <3> QED
        BY <3>1, <3>2 DEF Drop
    <2>2. CASE k \notin DOMAIN cache.items
      <3>1. cache' = cache /\ DOMAIN cache.items \ {k} = DOMAIN cache.items
        BY <1>2, <2>2 DEF Discard
      <3>2. cache.items = [j \in DOMAIN cache.items |-> cache.items[j]]
        BY DEF IInv, Consistent, Shaped
      <3> QED
        BY <1>3, <3>1, <3>2 DEF IInv
    <2> QED
      BY <2>1, <2>2
  <1>5. cache'.used \in Int
    BY <1>4 DEF Consistent, Shaped
  <1>6. LockOK'
    BY <1>2 DEF LockOK
  <1>7. SweepOK'
    BY <1>1, <1>2, <1>4 DEF IInv, SweepOK, Invalidating
  <1> QED
    BY <1>1, <1>2, <1>3, <1>4, <1>5, <1>6, <1>7, LimitAssumption
    DEF IInv, WithinBudget, EvictionOK, Invalidating

LEMMA NextIInv == IInv /\ [Next]_vars => IInv'
  <1> SUFFICES ASSUME IInv, [Next]_vars PROVE IInv'
    OBVIOUS
  <1>1. CASE Tick
    BY <1>1 DEF IInv, Tick, LockOK, WithinBudget, EvictionOK, SweepOK
  <1>2. CASE \E k \in Key : PeekExpired(k)
    BY <1>2, DropKeeps DEF PeekExpired, Free
  <1>3. CASE \E k \in Key : PeekHeld(k)
    <2>1. PICK k \in Key : PeekHeld(k)
      BY <1>3
    <2>2. Consistent(cache')
      BY <2>1, TouchConsistent DEF IInv, PeekHeld
    <2>3. cache = [items |-> cache.items, order |-> cache.order,
                   used |-> cache.used, tags |-> cache.tags]
      BY DEF IInv, Consistent, Shaped
    <2>4. cache'.used = cache.used
      BY <2>1, <2>3 DEF PeekHeld, Touch
    <2> QED
      BY <2>1, <2>2, <2>4 DEF PeekHeld, IInv, LockOK, WithinBudget, EvictionOK, SweepOK, Free
  <1>4. CASE \E k \in Key, v \in Value, p \in Policy : Store(k, v, p)
    BY <1>4, StoreKeeps
  <1>5. CASE Evict
    BY <1>5, EvictKeeps
  <1>6. CASE \E T \in SUBSET Tag : Invalidate(T)
    <2>1. PICK T \in SUBSET Tag : Invalidate(T)
      BY <1>6
    <2>2. lock' = Invalidating(T, T, {}) /\ T \in SUBSET Tag /\ {} \in SUBSET Key
      BY <2>1 DEF Invalidate
    <2>3. LockOK'
      BY <2>2 DEF LockOK
    <2>4. SweepOK'
      BY <2>1, <2>2 DEF Invalidate, SweepOK, Invalidating
    <2> QED
      BY <2>1, <2>3, <2>4 DEF Invalidate, IInv, WithinBudget, EvictionOK, Invalidating, Free
  <1>7. CASE SweepTag \/ Sweep
    BY <1>7, SweepTagKeeps, SweepKeeps
  <1>8. CASE SweepDone
    BY <1>8 DEF SweepDone, IInv, LockOK, WithinBudget, EvictionOK, SweepOK, Free
  <1>9. CASE Purge
    <2>1. Consistent(cache')
      BY <1>9, EmptyConsistent DEF Purge
    <2> QED
      BY <1>9, <2>1, LimitAssumption
      DEF Purge, IInv, LockOK, WithinBudget, EvictionOK, SweepOK, Free, Empty
  <1>10. CASE UNCHANGED vars
    BY <1>10 DEF vars, IInv, LockOK, WithinBudget, EvictionOK, SweepOK
  <1> QED
    BY <1>1, <1>2, <1>3, <1>4, <1>5, <1>6, <1>7, <1>8, <1>9, <1>10 DEF Next

LEMMA Invariance == Spec => []IInv
  BY InitIInv, NextIInv, PTL DEF Spec

(* The total that is counted is the one the model adds up.                 *)
LEMMA CountedIsWeighed ==
  ASSUME NEW c, Shaped(c), Ordered(c), Counted(c)
  PROVE  c.used = Weighed(c)
  <1> DEFINE n == Len(c.order)
             Adds(f) == f = [i \in 0..n |-> IF i = 0 THEN 0
                              ELSE f[i - 1] + c.items[c.order[i]].weight]
             sum == CHOOSE f : Adds(f)
  <1>1. n \in Nat /\ WeightsOf(c) \in [1..n -> Int]
    BY WeightsAreInts
  <1>2. PICK f : Running(WeightsOf(c), n, f) /\ f[n] = c.used
    BY DEF Counted, Total
  <1>3. Adds(f)
    <2>1. \A i \in 0..n :
            f[i] = IF i = 0 THEN 0 ELSE f[i - 1] + c.items[c.order[i]].weight
      <3>1. f[0] = 0 /\ \A i \in 1..n : f[i] = f[i - 1] + WeightsOf(c)[i]
        BY <1>2 DEF Running
      <3>2. \A i \in 1..n : WeightsOf(c)[i] = c.items[c.order[i]].weight
        BY DEF WeightsOf
      <3>3. \A i \in 0..n : i = 0 \/ i \in 1..n
        BY <1>1
      <3> QED
        BY <3>1, <3>2, <3>3
    <2>2. f = [i \in 0..n |-> f[i]]
      BY <1>2 DEF Running
    <2> QED
      BY <2>1, <2>2
  <1>4. Adds(sum)
    <2> HIDE DEF Adds
    <2> QED
      BY <1>3
  <1>5. sum[0] = 0 /\ \A i \in 1..n : sum[i] = sum[i - 1] + WeightsOf(c)[i]
    <2> DEFINE g == sum
    <2>1. Adds(g)
      BY <1>4
    <2> HIDE DEF g
    <2>2. 0 \in 0..n /\ \A i \in 1..n : i \in 0..n /\ i # 0
      BY <1>1
    <2>3. \A i \in 0..n :
            g[i] = IF i = 0 THEN 0 ELSE g[i - 1] + c.items[c.order[i]].weight
      BY <2>1
    <2>4. g[0] = 0 /\ \A i \in 1..n : g[i] = g[i - 1] + WeightsOf(c)[i]
      BY <2>2, <2>3 DEF WeightsOf
    <2> QED
      BY <2>4 DEF g
  <1>6. sum[n] = f[n]
    <2> HIDE DEF sum
    <2> QED
      BY <1>1, <1>2, <1>5, RunningIsUnique
  <1>7. Weighed(c) = sum[n]
    BY DEF Weighed
  <1> QED
    BY <1>2, <1>6, <1>7
-----------------------------------------------------------------------------
(* The theorems.                                                           *)

(* Every reachable structure, clock and mutex has its type.                *)
THEOREM TypeCorrect == Spec => []TypeOK
  <1>1. IInv => TypeOK
    BY DEF IInv, Consistent, LockOK, TypeOK
  <1> QED
    BY <1>1, Invariance, PTL

(* Whoever takes the mutex finds the cache inside its budget, for every    *)
(* budget and whatever is stored.                                          *)
THEOREM StaysWithinBudget == Spec => []WithinBudget
  <1>1. IInv => WithinBudget
    BY DEF IInv
  <1> QED
    BY <1>1, Invariance, PTL

(* "used" is always the sum of the weights along the recency list.         *)
THEOREM UsedIsTheSum == Spec => []UsedExact
  <1>1. IInv => UsedExact
    BY CountedIsWeighed DEF IInv, Consistent, UsedExact
  <1> QED
    BY <1>1, Invariance, PTL

(* The recency list and the map always hold the same keys, once each.      *)
THEOREM ListMatchesMap == Spec => []OrderExact
  <1>1. IInv => OrderExact
    BY DEF IInv, Consistent, OrderExact
  <1> QED
    BY <1>1, Invariance, PTL

(* The tag index is always exactly the tags of the entries held.           *)
THEOREM IndexMatchesMap == Spec => []TagsExact
  <1>1. IInv => TagsExact
    BY DEF IInv, Consistent, TagsExact
  <1> QED
    BY <1>1, Invariance, PTL

(* The map, the recency list, the tag index and the byte count say the     *)
(* same of every entry, between and inside the loops under the mutex.      *)
THEOREM StructureAgrees == Spec => []StructureExact
  <1>1. IInv => StructureExact
    BY CountedIsWeighed DEF IInv, Consistent, LockOK, StructureExact, TypeOK,
      OrderExact, TagsExact, UsedExact
  <1> QED
    BY <1>1, Invariance, PTL

(* store's eviction loop never runs out of list and never throws out the   *)
(* entry it makes room for.                                                *)
THEOREM NewestSurvives == Spec => []EvictionSparesTheNewest
  <1>1. IInv => EvictionSparesTheNewest
    BY OverBudgetHoldsTwo DEF IInv, EvictionOK, EvictionSparesTheNewest
  <1> QED
    BY <1>1, Invariance, PTL

(* When Invalidate returns, no entry carries one of its tags.              *)
THEOREM InvalidateIsComplete == Spec => InvalidateRemovesAll
  <1> DEFINE Removed ==
        lock.op = "invalidate" /\ lock'.op = "free" =>
          \A k \in DOMAIN cache'.items : cache'.items[k].value.tags \cap lock.tags = {}
  <1>1. IInv /\ [Next]_vars => [Removed]_vars
    <2> SUFFICES ASSUME IInv, [Next]_vars, lock.op = "invalidate", lock'.op = "free"
                 PROVE  \A k \in DOMAIN cache'.items :
                          cache'.items[k].value.tags \cap lock.tags = {}
      OBVIOUS
    <2>1. SweepDone
      BY DEF Next, vars, Tick, PeekExpired, PeekHeld, Store, Evict, Invalidate,
        SweepTag, Sweep, Purge, Free, Invalidating
    <2>2. cache' = cache /\ lock.keys = {} /\ lock.rest = {}
      BY <2>1 DEF SweepDone
    <2> QED
      BY <2>2 DEF IInv, SweepOK
  <1> QED
    BY <1>1, Invariance, PTL DEF Spec, InvalidateRemovesAll

(* A caller sees entries appear by a put and vanish, never change: every   *)
(* step of the store is a step of AbstractCache or changes nothing of it.  *)
THEOREM Implementation == Spec => ImplementsAbstract
  <1>1. Init => Abstract!AbsInit
    <2> SUFFICES ASSUME Init PROVE Abstract!AbsInit
      OBVIOUS
    <2>1. DOMAIN cache.items = {} /\ now = 0
      BY DEF Init, Empty
    <2> QED
      BY <2>1 DEF Held, Abstract!AbsInit
  <1>2. IInv /\ [Next]_vars => [Abstract!AbsNext]_(Abstract!absVars)
    <2> SUFFICES ASSUME IInv, [Next]_vars
                 PROVE  Abstract!AbsNext \/ UNCHANGED <<Held, now>>
      BY DEF Abstract!absVars
    <2>1. ASSUME cache' = cache PROVE Held' = Held
      BY <2>1 DEF Held
    <2>2. ASSUME NEW k \in DOMAIN cache.items, cache' = Drop(cache, k), now' = now
          PROVE  Abstract!AbsNext
      <3>1. Held' = Abstract!Without({k})
        BY <2>2 DEF Drop, Held, Abstract!Without
      <3>2. k \in Key
        BY DEF IInv, Consistent, Shaped
      <3>3. Abstract!Remove({k})
        BY <2>2, <3>1 DEF Abstract!Remove
      <3> QED
        BY <3>2, <3>3 DEF Abstract!AbsNext
    <2>3. CASE Tick
      BY <2>3, <2>1 DEF Tick, Abstract!AbsNext, Abstract!Pass
    <2>4. CASE \E k \in Key : PeekExpired(k)
      BY <2>4, <2>2 DEF PeekExpired
    <2>5. CASE \E k \in Key : PeekHeld(k)
      <3>1. cache'.items = cache.items /\ now' = now
        BY <2>5, TouchConsistent DEF PeekHeld, IInv
      <3> QED
        BY <3>1 DEF Held
    <2>6. CASE \E k \in Key, v \in Value, p \in Policy : Store(k, v, p)
      <3>1. PICK k \in Key, v \in Value, p \in Policy : Store(k, v, p)
        BY <2>6
      <3> DEFINE rest == Discard(cache, k)
      <3>2. rest.items = [j \in DOMAIN cache.items \ {k} |-> cache.items[j]]
        BY DEF Discard, Drop, IInv, Consistent, Shaped
      <3>3. CASE Refused(k, v)
        <4>1. cache' = rest /\ now' = now
          BY <3>1, <3>3 DEF Store
        <4> HIDE DEF rest
        <4>2. Held' = Abstract!Without({k})
          BY <3>2, <4>1 DEF Held, Abstract!Without
        <4> QED
          BY <4>1, <4>2 DEF Abstract!AbsNext, Abstract!Remove
      <3>4. CASE ~Refused(k, v)
        <4>1. /\ cache' = Insert(rest, k, NewEntry(k, v, p))
              /\ now' = now /\ Cacheable(p)
          BY <3>1, <3>4 DEF Store
        <4> HIDE DEF rest
        <4>2. cache'.items = [j \in DOMAIN cache.items \cup {k} |->
                                IF j = k THEN NewEntry(k, v, p) ELSE cache.items[j]]
          BY <3>2, <4>1 DEF Insert
        <4>3. Held' = [j \in DOMAIN Held \cup {k} |->
                         IF j = k THEN Abstract!EntryOf(v, p) ELSE Held[j]]
          BY <4>2 DEF Held, NewEntry, Abstract!EntryOf
        <4>4. Abstract!Put(k, v, p)
          BY <4>1, <4>3, PolicyAssumption DEF Abstract!Put, Cacheable
        <4> QED
          BY <4>4 DEF Abstract!AbsNext
      <3> QED
        BY <3>3, <3>4
    <2>7. CASE Evict
      <3>1. cache.used > Limit
        BY <2>7 DEF IInv, EvictionOK, Evict
      <3>2. Back(cache.order) \in DOMAIN cache.items
        BY <3>1, OverBudgetHoldsTwo DEF IInv, Consistent, Shaped, Ordered, Listed, Back
      <3> QED
        BY <2>7, <3>2, <2>2 DEF Evict
    <2>8. CASE \E T \in SUBSET Tag : Invalidate(T)
      BY <2>8, <2>1 DEF Invalidate
    <2>9. CASE Sweep
      <3>1. PICK k \in lock.keys : cache' = Discard(cache, k) /\ now' = now
        BY <2>9 DEF Sweep
      <3> QED
        BY <3>1, <2>1, <2>2 DEF Discard
    <2>10. CASE SweepTag \/ SweepDone
      BY <2>10, <2>1 DEF SweepTag, SweepDone
    <2>11. CASE Purge
      <3>1. Held' = Abstract!Without(Key) /\ now' = now
        BY <2>11 DEF Purge, Empty, Held, Abstract!Without, IInv, Consistent, Shaped
      <3> QED
        BY <3>1 DEF Abstract!AbsNext, Abstract!Remove
    <2>12. CASE UNCHANGED vars
      BY <2>12, <2>1 DEF vars
    <2> QED
      BY <2>3, <2>4, <2>5, <2>6, <2>7, <2>8, <2>9, <2>10, <2>11, <2>12 DEF Next
  <1> QED
    BY <1>1, <1>2, Invariance, PTL DEF Spec, ImplementsAbstract, Abstract!AbsSpec
-----------------------------------------------------------------------------
(* The order of last use.                                                  *)

(* What is nearer the front of the list was used after what is behind it.  *)
Recent(order, used) ==
  \A i, j \in 1..Len(order) : i < j => order[i] \in used[order[j]]

RInv == IInv /\ since \in [Key -> SUBSET Key] /\ Recent(cache.order, since)

(* A list that loses an element keeps its order of use.                    *)
LEMMA UnlinkKeepsRecency ==
  ASSUME NEW order \in Seq(Key), Distinct(order), NEW k \in Listed(order),
         NEW used, Recent(order, used)
  PROVE  Recent(Unlink(order, k), used)
  <1> DEFINE left == Unlink(order, k)
             p == Place(order, k)
             from(i) == IF i < p THEN i ELSE i + 1
  <1>1. p \in 1..Len(order) /\ Len(order) \in Nat
    BY PlaceFinds
  <1>2. Len(left) = Len(order) - 1
    BY UnlinkKeeps
  <1>3. \A i \in 1..Len(left) : left[i] = order[from(i)] /\ from(i) \in 1..Len(order)
    <2> HIDE DEF p
    <2>1. \A i \in 1..(Len(order) - 1) : from(i) \in 1..Len(order)
      BY <1>1
    <2>2. \A i \in 1..(Len(order) - 1) : left[i] = order[from(i)]
      BY DEF Unlink, p
    <2> HIDE DEF left, from
    <2> QED
      BY <1>2, <2>1, <2>2
  <1>4. \A i, j \in 1..Len(left) : i < j => from(i) < from(j)
    <2> HIDE DEF p, left
    <2> QED
      BY <1>1, <1>2
  <1> HIDE DEF left, from, p
  <1>5. Recent(left, used)
    BY <1>3, <1>4 DEF Recent
  <1> QED
    BY <1>5 DEF left

(* A key moved to the front is the last used of all.                       *)
LEMMA MoveToFrontKeepsRecency ==
  ASSUME NEW order \in Seq(Key), Distinct(order), NEW k \in Listed(order),
         NEW used \in [Key -> SUBSET Key], Recent(order, used)
  PROVE  Recent(MoveToFront(order, k),
                [j \in Key |-> IF j = k THEN {} ELSE used[j] \cup {k}])
  <1> DEFINE moved == MoveToFront(order, k)
             p == Place(order, k)
             from(i) == IF i <= p THEN i - 1 ELSE i
             after == [j \in Key |-> IF j = k THEN {} ELSE used[j] \cup {k}]
  <1>1. p \in 1..Len(order) /\ order[p] = k /\ Len(order) \in Nat
    BY PlaceFinds
  <1>2. Len(moved) = Len(order) /\ moved[1] = k /\ Distinct(moved) /\ moved \in Seq(Key)
    BY MoveToFrontKeeps
  <1>3. \A i \in 2..Len(order) : from(i) \in 1..Len(order) /\ i \in 1..Len(order) /\ i # 1
    <2> HIDE DEF p
    <2> QED
      BY <1>1
  <1>4. \A i \in 2..Len(order) : moved[i] = order[from(i)]
    BY <1>3 DEF MoveToFront
  <1>5. \A i, j \in 2..Len(order) : i < j => from(i) < from(j)
    <2> HIDE DEF p
    <2> QED
      BY <1>1
  <1> HIDE DEF moved, from, p
  <1>6. \A j \in 2..Len(order) : moved[j] \in Key /\ moved[j] # k
    BY <1>2, <1>3 DEF Distinct
  <1>7. \A j \in 2..Len(order) : after[moved[j]] = used[moved[j]] \cup {k}
    BY <1>6
  <1> HIDE DEF after
  <1>8. ASSUME NEW i \in 1..Len(order), NEW j \in 1..Len(order), i < j
        PROVE  moved[i] \in after[moved[j]]
    <2>1. j \in 2..Len(order) /\ (i = 1 \/ i \in 2..Len(order))
      BY <1>1, <1>8
    <2>2. CASE i = 1
      BY <1>2, <1>7, <2>1, <2>2
    <2>3. CASE i \in 2..Len(order)
      <3>1. order[from(i)] \in used[order[from(j)]]
        BY <1>3, <1>5, <1>8, <2>1, <2>3 DEF Recent
      <3> QED
        BY <1>4, <1>7, <2>1, <2>3, <3>1
    <2> QED
      BY <2>1, <2>2, <2>3
  <1>9. Recent(moved, after)
    BY <1>2, <1>8 DEF Recent
  <1> QED
    BY <1>9 DEF moved, after

(* So is a key put in front.                                               *)
LEMMA PushFrontKeepsRecency ==
  ASSUME NEW order \in Seq(Key), Distinct(order), NEW k \in Key, k \notin Listed(order),
         NEW used \in [Key -> SUBSET Key], Recent(order, used)
  PROVE  Recent(PushFront(order, k),
                [j \in Key |-> IF j = k THEN {} ELSE used[j] \cup {k}])
  <1> DEFINE more == PushFront(order, k)
             after == [j \in Key |-> IF j = k THEN {} ELSE used[j] \cup {k}]
  <1>1. Len(more) = Len(order) + 1 /\ more[1] = k /\ Len(order) \in Nat
    BY PushFrontKeeps
  <1>2. \A i \in 2..Len(more) : i - 1 \in 1..Len(order) /\ i \in 1..Len(more) /\ i # 1
    BY <1>1
  <1>3. \A i \in 2..Len(more) : more[i] = order[i - 1]
    BY <1>1, <1>2 DEF PushFront
  <1> HIDE DEF more
  <1>4. \A j \in 2..Len(more) : more[j] \in Key /\ more[j] # k
    BY <1>2, <1>3 DEF Listed
  <1>5. \A j \in 2..Len(more) : after[more[j]] = used[more[j]] \cup {k}
    BY <1>4
  <1> HIDE DEF after
  <1>6. ASSUME NEW i \in 1..Len(more), NEW j \in 1..Len(more), i < j
        PROVE  more[i] \in after[more[j]]
    <2>1. j \in 2..Len(more) /\ (i = 1 \/ i \in 2..Len(more))
      BY <1>1, <1>6
    <2>2. CASE i = 1
      BY <1>1, <1>5, <2>1, <2>2
    <2>3. CASE i \in 2..Len(more)
      <3>1. order[i - 1] \in used[order[j - 1]]
        BY <1>2, <1>6, <2>1, <2>3 DEF Recent
      <3> QED
        BY <1>3, <1>5, <2>1, <2>3, <3>1
    <2> QED
      BY <2>1, <2>2, <2>3
  <1>7. Recent(more, after)
    BY <1>6 DEF Recent
  <1> QED
    BY <1>7 DEF more, after
-----------------------------------------------------------------------------
(* RInv is inductive.                                                      *)

LEMMA ListFacts ==
  ASSUME IInv
  PROVE  /\ cache.order \in Seq(Key) /\ Distinct(cache.order)
         /\ Listed(cache.order) = DOMAIN cache.items
         /\ DOMAIN cache.items \subseteq Key
  BY DEF IInv, Consistent, Shaped, Ordered

(* The eviction loop finds a victim at the back of the list.               *)
LEMMA BackIsListed ==
  ASSUME IInv, lock.op = "evict"
  PROVE  /\ Len(cache.order) \in 1..Len(cache.order)
         /\ Back(cache.order) \in DOMAIN cache.items
  <1>1. Len(cache.order) \in Nat /\ Len(cache.order) >= 2
    BY OverBudgetHoldsTwo, ListFacts DEF IInv, EvictionOK
  <1> QED
    BY <1>1, ListFacts DEF Back, Listed

LEMMA DropKeepsRecency ==
  ASSUME RInv, NEW k \in DOMAIN cache.items
  PROVE  Recent(Drop(cache, k).order, since)
  <1>1. Drop(cache, k).order = Unlink(cache.order, k)
    BY DEF Drop
  <1> QED
    BY <1>1, ListFacts, UnlinkKeepsRecency DEF RInv

LEMMA UseTyped ==
  ASSUME since \in [Key -> SUBSET Key], NEW k \in Key, Use(k)
  PROVE  since' \in [Key -> SUBSET Key]
  BY DEF Use

LEMMA StoreKeepsRecency ==
  ASSUME RInv, NEW k \in Key, NEW v \in Value, NEW p \in Policy, Store(k, v, p),
         IF Refused(k, v) THEN UNCHANGED since ELSE Use(k)
  PROVE  since' \in [Key -> SUBSET Key] /\ Recent(cache'.order, since')
  <1> DEFINE rest == Discard(cache, k)
  <1>1. /\ rest.order \in Seq(Key) /\ Distinct(rest.order) /\ k \notin Listed(rest.order)
        /\ Recent(rest.order, since)
    <2>1. CASE k \in DOMAIN cache.items
      <3>1. rest.order = Unlink(cache.order, k)
        BY <2>1 DEF Discard, Drop
      <3> QED
        BY <2>1, <3>1, ListFacts, UnlinkKeeps, UnlinkKeepsRecency DEF RInv
    <2>2. CASE k \notin DOMAIN cache.items
      BY <2>2, ListFacts DEF Discard, RInv
    <2> QED
      BY <2>1, <2>2
  <1>2. CASE Refused(k, v)
    BY <1>1, <1>2 DEF Store, RInv
  <1>3. CASE ~Refused(k, v)
    <2>1. cache'.order = PushFront(rest.order, k)
      BY <1>3 DEF Store, Insert
    <2>2. Use(k)
      BY <1>3
    <2> HIDE DEF rest
    <2> QED
      BY <1>1, <2>1, <2>2, PushFrontKeepsRecency, UseTyped DEF Use, RInv
  <1> QED
    BY <1>2, <1>3

(* A step of the history is a step of the cache.                           *)
LEMMA Underlying == RecencyNext \/ UNCHANGED recencyVars => [Next]_vars
  BY DEF RecencyNext, Next, recencyVars, vars

LEMMA NextRInv == RInv /\ [RecencyNext]_recencyVars => RInv'
  <1> SUFFICES ASSUME RInv, [RecencyNext]_recencyVars PROVE RInv'
    OBVIOUS
  <1>1. IInv'
    BY Underlying, NextIInv DEF RInv
  <1>2. ASSUME cache' = cache, since' = since PROVE RInv'
    BY <1>1, <1>2 DEF RInv
  <1>3. ASSUME NEW k \in DOMAIN cache.items, cache' = Drop(cache, k), since' = since
        PROVE  RInv'
    BY <1>1, <1>3, DropKeepsRecency DEF RInv
  <1>4. CASE \E k \in Key : PeekHeld(k) /\ Use(k)
    <2>1. PICK k \in Key : PeekHeld(k) /\ Use(k)
      BY <1>4
    <2>2. cache'.order = MoveToFront(cache.order, k)
      BY <2>1, ListFacts DEF PeekHeld, Touch, RInv, IInv, Consistent, Shaped
    <2>3. k \in Listed(cache.order)
      BY <2>1, ListFacts DEF PeekHeld, RInv
    <2>4. since' = [j \in Key |-> IF j = k THEN {} ELSE since[j] \cup {k}]
      BY <2>1 DEF Use
    <2>5. Recent(cache'.order, since')
      BY <2>2, <2>3, <2>4, ListFacts, MoveToFrontKeepsRecency DEF RInv
    <2> QED
      BY <1>1, <2>1, <2>5, UseTyped DEF RInv
  <1>5. CASE \E k \in Key, v \in Value, p \in Policy :
               /\ Store(k, v, p)
               /\ IF Refused(k, v) THEN UNCHANGED since ELSE Use(k)
    BY <1>1, <1>5, StoreKeepsRecency DEF RInv
  <1>6. CASE /\ Tick \/ SweepTag \/ SweepDone \/ \E T \in SUBSET Tag : Invalidate(T)
             /\ UNCHANGED since
    BY <1>2, <1>6 DEF Tick, SweepTag, SweepDone, Invalidate
  <1>7. CASE (\E k \in Key : PeekExpired(k)) /\ UNCHANGED since
    BY <1>3, <1>7 DEF PeekExpired
  <1>8. CASE Sweep /\ UNCHANGED since
    <2>1. PICK k \in lock.keys : cache' = Discard(cache, k)
      BY <1>8 DEF Sweep
    <2> QED
      BY <1>2, <1>3, <1>8, <2>1 DEF Discard
  <1>9. CASE Evict /\ UNCHANGED since
    <2>1. Back(cache.order) \in DOMAIN cache.items
      BY <1>9, BackIsListed DEF RInv, Evict
    <2> QED
      BY <1>3, <1>9, <2>1 DEF Evict
  <1>10. CASE Purge /\ UNCHANGED since
    BY <1>1, <1>10 DEF Purge, Empty, Recent, RInv
  <1>11. CASE UNCHANGED recencyVars
    BY <1>2, <1>11 DEF recencyVars
  <1> QED
    BY <1>4, <1>5, <1>6, <1>7, <1>8, <1>9, <1>10, <1>11 DEF RecencyNext

LEMMA RecencyInvariance == RecencySpec => []RInv
  <1>1. RecencyInit => RInv
    BY InitIInv DEF RecencyInit, RInv, Init, Empty, Recent
  <1> QED
    BY <1>1, NextRInv, PTL DEF RecencySpec
-----------------------------------------------------------------------------
(* store's eviction loop takes the entry used longest ago, and only while  *)
(* the entries held exceed the budget.                                     *)
THEOREM EvictionIsLRU == RecencySpec => EvictsAsLRU
  <1> DEFINE AsLRU ==
        lock.op = "evict" =>
          \A gone \in DOMAIN cache.items \ DOMAIN cache'.items :
            /\ DOMAIN cache.items \ {gone} \subseteq since[gone]
            /\ Weighed(cache) > Limit
  <1>1. RInv /\ [RecencyNext]_recencyVars => AsLRU
    <2> SUFFICES ASSUME RInv, [RecencyNext]_recencyVars, lock.op = "evict",
                        NEW gone \in DOMAIN cache.items \ DOMAIN cache'.items
                 PROVE  /\ DOMAIN cache.items \ {gone} \subseteq since[gone]
                        /\ Weighed(cache) > Limit
      OBVIOUS
    <2>1. Evict
      BY DEF RecencyNext, recencyVars, Tick, PeekExpired, PeekHeld, Store,
        Invalidate, SweepTag, Sweep, SweepDone, Purge, Free
    <2>2. gone = Back(cache.order)
      BY <2>1 DEF Evict, Drop
    <2>3. Len(cache.order) \in 1..Len(cache.order)
      BY BackIsListed DEF RInv
    <2>4. ASSUME NEW k \in DOMAIN cache.items, k # gone PROVE k \in since[gone]
      <3>1. PICK i \in 1..Len(cache.order) : cache.order[i] = k
        BY ListFacts DEF RInv, Listed
      <3>2. i < Len(cache.order)
        BY <2>2, <2>3, <2>4, <3>1 DEF Back
      <3> QED
        BY <2>2, <2>3, <3>1, <3>2 DEF Back, RInv, Recent
    <2>5. Weighed(cache) = cache.used
      BY CountedIsWeighed DEF RInv, IInv, Consistent
    <2> QED
      BY <2>4, <2>5 DEF RInv, IInv, EvictionOK
  <1>2. EvictsAsLRU <=> [][AsLRU]_recencyVars
    BY DEF EvictsAsLRU
  <1> QED
    BY <1>1, <1>2, RecencyInvariance, PTL DEF RecencySpec
=============================================================================
