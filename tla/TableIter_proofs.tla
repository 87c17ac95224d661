-------------------------- MODULE TableIter_proofs ---------------------------
(***************************************************************************)
(* Proofs about reading, clearing and zeroing a hash table, for every set  *)
(* of keys, number of buckets and size of the table.                       *)
(***************************************************************************)
EXTENDS TableIter, FiniteSetTheorems, TLAPS

Pcs == {"idle", "next", "use", "set", "batch", "bucket", "ENOENT", "ENOSPC", "more",
        "returned", "raised"}
InBatches == {"bucket", "ENOENT", "ENOSPC", "more"}
Batches == {"batch_lookup", "batch_delete"}
Clears == {"clear_cc", "clear_py"}

-----------------------------------------------------------------------------
(* The table as a function of the buckets.                                  *)

\* A table whose buckets hold their own keys, once each.
Chained(m) ==
  /\ m \in [Buckets -> Seq(Keys)]
  /\ \A b \in Buckets : /\ \A i \in 1..Len(m[b]) : Bucket(m[b][i]) = b
                        /\ IsInjective(m[b])
Held(m) == UNION {Range(m[b]) : b \in Buckets}

-----------------------------------------------------------------------------
(* The inductive invariant.                                                 *)

Readers == [op : Ops \cup {"none"}, pc : Pcs, key : Keys \cup {None}, got : Seq(Keys),
            list : Seq(Keys), cur : Nat, cnt : Nat, total : Nat, left : Nat, taken : Nat]

Tabled == Chained(map) /\ nonzero \subseteq Content
          /\ IsFiniteSet(Content) /\ Cardinality(Content) <= MaxEntries
Typed ==
  /\ rd \in Readers
  /\ hist \in [did : SUBSET {"insert", "update", "delete"}, start : SUBSET Keys]
  /\ IsFiniteSet(hist.start) /\ Cardinality(hist.start) <= MaxEntries
  /\ rd.pc = "idle" <=> rd.op = "none"
  /\ rd.pc = "use" => rd.key # None
  /\ rd.pc \in InBatches \cup {"batch"} => rd.op \in Batches
  /\ rd.pc = "set" => rd.op = "zero"

\* What a batch has read is counted, and fits in the arrays.
Counting ==
  rd.op \in Batches =>
    /\ rd.pc \in InBatches \cup {"batch", "returned", "raised"}
    /\ rd.total <= MaxEntries
    /\ rd.pc \in InBatches => /\ rd.left = MaxEntries - rd.total /\ rd.cnt <= rd.left
                              /\ Len(rd.got) = rd.total + rd.cnt
    /\ rd.pc \notin InBatches => Len(rd.got) = rd.total
    /\ rd.op = "batch_delete" => rd.taken = Len(rd.got)

Quiet == hist.did = {}
Inserts == hist.did \subseteq {"insert"}

\* A walk has collected, once each, keys that are there, among them those of the
\* start that come before the key it stands on.
Past(j) == Before(map, j, rd.key) \/ (rd.pc = "next" /\ j = rd.key)
Walked(s) ==
  /\ IsInjective(s) /\ Range(s) \subseteq Content
  /\ rd.pc = "next" /\ rd.key = None => s = <<>>
  /\ rd.pc \in {"next", "use"} /\ rd.key # None =>
       /\ rd.key \in Content
       /\ \A j \in Range(s) : Past(j)
       /\ \A j \in hist.start : Past(j) => j \in Range(s)

Gathering ==
  rd.op \in {"offline", "items"} /\ Inserts =>
    /\ rd.pc \in {"next", "use", "returned"} /\ hist.start \subseteq Content
    /\ Walked(rd.got)
    /\ rd.pc = "returned" => hist.start \subseteq Range(rd.got)

Zeroing ==
  rd.op = "zero" /\ Quiet =>
    /\ rd.pc \in {"next", "use", "set", "returned"}
    /\ rd.pc \in {"next", "use"} => Walked(rd.list)
    /\ rd.pc \in {"set", "returned"} => nonzero \subseteq Range(rd.list) /\ Range(rd.list) \subseteq Content
    /\ rd.pc = "returned" => rd.list = <<>>

\* What was there is there, but for the calls that delete.
Same == rd.op \in {"offline", "items", "zero", "batch_lookup"} /\ Quiet => Content = hist.start

Clearing ==
  rd.op \in Clears /\ Quiet =>
    /\ rd.pc \in {"next", "use", "returned"}
    /\ rd.pc = "use" => rd.key \in Content
    /\ rd.pc = "next" /\ rd.op = "clear_py" => rd.key \notin Content
    /\ rd.pc = "returned" => Content = {}

\* A batch that is not disturbed has collected the buckets before the one it is at.
Undisturbed == (rd.op = "batch_lookup" /\ Inserts) \/ (rd.op = "batch_delete" /\ Quiet)
Scanning ==
  Undisturbed =>
    /\ rd.pc \in {"batch", "bucket", "ENOENT", "returned"} /\ IsInjective(rd.got)
    /\ rd.pc # "returned" => rd.total = 0
    /\ rd.pc = "bucket" =>
         /\ \A j \in Range(rd.got) : Bucket(j) < rd.cur
         /\ \A j \in hist.start : Bucket(j) < rd.cur => j \in Range(rd.got)
    /\ rd.pc \in {"ENOENT", "returned"} => hist.start \subseteq Range(rd.got)
    /\ rd.op = "batch_lookup" => Range(rd.got) \subseteq Content /\ hist.start \subseteq Content
    /\ rd.op = "batch_delete" => Range(rd.got) \cup Content = hist.start /\ Range(rd.got) \cap Content = {}

IInv == Tabled /\ Typed /\ Counting /\ Gathering /\ Zeroing /\ Same /\ Clearing /\ Scanning


-----------------------------------------------------------------------------
(* Chains: a key more, a key less.                                          *)

\* Every key belongs to a bucket.
LEMMA BucketType ==
  ASSUME NEW k \in Keys PROVE Bucket(k) \in Buckets
BY TableIterAssumption DEF Bucket, Buckets, None

\* The bucket of None is one, too.
LEMMA BucketNone == Bucket(None) \in Buckets /\ None \notin Keys
BY TableIterAssumption DEF Bucket, Buckets, None

\* The elements of a sequence.
LEMMA Elements ==
  ASSUME NEW S, NEW s \in Seq(S)
  PROVE  /\ \A x : x \in Range(s) <=> \E i \in 1..Len(s) : s[i] = x
         /\ Range(s) \subseteq S
         /\ IsInjective(s) <=> \A i, j \in 1..Len(s) : s[i] = s[j] => i = j
BY DEF Range, IsInjective

\* The place of an element of a chain without repetitions.
LEMMA PlaceIs ==
  ASSUME NEW S, NEW s \in Seq(S), IsInjective(s), NEW i \in 1..Len(s)
  PROVE  Place(s, s[i]) = i
BY Elements DEF Place

\* The elements of two sequences joined.
LEMMA Joined ==
  ASSUME NEW S, NEW a \in Seq(S), NEW b \in Seq(S)
  PROVE  /\ a \o b \in Seq(S) /\ Len(a \o b) = Len(a) + Len(b)
         /\ \A k \in 1..(Len(a) + Len(b)) :
              (a \o b)[k] = IF k <= Len(a) THEN a[k] ELSE b[k - Len(a)]
<1>1. a \o b \in Seq(S)
  OBVIOUS
<1>2. Len(a \o b) = Len(a) + Len(b)
  OBVIOUS
<1>3. ASSUME NEW k \in 1..(Len(a) + Len(b))
      PROVE  (a \o b)[k] = IF k <= Len(a) THEN a[k] ELSE b[k - Len(a)]
  OBVIOUS
<1> QED BY <1>1, <1>2, <1>3, Zenon

Cut(s, i) == SubSeq(s, 1, i - 1) \o SubSeq(s, i + 1, Len(s))

\* A sequence without its i-th element.
LEMMA CutIs ==
  ASSUME NEW S, NEW s \in Seq(S), NEW i \in 1..Len(s)
  PROVE  /\ Cut(s, i) \in Seq(S) /\ Len(Cut(s, i)) = Len(s) - 1
         /\ \A k \in 1..(Len(s) - 1) : Cut(s, i)[k] = IF k < i THEN s[k] ELSE s[k + 1]
<1> DEFINE a == SubSeq(s, 1, i - 1)
           b == SubSeq(s, i + 1, Len(s))
<1>1. /\ a \in Seq(S) /\ Len(a) = i - 1
      /\ \A k \in 1..(i - 1) : a[k] = s[k]
  OBVIOUS
<1>2. /\ b \in Seq(S) /\ Len(b) = Len(s) - i
      /\ \A k \in 1..(Len(s) - i) : b[k] = s[i + k]
  OBVIOUS
<1> HIDE DEF a, b
<1>3. Cut(s, i) = a \o b
  BY Zenon DEF Cut, a, b
<1> DEFINE c == a \o b
<1>4. /\ c \in Seq(S) /\ Len(c) = Len(a) + Len(b)
      /\ \A k \in 1..(Len(a) + Len(b)) : c[k] = IF k <= Len(a) THEN a[k] ELSE b[k - Len(a)]
  BY <1>1, <1>2, Joined, Zenon
<1>5. Cut(s, i) = c
  BY <1>3, Zenon
<1> HIDE DEF c
<1>6. Len(s) \in Nat /\ Len(c) = Len(s) - 1
  BY <1>1, <1>2, <1>4
<1>7. ASSUME NEW k \in 1..(Len(s) - 1)
      PROVE  c[k] = IF k < i THEN s[k] ELSE s[k + 1]
  <2>1. CASE k < i
    <3>1. k \in 1..(i - 1) /\ k \in 1..(Len(a) + Len(b)) /\ k <= Len(a)
      BY <1>1, <1>2, <1>6, <2>1
    <3>2. c[k] = a[k] /\ a[k] = s[k]
      BY <1>1, <1>4, <3>1, Zenon
    <3> QED BY <2>1, <3>2, Zenon
  <2>2. CASE k >= i
    <3>0. k \in Int /\ i \in Int /\ Len(s) \in Int /\ k <= Len(s) - 1 /\ 1 <= i /\ i <= Len(s)
      BY <1>6
    <3>1. k - (i - 1) \in 1..(Len(s) - i) /\ k \in 1..(Len(a) + Len(b)) /\ ~(k <= Len(a))
      BY <1>1, <1>2, <2>2, <3>0
    <3>3. c[k] = b[k - (i - 1)]
      BY <1>1, <1>4, <3>1, Zenon
    <3>2. i + (k - (i - 1)) = k + 1
      BY <1>6
    <3> QED BY <1>2, <2>2, <3>0, <3>1, <3>2, <3>3
  <2> QED BY <2>1, <2>2, <1>6
<1> QED BY <1>4, <1>5, <1>6, <1>7, Zenon

\* A chain without one of its keys.
LEMMA WithoutHas ==
  ASSUME NEW S, NEW s \in Seq(S), NEW e, IsInjective(s)
  PROVE  LET t == Without(s, e) IN
         /\ t \in Seq(S) /\ IsInjective(t)
         /\ Range(t) = Range(s) \ {e}
<1> DEFINE t == Without(s, e)
<1>1. CASE e \notin Range(s) /\ t = s
  BY <1>1, Zenon
<1>2. ASSUME NEW i \in 1..Len(s), s[i] = e, t = Cut(s, i)
      PROVE  t \in Seq(S) /\ IsInjective(t) /\ Range(t) = Range(s) \ {e}
  <2> HIDE DEF t
  <2>0. /\ \A k, l \in 1..Len(s) : s[k] = s[l] => k = l
        /\ \A x : x \in Range(s) <=> \E k \in 1..Len(s) : s[k] = x
    BY Elements, Zenon
  <2>1. /\ t \in Seq(S) /\ Len(t) = Len(s) - 1 /\ Len(s) \in Nat
        /\ \A k \in 1..(Len(s) - 1) : t[k] = IF k < i THEN s[k] ELSE s[k + 1]
    <3>1. Len(s) \in Nat
      OBVIOUS
    <3> DEFINE c == Cut(s, i)
    <3>2. /\ c \in Seq(S) /\ Len(c) = Len(s) - 1
          /\ \A k \in 1..(Len(s) - 1) : c[k] = IF k < i THEN s[k] ELSE s[k + 1]
      BY CutIs, Zenon
    <3>3. t = c
      BY <1>2, Zenon
    <3> HIDE DEF c
    <3> QED BY <3>1, <3>2, <3>3, Zenon
  <2>2. /\ \A x : x \in Range(t) <=> \E k \in 1..Len(t) : t[k] = x
        /\ IsInjective(t) <=> \A k, l \in 1..Len(t) : t[k] = t[l] => k = l
    BY <2>1, Elements, Zenon
  <2>3. IsInjective(t)
    BY <2>0, <2>1, <2>2
  <2>4. \A x : x \in Range(t) => x \in Range(s) /\ x # e
    <3> TAKE x
    <3> HAVE x \in Range(t)
    <3>1. PICK k \in 1..Len(t) : t[k] = x
      BY <2>2, Zenon
    <3> DEFINE l == IF k < i THEN k ELSE k + 1
    <3>2. l \in 1..Len(s) /\ s[l] = x /\ l # i
      BY <2>1, <3>1
    <3> QED BY <1>2, <2>0, <3>2, Zenon
  <2>5. \A x : x \in Range(s) /\ x # e => x \in Range(t)
    <3> TAKE x
    <3> HAVE x \in Range(s) /\ x # e
    <3>1. PICK k \in 1..Len(s) : s[k] = x
      BY <2>0, Zenon
    <3> DEFINE l == IF k < i THEN k ELSE k - 1
    <3>2. k # i
      BY <1>2, <3>1, Zenon
    <3>3. l \in 1..Len(t) /\ t[l] = x
      BY <2>1, <3>1, <3>2
    <3> QED BY <2>2, <3>3, Zenon
  <2> QED BY <2>1, <2>3, <2>4, <2>5, Zenon
<1>3. ASSUME e \in Range(s) PROVE \E i \in 1..Len(s) : s[i] = e /\ t = Cut(s, i)
  <2>1. PICK i \in 1..Len(s) : s[i] = e
    BY <1>3, Elements, Zenon
  <2>2. Place(s, e) = i
    BY <2>1, PlaceIs, Zenon
  <2> QED BY <1>3, <2>1, <2>2, Zenon DEF Without, Cut
<1>4. e \notin Range(s) => t = s
  BY Zenon DEF Without
<1> QED BY <1>1, <1>2, <1>3, <1>4, Zenon

\* A key that is held is in its bucket.
LEMMA HeldIs ==
  ASSUME NEW m, Chained(m)
  PROVE  /\ \A k : k \in Held(m) <=> k \in Keys /\ k \in Range(m[Bucket(k)])
         /\ \A b \in Buckets : \A k \in Range(m[b]) : k \in Keys /\ Bucket(k) = b /\ k \in Held(m)
<1>1. \A b \in Buckets : \A k \in Range(m[b]) : k \in Keys /\ Bucket(k) = b /\ k \in Held(m)
  <2> TAKE b \in Buckets
  <2> TAKE k \in Range(m[b])
  <2>1. m[b] \in Seq(Keys)
    BY Zenon DEF Chained
  <2>2. PICK i \in 1..Len(m[b]) : m[b][i] = k
    BY <2>1, Elements, Zenon
  <2>3. Bucket(k) = b
    BY <2>2, Zenon DEF Chained
  <2>4. k \in Keys
    BY <2>1, Elements, Zenon
  <2> QED BY <2>3, <2>4, Zenon DEF Held
<1>2. \A k \in Keys : k \in Range(m[Bucket(k)]) => k \in Held(m)
  BY <1>1, BucketType, Zenon
<1>3. \A k \in Held(m) : k \in Keys /\ k \in Range(m[Bucket(k)])
  <2> TAKE k \in Held(m)
  <2>1. PICK b \in Buckets : k \in Range(m[b])
    BY Zenon DEF Held
  <2> QED BY <1>1, <2>1, Zenon
<1> QED BY <1>1, <1>2, <1>3, Zenon

Replaced(m, b, s, n) == n = [m EXCEPT ![b] = s]
IsChain(s, b) == s \in Seq(Keys) /\ IsInjective(s) /\ \A k \in Range(s) : Bucket(k) = b
Holding(m, b, s, n) == Chained(n) /\ Held(n) = (Held(m) \ Range(m[b])) \cup Range(s)

\* A table with one chain replaced.
LEMMA ChainReplaced ==
  ASSUME NEW m, Chained(m), NEW b \in Buckets, NEW s, IsChain(s, b), NEW n, Replaced(m, b, s, n)
  PROVE  Holding(m, b, s, n)
<1>0. s \in Seq(Keys) /\ IsInjective(s) /\ \A k \in Range(s) : Bucket(k) = b
  BY Zenon DEF IsChain
<1>1. n \in [Buckets -> Seq(Keys)] /\ n[b] = s /\ \A c \in Buckets \ {b} : n[c] = m[c]
  BY <1>0, Zenon DEF Chained, Replaced
<1>2. \A i \in 1..Len(s) : Bucket(s[i]) = b
  BY <1>0, Elements, Zenon
<1>3. Chained(n)
  BY <1>0, <1>1, <1>2, Zenon DEF Chained
<1>4. Held(n) \subseteq (Held(m) \ Range(m[b])) \cup Range(s)
  <2> SUFFICES ASSUME NEW k \in Held(n), k \notin Range(s)
               PROVE  k \in Held(m) /\ k \notin Range(m[b])
    BY Zenon
  <2>1. k \in Keys /\ k \in Range(n[Bucket(k)]) /\ Bucket(k) \in Buckets
    BY <1>3, HeldIs, BucketType, Zenon
  <2>2. Bucket(k) # b
    BY <1>1, <2>1, Zenon
  <2>3. k \in Range(m[Bucket(k)])
    BY <1>1, <2>1, <2>2, Zenon
  <2> QED BY <2>1, <2>2, <2>3, HeldIs, Zenon
<1>5. Held(m) \ Range(m[b]) \subseteq Held(n)
  <2> SUFFICES ASSUME NEW k \in Held(m), k \notin Range(m[b]) PROVE k \in Held(n)
    BY Zenon
  <2>1. k \in Keys /\ k \in Range(m[Bucket(k)]) /\ Bucket(k) \in Buckets
    BY HeldIs, BucketType, Zenon
  <2>2. k \in Range(n[Bucket(k)])
    BY <1>1, <2>1, Zenon
  <2> QED BY <1>3, <2>1, <2>2, HeldIs, Zenon
<1>6. Range(s) \subseteq Held(n)
  BY <1>0, <1>1, <1>3, Elements, HeldIs, Zenon
<1> QED BY <1>3, <1>4, <1>5, <1>6, Zenon DEF Holding

\* A key put in front of a chain that does not have it.
LEMMA InFront ==
  ASSUME NEW k \in Keys, NEW s \in Seq(Keys), IsInjective(s), k \notin Range(s)
  PROVE  LET t == <<k>> \o s IN
         /\ t \in Seq(Keys) /\ IsInjective(t) /\ Range(t) = Range(s) \cup {k}
         /\ Len(t) = Len(s) + 1 /\ t[1] = k /\ \A i \in 1..Len(s) : t[i + 1] = s[i]
<1> DEFINE t == <<k>> \o s
<1>0. Len(s) \in Nat /\ <<k>> \in Seq(Keys) /\ Len(<<k>>) = 1 /\ <<k>>[1] = k
  OBVIOUS
<1>1. /\ t \in Seq(Keys) /\ Len(t) = Len(<<k>>) + Len(s)
      /\ \A i \in 1..(Len(<<k>>) + Len(s)) : t[i] = IF i <= Len(<<k>>) THEN <<k>>[i] ELSE s[i - Len(<<k>>)]
  BY <1>0
<1>2. Len(t) = Len(s) + 1 /\ t[1] = k
  BY <1>0, <1>1
<1>3. \A i \in 2..(Len(s) + 1) : t[i] = s[i - 1]
  BY <1>0, <1>1
<1> HIDE DEF t
<1>4. \A i \in 1..Len(s) : t[i + 1] = s[i]
  <2> TAKE i \in 1..Len(s)
  <2>1. i + 1 \in 2..(Len(s) + 1) /\ (i + 1) - 1 = i
    BY <1>0
  <2> QED BY <1>3, <2>1, Zenon
<1>5. Range(t) = Range(s) \cup {k}
  <2>1. \A x \in Range(t) : x \in Range(s) \cup {k}
    <3> TAKE x \in Range(t)
    <3>1. PICK i \in 1..Len(t) : t[i] = x
      BY <1>1, Elements, Zenon
    <3>2. CASE i = 1
      BY <1>2, <3>1, <3>2, Zenon
    <3>3. CASE i # 1
      <4>1. i - 1 \in 1..Len(s) /\ s[i - 1] = x
        BY <1>0, <1>2, <1>3, <3>1, <3>3
      <4> QED BY <4>1, Elements
    <3> QED BY <3>2, <3>3, Zenon
  <2>2. k \in Range(t)
    <3>1. 1 \in 1..Len(t)
      BY <1>0, <1>2
    <3> QED BY <1>1, <1>2, <3>1, Elements, Zenon
  <2>3. \A x \in Range(s) : x \in Range(t)
    <3> TAKE x \in Range(s)
    <3>1. PICK i \in 1..Len(s) : s[i] = x
      BY Elements, Zenon
    <3>2. i + 1 \in 1..Len(t) /\ t[i + 1] = x
      BY <1>0, <1>2, <1>4, <3>1
    <3> QED BY <1>1, <3>2, Elements, Zenon
  <2> QED BY <2>1, <2>2, <2>3, Zenon
<1>6. IsInjective(t)
  <2>1. \A i \in 1..Len(s) : s[i] # k
    BY Elements, Zenon
  <2>2. \A i, j \in 1..Len(s) : s[i] = s[j] => i = j
    BY Elements, Zenon
  <2> SUFFICES ASSUME NEW i \in 1..Len(t), NEW j \in 1..Len(t), t[i] = t[j] PROVE i = j
    BY <1>1, Elements, Zenon
  <2>3. \A l \in 1..Len(t) : l # 1 => l - 1 \in 1..Len(s) /\ t[l] = s[l - 1] /\ l \in Int
    BY <1>0, <1>2, <1>3
  <2> QED BY <1>2, <2>1, <2>2, <2>3
<1> QED BY <1>1, <1>2, <1>4, <1>5, <1>6, Zenon DEF t

\* An update puts its key into the table.
LEMMA PutHolds ==
  ASSUME NEW m, Chained(m), NEW k \in Keys
  PROVE  Chained(Put(m, k)) /\ Held(Put(m, k)) = Held(m) \cup {k}
<1> DEFINE b == Bucket(k)
           s == Without(m[b], k)
           t == <<k>> \o s
<1>1. b \in Buckets /\ m[b] \in Seq(Keys) /\ IsInjective(m[b])
  BY BucketType, Zenon DEF Chained
<1>2. s \in Seq(Keys) /\ IsInjective(s) /\ Range(s) = Range(m[b]) \ {k}
  BY <1>1, WithoutHas, Zenon
<1>3. Put(m, k) = [m EXCEPT ![b] = t]
  BY Zenon DEF Put
<1> HIDE DEF s
<1>4. t \in Seq(Keys) /\ IsInjective(t) /\ Range(t) = Range(s) \cup {k}
  BY <1>2, InFront, Zenon
<1>5. \A x \in Range(m[b]) : Bucket(x) = b /\ x \in Held(m)
  BY <1>1, HeldIs, Zenon
<1> HIDE DEF t, b
<1>6. \A x \in Range(t) : Bucket(x) = b
  BY <1>2, <1>4, <1>5, Zenon DEF b
<1>7. Chained(Put(m, k)) /\ Held(Put(m, k)) = (Held(m) \ Range(m[b])) \cup Range(t)
  <2>1. Replaced(m, b, t, Put(m, k))
    BY <1>3, Zenon DEF Replaced
  <2>2. IsChain(t, b)
    BY <1>4, <1>6, Zenon DEF IsChain
  <2>3. Holding(m, b, t, Put(m, k))
    BY <1>1, <2>1, <2>2, ChainReplaced, Zenon
  <2> QED BY <2>3, Zenon DEF Holding
<1> QED BY <1>2, <1>4, <1>5, <1>7, Zenon

\* A deletion takes its key out.
LEMMA DropHolds ==
  ASSUME NEW m, Chained(m), NEW k \in Keys
  PROVE  Chained(Drop(m, k)) /\ Held(Drop(m, k)) = Held(m) \ {k}
<1> DEFINE b == Bucket(k)
           s == Without(m[b], k)
<1>1. b \in Buckets /\ m[b] \in Seq(Keys) /\ IsInjective(m[b])
  BY BucketType, Zenon DEF Chained
<1>2. s \in Seq(Keys) /\ IsInjective(s) /\ Range(s) = Range(m[b]) \ {k}
  BY <1>1, WithoutHas, Zenon
<1>3. Drop(m, k) = [m EXCEPT ![b] = s]
  BY Zenon DEF Drop
<1> HIDE DEF s
<1>5. \A x \in Range(m[b]) : Bucket(x) = b /\ x \in Held(m)
  BY <1>1, HeldIs, Zenon
<1>6. k \in Held(m) => k \in Range(m[b])
  BY HeldIs, Zenon
<1> HIDE DEF b
<1>9. \A x \in Range(s) : Bucket(x) = b
  BY <1>2, <1>5, Zenon
<1>7. Chained(Drop(m, k)) /\ Held(Drop(m, k)) = (Held(m) \ Range(m[b])) \cup Range(s)
  <2>1. Replaced(m, b, s, Drop(m, k))
    BY <1>3, Zenon DEF Replaced
  <2>2. IsChain(s, b)
    BY <1>2, <1>9, Zenon DEF IsChain
  <2>3. Holding(m, b, s, Drop(m, k))
    BY <1>1, <2>1, <2>2, ChainReplaced, Zenon
  <2> QED BY <2>3, Zenon DEF Holding
<1> QED BY <1>2, <1>5, <1>6, <1>7, Zenon

\* A new key does not change the order of the others.
LEMMA PutKeepsOrder ==
  ASSUME NEW m, Chained(m), NEW k \in Keys, k \notin Held(m),
         NEW i \in Held(m), NEW j \in Held(m)
  PROVE  Before(Put(m, k), i, j) <=> Before(m, i, j)
<1> DEFINE b == Bucket(k)
           s == m[b]
           t == <<k>> \o s
<1>1. b \in Buckets /\ s \in Seq(Keys) /\ IsInjective(s) /\ k \notin Range(s)
  BY BucketType, HeldIs, Zenon DEF Chained
<1>2. Without(s, k) = s
  BY <1>1, Elements, Zenon DEF Without
<1>3. Put(m, k) = [m EXCEPT ![b] = t]
  BY <1>2, Zenon DEF Put
<1>4. /\ Len(t) = Len(s) + 1 /\ t[1] = k /\ Len(s) \in Nat
      /\ \A x \in 1..Len(s) : t[x + 1] = s[x]
  BY <1>1, InFront
<1>5. i # k /\ j # k /\ Bucket(i) \in Buckets /\ Bucket(j) \in Buckets
  BY HeldIs, BucketType, Zenon
<1> HIDE DEF t
<1>6. Ahead(t, i, j) <=> Ahead(s, i, j)
  <2> HIDE DEF s
  <2>1. ASSUME Ahead(s, i, j) PROVE Ahead(t, i, j)
    <3>1. PICK x \in 1..Len(s), y \in 1..Len(s) : x < y /\ s[x] = i /\ s[y] = j
      BY <2>1, Zenon DEF Ahead
    <3>2. x + 1 \in 1..Len(t) /\ y + 1 \in 1..Len(t) /\ x + 1 < y + 1
      BY <1>4, <3>1
    <3>3. t[x + 1] = i /\ t[y + 1] = j
      BY <1>4, <3>1, Zenon
    <3> QED BY <3>2, <3>3, Zenon DEF Ahead
  <2>2. ASSUME Ahead(t, i, j) PROVE Ahead(s, i, j)
    <3>1. PICK x \in 1..Len(t), y \in 1..Len(t) : x < y /\ t[x] = i /\ t[y] = j
      BY <2>2, Zenon DEF Ahead
    <3>2. x # 1 /\ y # 1
      BY <1>4, <1>5, <3>1, Zenon
    <3> DEFINE u == x - 1
               v == y - 1
    <3>3. u \in 1..Len(s) /\ v \in 1..Len(s) /\ u < v /\ u + 1 = x /\ v + 1 = y
      BY <1>4, <3>1, <3>2
    <3> HIDE DEF u, v
    <3>4. s[u] = i /\ s[v] = j
      BY <1>4, <3>1, <3>3, Zenon
    <3> QED BY <3>3, <3>4, Zenon DEF Ahead
  <2> QED BY <2>1, <2>2, Zenon
<1>7. Put(m, k)[Bucket(j)] = IF Bucket(j) = b THEN t ELSE m[Bucket(j)]
  BY <1>1, <1>3, <1>5, Zenon DEF Chained
<1> QED BY <1>6, <1>7, Zenon DEF Before

\* The least element of a set of buckets.
LEMMA LeastBucket ==
  ASSUME NEW B \in SUBSET Buckets, B # {}
  PROVE  Min(B) \in B /\ \A c \in B : Min(B) <= c
<1> DEFINE R == OpToRel(<, Nat)
<1>0. B \subseteq Nat
  BY DEF Buckets
<1>1. IsWellFoundedOn(R, Nat)
  BY NatLessThanWellFounded, Zenon
<1> HIDE DEF R
<1>2. PICK n \in B : \A c \in B : ~(<<c, n>> \in R)
  BY <1>0, <1>1, WFMin, Zenon
<1>3. ASSUME NEW c \in B PROVE n <= c
  <2>1. ~(<<c, n>> \in R)
    BY <1>2, Zenon
  <2>2. c \in Nat /\ n \in Nat
    BY <1>0, Zenon
  <2>3. ~(c < n)
    BY <2>1, <2>2, Zenon DEF R, OpToRel
  <2> QED BY <2>2, <2>3
<1> QED BY <1>2, <1>3, Zenon DEF Min

-----------------------------------------------------------------------------
(* The walk of get_next_key.                                                *)

\* The first key from a bucket on: nothing held there comes before it.
LEMMA FirstFromIs ==
  ASSUME Chained(map), NEW b \in Nat
  PROVE  LET n == FirstFrom(b) IN
         IF n = None THEN \A j \in Content : Bucket(j) < b
         ELSE /\ n \in Content /\ Bucket(n) >= b
              /\ \A j \in Content : Before(map, j, n) => Bucket(j) < b
<1> DEFINE bs == {c \in Buckets : c >= b /\ map[c] # <<>>}
           n == FirstFrom(b)
<1>0. Content = Held(map) /\ Buckets \subseteq Nat
  BY DEF Content, Held, Buckets
<1>1. \A j \in Content : /\ j \in Keys /\ Bucket(j) \in Buckets
                         /\ j \in Range(map[Bucket(j)]) /\ map[Bucket(j)] \in Seq(Keys)
  BY <1>0, HeldIs, BucketType, Zenon DEF Chained
<1>2. \A j \in Content : map[Bucket(j)] # <<>>
  <2> TAKE j \in Content
  <2>1. PICK i \in 1..Len(map[Bucket(j)]) : map[Bucket(j)][i] = j
    BY <1>1, Elements, Zenon
  <2> QED BY <1>1, <2>1
<1>3. CASE bs = {}
  <2>1. n = None
    BY <1>3, Zenon DEF FirstFrom
  <2>2. \A j \in Content : Bucket(j) < b
    <3> TAKE j \in Content
    <3>1. Bucket(j) \notin bs
      BY <1>3, Zenon
    <3>2. Bucket(j) \in Buckets /\ map[Bucket(j)] # <<>>
      BY <1>1, <1>2, Zenon
    <3>3. ~(Bucket(j) >= b) /\ Bucket(j) \in Nat
      BY <1>0, <3>1, <3>2, Zenon
    <3> QED BY <3>3
  <2> QED BY <2>1, <2>2, Zenon
<1>4. CASE bs # {}
  <2> DEFINE c == Min(bs)
  <2>1. c \in Buckets /\ c >= b /\ map[c] # <<>> /\ \A d \in bs : c <= d
    BY <1>4, LeastBucket, Zenon
  <2>2. n = Head(map[c])
    BY <1>4, Zenon DEF FirstFrom
  <2> HIDE DEF c
  <2>3. map[c] \in Seq(Keys) /\ Len(map[c]) \in Nat /\ Len(map[c]) # 0
    BY <2>1 DEF Chained
  <2>4. n = map[c][1] /\ 1 \in 1..Len(map[c])
    BY <2>2, <2>3
  <2>5. n \in Range(map[c])
    BY <2>3, <2>4, Elements, Zenon
  <2>6. n \in Keys /\ Bucket(n) = c /\ n \in Content
    BY <1>0, <2>1, <2>5, HeldIs, Zenon
  <2>7. n # None
    BY <2>6, BucketNone, Zenon
  <2>8. ASSUME NEW j \in Content, Before(map, j, n), Bucket(j) >= b PROVE FALSE
    <3>1. Bucket(j) \in bs
      BY <1>1, <1>2, <2>8, Zenon
    <3>2. c <= Bucket(j) /\ Bucket(j) \in Nat /\ c \in Nat
      BY <1>0, <1>1, <2>1, <3>1, Zenon
    <3>3. Ahead(map[c], j, n)
      BY <2>6, <2>8, <3>2 DEF Before
    <3>4. PICK x \in 1..Len(map[c]), y \in 1..Len(map[c]) : x < y /\ map[c][y] = n
      BY <3>3, Zenon DEF Ahead
    <3>5. y = 1
      BY <2>1, <2>3, <2>4, <3>4, Elements DEF Chained
    <3> QED BY <2>3, <3>4, <3>5
  <2>9. \A j \in Content : Bucket(j) \in Nat
    BY <1>0, <1>1, Zenon
  <2> QED BY <2>1, <2>6, <2>7, <2>8, <2>9
<1> QED BY <1>3, <1>4, Zenon

\* Without a key, or with one that has gone, the walk begins at the start.
LEMMA NextKeyRestarts ==
  ASSUME Chained(map), NEW k \in Keys \cup {None}, k \notin Content
  PROVE  LET n == NextKey(k) IN
         IF n = None THEN Content = {}
         ELSE n \in Content /\ \A j \in Content : ~Before(map, j, n)
<1>0. Content = Held(map) /\ Bucket(k) \in Buckets
  BY BucketType, BucketNone, Zenon DEF Content, Held
<1>1. k \notin Range(map[Bucket(k)])
  <2>1. k \in Keys \/ k = None
    BY Zenon
  <2> QED BY <1>0, <2>1, HeldIs, BucketNone, Zenon
<1>2. NextKey(k) = FirstFrom(0)
  BY <1>1, Zenon DEF NextKey
<1>3. \A j \in Content : ~(Bucket(j) < 0)
  <2> TAKE j \in Content
  <2>1. Bucket(j) \in Buckets
    BY <1>0, HeldIs, BucketType, Zenon
  <2> QED BY <2>1 DEF Buckets
<1>4. LET n == FirstFrom(0) IN
      IF n = None THEN \A j \in Content : Bucket(j) < 0
      ELSE /\ n \in Content /\ Bucket(n) >= 0
           /\ \A j \in Content : Before(map, j, n) => Bucket(j) < 0
  BY FirstFromIs, Zenon
<1> QED BY <1>2, <1>3, <1>4, Zenon

\* From a key that is there it goes to the next one and leaves out none.
LEMMA NextKeyAdvances ==
  ASSUME Chained(map), NEW k \in Content
  PROVE  LET n == NextKey(k)
             P(j) == Before(map, j, k) \/ j = k
         IN  IF n = None THEN \A j \in Content : P(j)
             ELSE n \in Content /\ \A j \in Content : Before(map, j, n) <=> P(j)
<1> DEFINE b == Bucket(k)
           s == map[b]
           n == NextKey(k)
           P(j) == Before(map, j, k) \/ j = k
<1>0. Content = Held(map) /\ Buckets \subseteq Nat
  BY DEF Content, Held, Buckets
<1>1. b \in Buckets /\ k \in Keys /\ k \in Range(s) /\ s \in Seq(Keys) /\ Len(s) \in Nat
  BY <1>0, HeldIs, BucketType DEF Chained
<1>2. \A x, y \in 1..Len(s) : s[x] = s[y] => x = y
  BY <1>1, Elements, Zenon DEF Chained
<1>3. PICK i \in 1..Len(s) : s[i] = k
  BY <1>1, Elements, Zenon
<1>4. Place(s, k) = i
  BY <1>1, <1>3, PlaceIs, Zenon DEF Chained
<1>5. n = IF i < Len(s) THEN s[i + 1] ELSE FirstFrom(b + 1)
  BY <1>1, <1>4, Zenon DEF NextKey
<1>6. \A j \in Content : Bucket(j) \in Nat /\ j \in Keys /\ j \in Range(map[Bucket(j)])
  BY <1>0, HeldIs, BucketType, Zenon
<1>10. b \in Nat
  BY <1>0, <1>1, Zenon
<1> HIDE DEF n
<1>7. CASE i < Len(s)
  <2>1. n = s[i + 1] /\ i + 1 \in 1..Len(s)
    BY <1>1, <1>5, <1>7
  <2>2. n \in Range(s)
    BY <1>1, <2>1, Elements, Zenon
  <2>3. n \in Content /\ Bucket(n) = b /\ n # None
    BY <1>0, <1>1, <2>2, HeldIs, BucketNone, Zenon
  <2>4. ASSUME NEW j \in Content, Bucket(j) = b PROVE Ahead(s, j, n) <=> (Ahead(s, j, k) \/ j = k)
    <3> HIDE DEF s, b
    <3>1. ASSUME Ahead(s, j, n) PROVE Ahead(s, j, k) \/ j = k
      <4>1. PICK x \in 1..Len(s), y \in 1..Len(s) : x < y /\ s[x] = j /\ s[y] = n
        BY <3>1, Zenon DEF Ahead
      <4>2. y = i + 1
        BY <1>2, <2>1, <4>1, Zenon
      <4>3. x < i \/ x = i
        BY <1>1, <4>1, <4>2
      <4> QED BY <1>3, <4>1, <4>3, Zenon DEF Ahead
    <3>2. ASSUME Ahead(s, j, k) PROVE Ahead(s, j, n)
      <4>1. PICK x \in 1..Len(s), y \in 1..Len(s) : x < y /\ s[x] = j /\ s[y] = k
        BY <3>2, Zenon DEF Ahead
      <4>2. y = i
        BY <1>2, <1>3, <4>1, Zenon
      <4>3. x < i + 1
        BY <1>1, <4>1, <4>2
      <4> QED BY <2>1, <4>1, <4>3, Zenon DEF Ahead
    <3>3. ASSUME j = k PROVE Ahead(s, j, n)
      <4>1. i < i + 1
        BY <1>1
      <4> QED BY <1>3, <2>1, <3>3, <4>1, Zenon DEF Ahead
    <3> QED BY <3>1, <3>2, <3>3, Zenon
  <2>5. ASSUME NEW j \in Content PROVE Before(map, j, n) <=> P(j)
    <3>1. CASE Bucket(j) = b
      BY <1>10, <2>3, <2>4, <3>1, Zenon DEF Before
    <3>2. CASE Bucket(j) # b
      BY <2>3, <3>2, Zenon DEF Before
    <3> QED BY <3>1, <3>2, Zenon
  <2> QED BY <2>3, <2>5, Zenon DEF n
<1>8. CASE ~(i < Len(s))
  <2>1. n = FirstFrom(b + 1) /\ i = Len(s)
    BY <1>1, <1>5, <1>8
  <2>2. IF n = None THEN \A j \in Content : Bucket(j) < b + 1
        ELSE /\ n \in Content /\ Bucket(n) >= b + 1
             /\ \A j \in Content : Before(map, j, n) => Bucket(j) < b + 1
    BY <1>10, <2>1, FirstFromIs
  <2>3. ASSUME NEW j \in Content, Bucket(j) < b + 1 PROVE P(j)
    <3>1. CASE Bucket(j) < b
      BY <3>1, Zenon DEF Before
    <3>2. CASE Bucket(j) = b
      <4>1. PICK x \in 1..Len(s) : s[x] = j
        BY <1>1, <1>6, <3>2, Elements, Zenon
      <4>2. x < i \/ x = i
        BY <1>1, <2>1, <4>1
      <4> QED BY <1>3, <3>2, <4>1, <4>2, Zenon DEF Before, Ahead
    <3> QED BY <1>6, <1>10, <2>3, <3>1, <3>2
  <2>4. ASSUME n # None, NEW j \in Content, P(j) PROVE Before(map, j, n)
    <3>1. Bucket(j) <= b /\ Bucket(j) \in Nat /\ Bucket(n) \in Nat
      BY <1>6, <1>10, <2>2, <2>4 DEF Before
    <3>2. Bucket(j) < Bucket(n)
      BY <1>10, <2>2, <2>4, <3>1
    <3> QED BY <3>2, Zenon DEF Before
  <2> QED BY <2>2, <2>3, <2>4, Zenon DEF n
<1> QED BY <1>7, <1>8, Zenon

-----------------------------------------------------------------------------
(* The table, and the types.                                                *)

\* What is in the table are keys, and None is not.
LEMMA ContentIs ==
  ASSUME Chained(map)
  PROVE  /\ Content = Held(map) /\ Content \subseteq Keys /\ None \notin Content
         /\ \A k \in Content : Bucket(k) \in Buckets /\ k \in Range(map[Bucket(k)])
         /\ \A b \in Buckets : /\ map[b] \in Seq(Keys) /\ IsInjective(map[b])
                               /\ \A k \in Range(map[b]) : Bucket(k) = b /\ k \in Content
BY HeldIs, BucketType, BucketNone DEF Content, Held, Chained

\* get_next_key gives a key of the table, or none.
LEMMA NextKeyType ==
  ASSUME Chained(map), NEW k \in Keys \cup {None}
  PROVE  NextKey(k) \in Content \cup {None}
<1>1. CASE k \in Content
  <2>1. NextKey(k) = None \/ NextKey(k) \in Content
    BY <1>1, NextKeyAdvances, Zenon
  <2> QED BY <2>1, Zenon
<1>2. CASE k \notin Content
  <2>1. NextKey(k) = None \/ NextKey(k) \in Content
    BY <1>2, NextKeyRestarts, Zenon
  <2> QED BY <2>1, Zenon
<1> QED BY <1>1, <1>2, Zenon

\* A table that is left alone keeps its content.
LEMMA TableStays ==
  ASSUME Table
  PROVE  Content' = Content /\ (Chained(map) => Chained(map')) /\ nonzero' = nonzero
BY Zenon DEF Table, Content, Buckets

\* An update that fits, whatever it writes.
LEMMA PutTabled ==
  ASSUME Tabled, NEW k \in Keys, Fits(k), map' = Put(map, k)
  PROVE  /\ Chained(map') /\ Content' = Content \cup {k}
         /\ IsFiniteSet(Content') /\ Cardinality(Content') <= MaxEntries
<1>1. Chained(map') /\ Held(map') = Held(map) \cup {k}
  BY PutHolds, Zenon DEF Tabled
<1>2. Content' = Content \cup {k}
  BY <1>1, Zenon DEF Content, Held, Buckets
<1>3. IsFiniteSet(Content) /\ Cardinality(Content) <= MaxEntries /\ Cardinality(Content) \in Nat
  BY FS_CardinalityType, Zenon DEF Tabled
<1>4. CASE k \in Content
  <2>1. Content' = Content
    BY <1>2, <1>4, Zenon
  <2> QED BY <1>1, <1>2, <1>3, <2>1, Zenon
<1>5. CASE k \notin Content
  <2>1. IsFiniteSet(Content \cup {k}) /\ Cardinality(Content \cup {k}) = Cardinality(Content) + 1
    BY <1>3, <1>5, FS_AddElement, Zenon
  <2>2. Cardinality(Content) < MaxEntries
    BY <1>5, Zenon DEF Fits
  <2>3. Cardinality(Content) + 1 <= MaxEntries
    BY <1>3, <2>2, TableIterAssumption
  <2> QED BY <1>1, <1>2, <2>1, <2>3, Zenon
<1> QED BY <1>4, <1>5, Zenon

\* A table that loses keys.
LEMMA LessTabled ==
  ASSUME Tabled, NEW D, Content' = Content \ D
  PROVE  IsFiniteSet(Content') /\ Cardinality(Content') <= MaxEntries
<1>1. IsFiniteSet(Content) /\ Cardinality(Content) <= MaxEntries /\ Cardinality(Content) \in Nat
  BY FS_CardinalityType, Zenon DEF Tabled
<1>2. IsFiniteSet(Content \ D) /\ Cardinality(Content \ D) <= Cardinality(Content)
  BY <1>1, FS_Subset, Zenon
<1>3. Cardinality(Content \ D) \in Nat
  BY <1>2, FS_CardinalityType, Zenon
<1> QED BY <1>1, <1>2, <1>3, TableIterAssumption

\* A deletion.
LEMMA DropTabled ==
  ASSUME Tabled, NEW k \in Keys, map' = Drop(map, k)
  PROVE  /\ Chained(map') /\ Content' = Content \ {k}
         /\ IsFiniteSet(Content') /\ Cardinality(Content') <= MaxEntries
<1>1. Chained(map') /\ Held(map') = Held(map) \ {k}
  BY DropHolds, Zenon DEF Tabled
<1>2. Content' = Content \ {k}
  BY <1>1, Zenon DEF Content, Held, Buckets
<1> QED BY <1>1, <1>2, LessTabled, Zenon

\* A bucket that is emptied.
LEMMA EmptiedTabled ==
  ASSUME Tabled, NEW b \in Buckets, map' = [map EXCEPT ![b] = <<>>]
  PROVE  /\ Chained(map') /\ Content' = Content \ Range(map[b])
         /\ IsFiniteSet(Content') /\ Cardinality(Content') <= MaxEntries
<1>0. <<>> \in Seq(Keys) /\ IsInjective(<<>>) /\ Range(<<>>) = {}
  BY DEF IsInjective, Range
<1>1. Chained(map') /\ Held(map') = (Held(map) \ Range(map[b])) \cup Range(<<>>)
  <2>1. Replaced(map, b, <<>>, map')
    BY Zenon DEF Replaced
  <2>2. IsChain(<<>>, b)
    BY <1>0, Zenon DEF IsChain
  <2>3. Holding(map, b, <<>>, map')
    BY <2>1, <2>2, ChainReplaced, Zenon DEF Tabled
  <2> QED BY <2>3, Zenon DEF Holding
<1>2. Chained(map') /\ Held(map') = Held(map) \ Range(map[b])
  BY <1>0, <1>1, Zenon
<1>3. Content' = Content \ Range(map[b])
  BY <1>2, Zenon DEF Content, Held, Buckets
<1> QED BY <1>2, <1>3, LessTabled, Zenon

\* Every step keeps the table a table of at most max_entries keys.
LEMMA TabledStep == Tabled /\ Typed /\ [Next]_vars => Tabled'
<1> SUFFICES ASSUME Tabled, Typed, [Next]_vars PROVE Tabled'
  BY Zenon
<1>0. /\ nonzero \subseteq Content /\ rd.key \in Keys \cup {None} /\ rd.list \in Seq(Keys)
      /\ rd.cur \in Nat
      /\ rd.pc = "use" => rd.key \in Keys
  BY Zenon DEF Tabled, Typed, Readers
<1>1. CASE Table
  BY <1>1, TableStays, Zenon DEF Tabled
<1>2. ASSUME NEW k \in Keys, Update(k) PROVE Tabled'
  <2>1. /\ Chained(map') /\ Content' = Content \cup {k} /\ nonzero' = nonzero \cup {k}
        /\ IsFiniteSet(Content') /\ Cardinality(Content') <= MaxEntries
    BY <1>2, PutTabled, Zenon DEF Update
  <2> QED BY <1>0, <2>1, Zenon DEF Tabled
<1>3. ASSUME NEW k \in Keys, Delete(k) PROVE Tabled'
  <2>1. /\ Chained(map') /\ Content' = Content \ {k} /\ nonzero' = nonzero \ {k}
        /\ IsFiniteSet(Content') /\ Cardinality(Content') <= MaxEntries
    BY <1>3, DropTabled, Zenon DEF Delete
  <2> QED BY <1>0, <2>1, Zenon DEF Tabled
<1>4. CASE RemoveKey
  <2>1. CASE map' = Drop(map, rd.key) /\ nonzero' = nonzero \ {rd.key}
    <3>1. rd.key \in Keys
      BY <1>0, <1>4, Zenon DEF RemoveKey, At
    <3>2. /\ Chained(map') /\ Content' = Content \ {rd.key}
          /\ IsFiniteSet(Content') /\ Cardinality(Content') <= MaxEntries
      BY <2>1, <3>1, DropTabled, Zenon
    <3> QED BY <1>0, <2>1, <3>2, Zenon DEF Tabled
  <2> QED BY <1>1, <1>4, <2>1, Zenon DEF RemoveKey
<1>5. CASE SetZero
  <2>1. CASE rd.list # <<>> /\ Fits(Head(rd.list)) /\ map' = Put(map, Head(rd.list))
             /\ nonzero' = nonzero \ {Head(rd.list)}
    <3>1. Head(rd.list) \in Keys
      BY <1>0, <2>1
    <3>2. /\ Chained(map') /\ Content' = Content \cup {Head(rd.list)}
          /\ IsFiniteSet(Content') /\ Cardinality(Content') <= MaxEntries
      BY <2>1, <3>1, PutTabled, Zenon
    <3> QED BY <1>0, <2>1, <3>2, Zenon DEF Tabled
  <2> QED BY <1>1, <1>5, <2>1, Zenon DEF SetZero
<1>6. CASE BatchBucket
  <2>1. CASE /\ rd.cur < NBuckets /\ map' = [map EXCEPT ![rd.cur] = <<>>]
             /\ nonzero' = nonzero \ Range(map[rd.cur])
    <3>1. rd.cur \in Buckets
      BY <1>0, <2>1, TableIterAssumption DEF Buckets
    <3>2. /\ Chained(map') /\ Content' = Content \ Range(map[rd.cur])
          /\ IsFiniteSet(Content') /\ Cardinality(Content') <= MaxEntries
      BY <2>1, <3>1, EmptiedTabled, Zenon
    <3> QED BY <1>0, <2>1, <3>2, Zenon DEF Tabled
  <2> QED BY <1>1, <1>6, <2>1, Zenon DEF BatchBucket
<1>7. CASE Advance \/ Lookup \/ ListKey \/ BatchCall \/ BatchDone \/ \E op \in Ops : Call(op)
  BY <1>1, <1>7, Zenon DEF Advance, Lookup, ListKey, BatchCall, BatchDone, Call
<1>8. CASE UNCHANGED vars
  BY <1>1, <1>8, Zenon DEF vars, Table
<1> QED BY <1>2, <1>3, <1>4, <1>5, <1>6, <1>7, <1>8, Zenon DEF Next, Step

\* The fields of a reader that its cursor and its place leave alone.
Apart(r, s) == s.op = r.op /\ s.cur = r.cur /\ s.cnt = r.cnt /\ s.total = r.total
               /\ s.left = r.left /\ s.taken = r.taken

\* The reader after each kind of assignment to it: it goes to another place.
LEMMA GoIs ==
  ASSUME NEW r \in Readers, NEW pc \in Pcs
  PROVE  LET s == [r EXCEPT !.pc = pc] IN
         /\ s \in Readers /\ Apart(r, s)
         /\ s.pc = pc /\ s.key = r.key /\ s.got = r.got /\ s.list = r.list
BY Zenon DEF Readers, Apart

\* A call begins.
LEMMA CallIs ==
  ASSUME NEW op \in Ops, Call(op)
  PROVE  /\ rd' \in Readers /\ rd'.op = op /\ rd'.key = None
         /\ rd'.pc = IF op \in Batches THEN "batch" ELSE "next"
         /\ rd'.got = <<>> /\ rd'.list = <<>> /\ rd'.total = 0 /\ rd'.taken = 0
         /\ hist' = [did |-> {}, start |-> Content] /\ Table
<1>1. /\ Reader(op) \in Readers /\ Reader(op).op = op /\ Reader(op).key = None
      /\ Reader(op).got = <<>> /\ Reader(op).list = <<>>
      /\ Reader(op).total = 0 /\ Reader(op).taken = 0
  BY DEF Reader, Readers, Pcs
<1> DEFINE pc == IF op \in Batches THEN "batch" ELSE "next"
<1>2. rd' = [Reader(op) EXCEPT !.pc = pc] /\ hist' = [did |-> {}, start |-> Content] /\ Table
  BY Zenon DEF Call, Batches
<1>3. pc \in Pcs
  BY Zenon DEF Pcs
<1> HIDE DEF pc
<1>4. /\ rd' \in Readers /\ Apart(Reader(op), rd') /\ rd'.pc = pc
      /\ rd'.key = Reader(op).key /\ rd'.got = Reader(op).got /\ rd'.list = Reader(op).list
  BY <1>1, <1>2, <1>3, GoIs, Zenon
<1> QED BY <1>1, <1>2, <1>4, Zenon DEF pc, Apart

\* A key is asked for.
LEMMA AdvanceIs ==
  ASSUME Tabled, Typed, Advance
  PROVE  LET k == NextKey(From) IN
         /\ k \in Content \cup {None} /\ rd' \in Readers /\ Apart(rd, rd')
         /\ rd'.key = k /\ rd'.pc = After(k) /\ rd'.got = rd.got /\ rd'.list = rd.list
         /\ rd.pc = "next" /\ hist' = hist /\ Table /\ From \in Keys \cup {None}
<1>1. rd \in Readers /\ Chained(map)
  BY Zenon DEF Typed, Tabled
<1>2. From \in Keys \cup {None}
  BY <1>1, Zenon DEF From, Readers
<1> DEFINE k == NextKey(From)
<1>3. k \in Content \cup {None} /\ k \in Keys \cup {None}
  BY <1>1, <1>2, NextKeyType, ContentIs, Zenon
<1>4. After(k) \in Pcs
  BY Zenon DEF After, Pcs
<1>5. rd' = [rd EXCEPT !.key = k, !.pc = After(k)] /\ rd.pc = "next" /\ hist' = hist /\ Table
  BY Zenon DEF Advance, At, Reads
<1> HIDE DEF k
<1>6. /\ rd' \in Readers /\ Apart(rd, rd') /\ rd'.pc = After(k) /\ rd'.key = k
      /\ rd'.got = rd.got /\ rd'.list = rd.list
  BY <1>1, <1>3, <1>4, <1>5, Zenon DEF Readers, Apart
<1> QED BY <1>2, <1>3, <1>5, <1>6, Zenon DEF k

\* The key is looked up, removed or listed.
LEMMA UseIs ==
  ASSUME Typed, Lookup \/ RemoveKey \/ ListKey
  PROVE  /\ rd.pc = "use" /\ hist' = hist /\ rd.key \in Keys
         /\ rd' \in Readers /\ Apart(rd, rd') /\ rd'.key = rd.key
         /\ rd'.got = IF Lookup /\ rd.key \in Content THEN Append(rd.got, rd.key) ELSE rd.got
         /\ rd'.list = IF ListKey THEN Append(rd.list, rd.key) ELSE rd.list
         /\ rd'.pc \in {"next", "returned", "raised"}
         /\ ListKey => rd.op = "zero" /\ rd'.pc = "next" /\ Table
         /\ Lookup => /\ rd.op \in {"offline", "items"} /\ rd'.pc # "raised" /\ Table
                      /\ rd.key \in Content => rd'.pc = "next"
         /\ RemoveKey => /\ rd.op \in Clears
                         /\ IF rd.key \in Content
                              THEN /\ rd'.pc = "next" /\ map' = Drop(map, rd.key)
                                   /\ nonzero' = nonzero \ {rd.key}
                              ELSE rd'.pc = "raised" /\ Table
<1>1. rd \in Readers /\ (rd.pc = "use" => rd.key # None)
  BY Zenon DEF Typed
<1>2. rd.pc = "use" /\ hist' = hist /\ rd.key \in Keys
  BY <1>1, Zenon DEF Lookup, RemoveKey, ListKey, At, Reads, Readers
<1>3. Append(rd.got, rd.key) \in Seq(Keys) /\ Append(rd.list, rd.key) \in Seq(Keys)
  BY <1>1, <1>2 DEF Readers
<1>4. {"next", "returned", "raised"} \subseteq Pcs
  BY Zenon DEF Pcs
<1>5. CASE Lookup
  <2>1. rd.op \in {"offline", "items"} /\ Table /\ ~ListKey /\ ~RemoveKey
    BY <1>5, Zenon DEF Lookup, ListKey, RemoveKey
  <2>2. CASE rd.key \in Content
    <3>1. rd' = [rd EXCEPT !.got = Append(rd.got, rd.key), !.pc = "next"]
      BY <1>1, <1>5, <2>2, Zenon DEF Lookup, Readers
    <3>2. /\ rd' \in Readers /\ Apart(rd, rd') /\ rd'.pc = "next" /\ rd'.key = rd.key
          /\ rd'.got = Append(rd.got, rd.key) /\ rd'.list = rd.list
      BY <1>1, <1>3, <1>4, <3>1, Zenon DEF Readers, Apart
    <3> QED BY <1>2, <1>5, <2>1, <2>2, <3>2, Zenon
  <2>3. CASE rd.key \notin Content
    <3>1. PICK pc \in {"next", "returned"} : rd' = [rd EXCEPT !.pc = pc]
      BY <1>5, <2>3, Zenon DEF Lookup, Go
    <3> QED BY <1>1, <1>2, <1>4, <2>1, <2>3, <3>1, GoIs
  <2> QED BY <2>2, <2>3, Zenon
<1>6. CASE ListKey
  <2>1. rd.op = "zero" /\ Table /\ ~Lookup /\ ~RemoveKey
    BY <1>6, Zenon DEF Lookup, ListKey, RemoveKey, Clears
  <2>2. rd' = [rd EXCEPT !.list = Append(rd.list, rd.key), !.pc = "next"]
    BY <1>1, <1>6, Zenon DEF ListKey, Readers
  <2>3. /\ rd' \in Readers /\ Apart(rd, rd') /\ rd'.pc = "next" /\ rd'.key = rd.key
        /\ rd'.got = rd.got /\ rd'.list = Append(rd.list, rd.key)
    BY <1>1, <1>3, <1>4, <2>2, Zenon DEF Readers, Apart
  <2> QED BY <1>2, <1>6, <2>1, <2>3, Zenon
<1>7. CASE RemoveKey
  <2>1. rd.op \in Clears /\ ~Lookup /\ ~ListKey
    BY <1>7, Zenon DEF Lookup, ListKey, RemoveKey, Clears
  <2>2. PICK pc \in {"next", "raised"} :
          /\ rd' = [rd EXCEPT !.pc = pc]
          /\ IF rd.key \in Content
               THEN pc = "next" /\ map' = Drop(map, rd.key) /\ nonzero' = nonzero \ {rd.key}
               ELSE pc = "raised" /\ Table
    BY <1>7, Zenon DEF RemoveKey, Go
  <2> QED BY <1>1, <1>2, <1>4, <2>1, <2>2, GoIs
<1> QED BY <1>5, <1>6, <1>7, Zenon

\* A key of the list is set to zero.
LEMMA SetZeroIs ==
  ASSUME Typed, SetZero
  PROVE  /\ rd.pc = "set" /\ rd.op = "zero" /\ hist' = hist
         /\ rd' \in Readers /\ Apart(rd, rd') /\ rd'.key = rd.key /\ rd'.got = rd.got
         /\ IF rd.list = <<>>
              THEN rd'.pc = "returned" /\ rd'.list = rd.list /\ Table
              ELSE LET k == Head(rd.list) IN
                   /\ k \in Keys
                   /\ IF Fits(k)
                        THEN /\ rd'.pc = "set" /\ rd'.list = Tail(rd.list)
                             /\ map' = Put(map, k) /\ nonzero' = nonzero \ {k}
                        ELSE rd'.pc = "raised" /\ rd'.list = rd.list /\ Table
<1>1. rd \in Readers /\ rd.list \in Seq(Keys) /\ (rd.pc = "set" => rd.op = "zero")
  BY Zenon DEF Typed, Readers
<1>2. rd.pc = "set" /\ rd.op = "zero" /\ hist' = hist
  BY <1>1, Zenon DEF SetZero, At, Reads
<1>3. {"set", "returned", "raised"} \subseteq Pcs
  BY Zenon DEF Pcs
<1>4. CASE rd.list = <<>>
  <2>1. rd' = [rd EXCEPT !.pc = "returned"] /\ Table
    BY <1>4, Zenon DEF SetZero, Go
  <2> QED BY <1>1, <1>2, <1>3, <1>4, <2>1, GoIs
<1>5. CASE rd.list # <<>>
  <2> DEFINE k == Head(rd.list)
             q == Tail(rd.list)
  <2>1. k \in Keys /\ q \in Seq(Keys)
    BY <1>1, <1>5
  <2>2. CASE Fits(k)
    <3>1. rd' = [rd EXCEPT !.list = q] /\ map' = Put(map, k) /\ nonzero' = nonzero \ {k}
      BY <1>1, <1>5, <2>2, Zenon DEF SetZero, Readers
    <3> HIDE DEF q
    <3>2. /\ rd' \in Readers /\ Apart(rd, rd') /\ rd'.pc = rd.pc /\ rd'.key = rd.key
          /\ rd'.got = rd.got /\ rd'.list = q
      BY <1>1, <2>1, <3>1, Zenon DEF Readers, Apart
    <3> QED BY <1>2, <1>5, <2>1, <2>2, <3>1, <3>2, Zenon DEF q
  <2>3. CASE ~Fits(k)
    <3>1. rd' = [rd EXCEPT !.pc = "raised"] /\ Table
      BY <1>5, <2>3, Zenon DEF SetZero, Go
    <3>2. /\ rd' \in Readers /\ Apart(rd, rd') /\ rd'.pc = "raised" /\ rd'.key = rd.key
          /\ rd'.got = rd.got /\ rd'.list = rd.list
      BY <1>1, <1>3, <3>1, GoIs, Zenon
    <3> QED BY <1>2, <1>5, <2>1, <2>3, <3>1, <3>2, Zenon
  <2> QED BY <2>2, <2>3, Zenon
<1> QED BY <1>4, <1>5, Zenon

\* A batch call is made.
LEMMA BatchCallIs ==
  ASSUME Typed, Counting, BatchCall
  PROVE  /\ rd.pc = "batch" /\ rd.op \in Batches /\ hist' = hist /\ Table
         /\ rd' \in Readers /\ rd'.op = rd.op /\ rd'.key = rd.key /\ rd'.got = rd.got
         /\ rd'.pc = "bucket" /\ rd'.left = MaxEntries - rd.total /\ rd'.cnt = 0
         /\ rd'.cur = InBatch /\ rd'.total = rd.total /\ rd'.taken = rd.taken
<1>1. rd \in Readers /\ (rd.pc = "batch" => rd.op \in Batches)
  BY Zenon DEF Typed
<1>2. rd.pc = "batch" /\ rd.op \in Batches /\ hist' = hist /\ Table
  BY <1>1, Zenon DEF BatchCall, At, Reads
<1>3. rd.total <= MaxEntries /\ rd.total \in Nat
  BY <1>1, <1>2, Zenon DEF Counting, Readers
<1>4. Room \in Nat /\ InBatch \in Nat /\ Room = MaxEntries - rd.total /\ "bucket" \in Pcs
  BY <1>3, TableIterAssumption DEF Room, InBatch, Pcs
<1>5. rd' = [rd EXCEPT !.left = Room, !.cnt = 0, !.cur = InBatch, !.pc = "bucket"]
  BY Zenon DEF BatchCall
<1> QED BY <1>1, <1>2, <1>4, <1>5, Zenon DEF Readers

\* The kernel's turn at a bucket.
LEMMA BatchBucketIs ==
  ASSUME Tabled, Typed, Counting, BatchBucket
  PROVE  /\ rd.pc = "bucket" /\ rd.op \in Batches /\ hist' = hist /\ rd.cur \in Nat
         /\ rd' \in Readers /\ rd'.op = rd.op /\ rd'.key = rd.key
         /\ rd'.left = rd.left /\ rd'.total = rd.total
         /\ \/ /\ rd'.pc \in {"ENOENT", "ENOSPC", "more"} /\ rd'.got = rd.got
               /\ rd'.cnt = rd.cnt /\ rd'.taken = rd.taken /\ Table
               /\ IF rd.cur >= NBuckets THEN rd'.pc = "ENOENT"
                  ELSE rd'.pc # "ENOENT" /\ Len(map[rd.cur]) > rd.left - rd.cnt
            \/ /\ rd'.pc = "bucket" /\ rd.cur \in Buckets
               /\ Len(map[rd.cur]) <= rd.left - rd.cnt /\ rd'.cur = rd.cur + 1
               /\ rd'.got = rd.got \o map[rd.cur] /\ rd'.cnt = rd.cnt + Len(map[rd.cur])
               /\ IF rd.op = "batch_delete"
                    THEN /\ map' = [map EXCEPT ![rd.cur] = <<>>]
                         /\ nonzero' = nonzero \ Range(map[rd.cur])
                         /\ rd'.taken = rd.taken + Len(map[rd.cur])
                    ELSE Table /\ rd'.taken = rd.taken
<1>1. rd \in Readers /\ (rd.pc = "bucket" => rd.op \in Batches)
  BY Zenon DEF Typed, InBatches
<1>2. rd.pc = "bucket" /\ rd.op \in Batches /\ hist' = hist
  BY <1>1, Zenon DEF BatchBucket, At, Reads
<1>3. rd.cur \in Nat /\ rd.cnt \in Nat /\ rd.taken \in Nat /\ rd.got \in Seq(Keys)
  BY <1>1, Zenon DEF Readers
<1>4. {"ENOENT", "ENOSPC", "more"} \subseteq Pcs
  BY Zenon DEF Pcs
<1>5. CASE rd.cur >= NBuckets
  <2>1. rd' = [rd EXCEPT !.pc = "ENOENT"] /\ Table
    BY <1>3, <1>5, TableIterAssumption DEF BatchBucket, Go
  <2> QED BY <1>1, <1>2, <1>3, <1>4, <1>5, <2>1, GoIs DEF Apart
<1>6. CASE rd.cur < NBuckets /\ Len(map[rd.cur]) > rd.left - rd.cnt
  <2>1. /\ ~(rd.cur >= NBuckets)
        /\ ~(Len(map[rd.cur]) <= rd.left - rd.cnt)
    <3>1. rd.cur \in Buckets
      BY <1>3, <1>6, TableIterAssumption DEF Buckets
    <3>2. Len(map[rd.cur]) \in Nat /\ rd.left \in Nat
      BY <1>1, <3>1, ContentIs DEF Tabled, Readers
    <3> QED BY <1>3, <1>6, <3>2, TableIterAssumption
  <2>2. PICK pc \in {"ENOSPC", "more"} : rd' = [rd EXCEPT !.pc = pc] /\ Table
    BY <1>6, <2>1, Zenon DEF BatchBucket, Go
  <2>3. /\ rd' \in Readers /\ Apart(rd, rd') /\ rd'.pc = pc /\ rd'.key = rd.key
        /\ rd'.got = rd.got
    BY <1>1, <1>4, <2>2, GoIs
  <2>4. rd'.pc \in {"ENOENT", "ENOSPC", "more"} /\ rd'.pc # "ENOENT"
    BY <2>2, <2>3, Zenon
  <2> QED BY <1>2, <1>3, <1>6, <2>1, <2>2, <2>3, <2>4, Zenon DEF Apart
<1>7. CASE rd.cur < NBuckets /\ Len(map[rd.cur]) <= rd.left - rd.cnt
  <2> DEFINE s == map[rd.cur]
             n == Len(s)
             g == rd.got \o s
             w == IF rd.op = "batch_delete" THEN rd.taken + n ELSE rd.taken
  <2>1. rd.cur \in Buckets
    BY <1>3, <1>7, TableIterAssumption DEF Buckets
  <2>2. s \in Seq(Keys) /\ n \in Nat /\ rd.left \in Nat
    BY <1>1, <2>1, ContentIs DEF Tabled, Readers
  <2>3. ~(rd.cur >= NBuckets) /\ ~(n > rd.left - rd.cnt)
    BY <1>3, <1>7, <2>2, TableIterAssumption
  <2>4. /\ rd' = [rd EXCEPT !.got = g, !.cnt = rd.cnt + n, !.cur = rd.cur + 1, !.taken = w]
        /\ IF rd.op = "batch_delete"
             THEN map' = [map EXCEPT ![rd.cur] = <<>>] /\ nonzero' = nonzero \ Range(s)
             ELSE Table
    BY <1>1, <1>7, <2>3, Zenon DEF BatchBucket, Readers
  <2>5. g \in Seq(Keys) /\ w \in Nat
    BY <1>3, <2>2
  <2> HIDE DEF g, w, n, s
  <2>6. /\ rd' \in Readers /\ rd'.op = rd.op /\ rd'.key = rd.key /\ rd'.pc = rd.pc
        /\ rd'.left = rd.left /\ rd'.total = rd.total
        /\ rd'.got = g /\ rd'.cnt = rd.cnt + n /\ rd'.cur = rd.cur + 1 /\ rd'.taken = w
    <3>1. rd.cnt + n \in Nat /\ rd.cur + 1 \in Nat
      BY <1>3, <2>2
    <3> QED BY <1>1, <2>4, <2>5, <3>1, Zenon DEF Readers
  <2> QED BY <1>2, <1>3, <1>7, <2>1, <2>4, <2>6 DEF g, w, n, s
<1>8. rd.cur >= NBuckets \/ rd.cur < NBuckets
  BY <1>3, TableIterAssumption
<1>9. rd.cur >= NBuckets \/ Len(map[rd.cur]) > rd.left - rd.cnt \/ Len(map[rd.cur]) <= rd.left - rd.cnt
  BY Zenon DEF BatchBucket
<1> QED BY <1>5, <1>6, <1>7, <1>8, <1>9, Zenon

\* A batch call has returned: what it read is kept.
LEMMA BatchDoneIs ==
  ASSUME Typed, Counting, BatchDone
  PROVE  /\ rd.pc \in {"ENOENT", "ENOSPC", "more"} /\ rd.op \in Batches /\ hist' = hist /\ Table
         /\ rd' \in Readers /\ rd'.op = rd.op /\ rd'.key = rd.key
         /\ rd'.got = rd.got /\ rd'.total = rd.total + rd.cnt /\ rd'.taken = rd.taken
         /\ rd'.pc \in {"raised", "returned", "batch"}
         /\ rd.pc = "ENOENT" => rd'.pc = "returned"
<1>1. /\ rd \in Readers /\ hist' = hist /\ Table
      /\ rd.pc \in {"ENOENT", "ENOSPC", "more"} /\ rd.op \in Batches
  BY Zenon DEF Typed, BatchDone, Reads, InBatches
<1>2. /\ rd.got \in Seq(Keys) /\ Len(rd.got) = Total /\ Total \in Nat
      /\ Total = rd.total + rd.cnt
  BY <1>1 DEF Counting, Readers, Total, InBatches
<1>3. SubSeq(rd.got, 1, Total) = rd.got
  BY <1>2
<1>4. PICK pc \in {"raised", "returned", "batch"} :
        /\ rd' = [rd EXCEPT !.total = Total, !.got = rd.got, !.pc = pc]
        /\ rd.pc = "ENOENT" => pc = "returned"
  BY <1>1, <1>3, Zenon DEF BatchDone, Readers
<1>5. pc \in Pcs
  BY Zenon DEF Pcs
<1>6. /\ rd' \in Readers /\ rd'.op = rd.op /\ rd'.key = rd.key /\ rd'.pc = pc
      /\ rd'.got = rd.got /\ rd'.total = Total /\ rd'.taken = rd.taken
  BY <1>1, <1>2, <1>4, <1>5, Zenon DEF Readers
<1> QED BY <1>1, <1>2, <1>4, <1>6, Zenon

\* Programs touch the table and what is noted of them.
LEMMA WriteIs ==
  ASSUME Typed, NEW k \in Keys, Update(k) \/ Delete(k)
  PROVE  /\ rd' = rd /\ hist'.start = hist.start
         /\ hist' \in [did : SUBSET {"insert", "update", "delete"}, start : SUBSET Keys]
         /\ rd.op # "none" =>
              /\ hist'.did # {} /\ hist.did \subseteq hist'.did
              /\ Update(k) => (IF k \in Content THEN "update" ELSE "insert") \in hist'.did
              /\ Delete(k) => "delete" \in hist'.did
<1>1. /\ hist \in [did : SUBSET {"insert", "update", "delete"}, start : SUBSET Keys]
      /\ rd.op # "none" => rd.pc # "idle"
  BY Zenon DEF Typed
<1>2. PICK w \in {"insert", "update", "delete"} :
        /\ rd' = rd /\ Note(w)
        /\ Update(k) => w = IF k \in Content THEN "update" ELSE "insert"
        /\ Delete(k) /\ ~Update(k) => w = "delete"
  BY Zenon DEF Update, Delete
<1>3. ~(Update(k) /\ Delete(k))
  BY <1>1, Zenon DEF Update, Delete, Note
<1> QED BY <1>1, <1>2, <1>3, Zenon DEF Note

\* Every step keeps the types.
LEMMA TypedStep == Tabled /\ Typed /\ Counting /\ [Next]_vars => Typed'
<1> SUFFICES ASSUME Tabled, Typed, Counting, [Next]_vars PROVE Typed'
  BY Zenon
<1> DEFINE Hs == [did : SUBSET {"insert", "update", "delete"}, start : SUBSET Keys]
<1>0. /\ rd \in Readers /\ hist \in Hs
      /\ IsFiniteSet(hist.start) /\ Cardinality(hist.start) <= MaxEntries
      /\ rd.pc = "idle" <=> rd.op = "none"
      /\ rd.pc = "use" => rd.key # None
      /\ rd.pc \in InBatches \cup {"batch"} => rd.op \in Batches
      /\ rd.pc = "set" => rd.op = "zero"
  BY Zenon DEF Typed
<1>1. Content \subseteq Keys /\ IsFiniteSet(Content) /\ Cardinality(Content) <= MaxEntries
  BY ContentIs, Zenon DEF Tabled
<1>2. ASSUME hist' = hist, rd' \in Readers, rd'.op = rd.op, rd.op # "none", rd'.pc # "idle",
             rd'.pc = "use" => rd'.key # None,
             rd'.pc \in InBatches \cup {"batch"} => rd.op \in Batches,
             rd'.pc = "set" => rd.op = "zero"
      PROVE  Typed'
  BY <1>0, <1>2, Zenon DEF Typed
<1>3. ASSUME NEW k \in Keys, Update(k) \/ Delete(k) PROVE Typed'
  <2>1. rd' = rd /\ hist'.start = hist.start /\ hist' \in Hs
    BY <1>3, WriteIs, Zenon
  <2> QED BY <1>0, <2>1, Zenon DEF Typed
<1>4. ASSUME NEW op \in Ops, Call(op) PROVE Typed'
  <2>1. /\ rd' \in Readers /\ rd'.op = op /\ hist' = [did |-> {}, start |-> Content]
        /\ rd'.pc = IF op \in Batches THEN "batch" ELSE "next"
    BY <1>4, CallIs, Zenon
  <2>2. hist' \in Hs /\ hist'.start = Content
    BY <1>1, <2>1, Zenon
  <2>3. op # "none"
    BY Zenon DEF Ops
  <2>4. rd'.pc \notin {"idle", "use", "set"} /\ rd'.pc \notin InBatches /\ (rd'.pc = "batch" => op \in Batches)
    BY <2>1, Zenon DEF InBatches
  <2> QED BY <1>1, <2>1, <2>2, <2>3, <2>4, Zenon DEF Typed
<1>5. CASE Advance
  <2> DEFINE k == NextKey(From)
  <2>1. /\ rd' \in Readers /\ rd'.op = rd.op /\ rd'.key = k /\ rd'.pc = After(k)
        /\ rd.pc = "next" /\ hist' = hist
    BY <1>5, AdvanceIs, Zenon DEF Apart
  <2> HIDE DEF k
  <2>2. /\ After(k) \in {"set", "returned", "use"}
        /\ After(k) = "use" => k # None
        /\ After(k) = "set" => rd.op = "zero"
    BY Zenon DEF After
  <2>3. rd.op # "none"
    BY <1>0, <2>1, Zenon
  <2> QED BY <1>2, <2>1, <2>2, <2>3, Zenon DEF InBatches
<1>6. CASE Lookup \/ RemoveKey \/ ListKey
  <2>1. /\ rd.pc = "use" /\ hist' = hist /\ rd' \in Readers /\ rd'.op = rd.op
        /\ rd'.pc \in {"next", "returned", "raised"}
    BY <1>6, UseIs, Zenon DEF Apart
  <2> QED BY <1>0, <1>2, <2>1, Zenon DEF InBatches
<1>7. CASE SetZero
  <2>1. /\ rd.op = "zero" /\ hist' = hist /\ rd' \in Readers /\ rd'.op = rd.op
        /\ rd'.pc \in {"set", "returned", "raised"}
    BY <1>7, SetZeroIs, Zenon DEF Apart
  <2> QED BY <1>2, <2>1, Zenon DEF InBatches
<1>8. CASE BatchCall
  BY <1>2, <1>8, BatchCallIs, Zenon DEF InBatches, Batches
<1>9. CASE BatchBucket
  <2>1. /\ rd.op \in Batches /\ hist' = hist /\ rd' \in Readers /\ rd'.op = rd.op
        /\ rd'.pc \in InBatches
    BY <1>9, BatchBucketIs, Zenon DEF InBatches
  <2> QED BY <1>2, <2>1, Zenon DEF InBatches, Batches
<1>10. CASE BatchDone
  <2>1. /\ rd.op \in Batches /\ hist' = hist /\ rd' \in Readers /\ rd'.op = rd.op
        /\ rd'.pc \in {"raised", "returned", "batch"}
    BY <1>10, BatchDoneIs, Zenon
  <2> QED BY <1>2, <2>1, Zenon DEF InBatches, Batches
<1>11. CASE UNCHANGED vars
  BY <1>0, <1>11, Zenon DEF vars, Typed
<1> QED BY <1>3, <1>4, <1>5, <1>6, <1>7, <1>8, <1>9, <1>10, <1>11, Zenon DEF Next, Step

\* Every step keeps the count of what the batches read.
LEMMA CountingStep == Tabled /\ Typed /\ Counting /\ [Next]_vars => Counting'
<1> SUFFICES ASSUME Tabled, Typed, Counting, [Next]_vars PROVE Counting'
  BY Zenon
<1>0. rd \in Readers /\ rd.total \in Nat /\ rd.cnt \in Nat /\ rd.got \in Seq(Keys)
  BY Zenon DEF Typed, Readers
<1>1. CASE rd' = rd
  BY <1>1, Zenon DEF Counting
<1>2. CASE rd'.op \notin Batches
  BY <1>2, Zenon DEF Counting
<1>3. ASSUME NEW k \in Keys, Update(k) \/ Delete(k) PROVE Counting'
  BY <1>1, <1>3, WriteIs, Zenon
<1>4. ASSUME NEW op \in Ops, Call(op) PROVE Counting'
  <2>1. /\ rd'.op = op /\ rd'.got = <<>> /\ rd'.total = 0 /\ rd'.taken = 0
        /\ rd'.pc = IF op \in Batches THEN "batch" ELSE "next"
    BY <1>4, CallIs, Zenon
  <2> QED BY <1>2, <2>1, TableIterAssumption DEF Counting, InBatches
<1>5. CASE Advance \/ Lookup \/ RemoveKey \/ ListKey \/ SetZero
  <2>1. rd'.op = rd.op /\ rd.pc \in {"next", "use", "set"}
    BY <1>5, AdvanceIs, UseIs, SetZeroIs, Zenon DEF Apart
  <2>2. rd.op \notin Batches
    BY <2>1, Zenon DEF Counting, InBatches
  <2> QED BY <1>2, <2>1, <2>2, Zenon
<1>6. CASE BatchCall
  <2>1. /\ rd.pc = "batch" /\ rd.op \in Batches /\ rd'.op = rd.op /\ rd'.got = rd.got
        /\ rd'.pc = "bucket" /\ rd'.left = MaxEntries - rd.total /\ rd'.cnt = 0
        /\ rd'.total = rd.total /\ rd'.taken = rd.taken
    BY <1>6, BatchCallIs, Zenon
  <2>2. rd.total <= MaxEntries /\ Len(rd.got) = rd.total
    BY <2>1, Zenon DEF Counting, InBatches
  <2>3. rd'.cnt <= rd'.left /\ Len(rd'.got) = rd'.total + rd'.cnt
    BY <1>0, <2>1, <2>2, TableIterAssumption
  <2> QED BY <2>1, <2>2, <2>3, Zenon DEF Counting, InBatches
<1>7. CASE BatchBucket
  <2>1. /\ rd.pc = "bucket" /\ rd.op \in Batches /\ rd.cur \in Nat
        /\ rd'.op = rd.op /\ rd'.left = rd.left /\ rd'.total = rd.total
    BY <1>7, BatchBucketIs, Zenon
  <2>2. /\ rd.total <= MaxEntries /\ rd.left = MaxEntries - rd.total /\ rd.cnt <= rd.left
        /\ Len(rd.got) = rd.total + rd.cnt
        /\ rd.op = "batch_delete" => rd.taken = Len(rd.got)
    BY <2>1, Zenon DEF Counting, InBatches
  <2>3. CASE /\ rd'.pc \in {"ENOENT", "ENOSPC", "more"} /\ rd'.got = rd.got
             /\ rd'.cnt = rd.cnt /\ rd'.taken = rd.taken
    BY <2>1, <2>2, <2>3, Zenon DEF Counting, InBatches
  <2>4. CASE /\ rd'.pc = "bucket" /\ rd.cur \in Buckets
             /\ Len(map[rd.cur]) <= rd.left - rd.cnt
             /\ rd'.got = rd.got \o map[rd.cur] /\ rd'.cnt = rd.cnt + Len(map[rd.cur])
             /\ rd.op = "batch_delete" => rd'.taken = rd.taken + Len(map[rd.cur])
    <3> DEFINE n == Len(map[rd.cur])
    <3>1. map[rd.cur] \in Seq(Keys) /\ n \in Nat
      BY <2>4, ContentIs DEF Tabled
    <3>2. Len(rd'.got) = Len(rd.got) + n
      BY <1>0, <2>4, <3>1
    <3> HIDE DEF n
    <3>3. n <= rd.left - rd.cnt /\ rd'.cnt = rd.cnt + n
          /\ (rd.op = "batch_delete" => rd'.taken = rd.taken + n)
      BY <2>4, Zenon DEF n
    <3>4. rd'.cnt <= rd.left /\ Len(rd'.got) = rd.total + rd'.cnt
      BY <1>0, <2>2, <3>1, <3>2, <3>3, TableIterAssumption
    <3>5. rd.op = "batch_delete" => rd'.taken = Len(rd'.got)
      BY <2>2, <3>2, <3>3, Zenon
    <3> QED BY <2>1, <2>2, <2>4, <3>4, <3>5 DEF Counting, InBatches
  <2> QED BY <1>7, <2>3, <2>4, BatchBucketIs, Zenon
<1>8. CASE BatchDone
  <2>1. /\ rd.pc \in {"ENOENT", "ENOSPC", "more"} /\ rd.op \in Batches /\ rd'.op = rd.op
        /\ rd'.got = rd.got /\ rd'.total = rd.total + rd.cnt /\ rd'.taken = rd.taken
        /\ rd'.pc \in {"raised", "returned", "batch"}
    BY <1>8, BatchDoneIs, Zenon
  <2>2. /\ rd.total <= MaxEntries /\ rd.left = MaxEntries - rd.total /\ rd.cnt <= rd.left
        /\ Len(rd.got) = rd.total + rd.cnt
        /\ rd.op = "batch_delete" => rd.taken = Len(rd.got)
    BY <2>1, Zenon DEF Counting, InBatches
  <2>3. rd.total + rd.cnt <= MaxEntries
    BY <1>0, <2>2, TableIterAssumption
  <2> QED BY <2>1, <2>2, <2>3, Zenon DEF Counting, InBatches
<1>9. CASE UNCHANGED vars
  BY <1>1, <1>9, Zenon DEF vars
<1> QED BY <1>3, <1>4, <1>5, <1>6, <1>7, <1>8, <1>9 DEF Next, Step

-----------------------------------------------------------------------------
(* Calls that are not disturbed.                                            *)

\* A program that writes during a call disturbs it, unless it inserts.
LEMMA WriteDisturbs ==
  ASSUME Typed, NEW k \in Keys, Update(k) \/ Delete(k), rd.op # "none"
  PROVE  /\ ~Quiet'
         /\ Inserts' => Inserts /\ Update(k) /\ k \notin Content
<1>1. /\ hist'.did # {} /\ hist.did \subseteq hist'.did
      /\ Update(k) => (IF k \in Content THEN "update" ELSE "insert") \in hist'.did
      /\ Delete(k) => "delete" \in hist'.did
  BY WriteIs, Zenon
<1>2. ~Quiet' /\ (Inserts' => Inserts)
  BY <1>1, Zenon DEF Quiet, Inserts
<1>3. Inserts' => "update" \notin hist'.did /\ "delete" \notin hist'.did
  BY Zenon DEF Inserts
<1> QED BY <1>1, <1>2, <1>3, Zenon

\* Without writes of programs the calls that do not delete keep the keys.
LEMMA SameStep == Tabled /\ Typed /\ Counting /\ Zeroing /\ Same /\ [Next]_vars => Same'
<1> SUFFICES ASSUME Tabled, Typed, Counting, Zeroing, Same, [Next]_vars,
                    rd'.op \in {"offline", "items", "zero", "batch_lookup"}, Quiet'
             PROVE  Content' = hist'.start
  BY Zenon DEF Same
<1>1. ASSUME rd'.op = rd.op, hist' = hist, Content' = Content PROVE Content' = hist'.start
  BY <1>1, Zenon DEF Same, Quiet
<1>2. ASSUME rd'.op = rd.op, hist' = hist, Table PROVE Content' = hist'.start
  BY <1>1, <1>2, TableStays, Zenon
<1>3. ASSUME NEW k \in Keys, Update(k) \/ Delete(k) PROVE FALSE
  <2>1. rd.op # "none"
    BY <1>3, WriteIs, Zenon
  <2> QED BY <1>3, <2>1, WriteDisturbs, Zenon
<1>4. ASSUME NEW op \in Ops, Call(op) PROVE Content' = hist'.start
  <2>1. hist' = [did |-> {}, start |-> Content] /\ Table
    BY <1>4, CallIs, Zenon
  <2> QED BY <2>1, TableStays, Zenon
<1>5. CASE Advance
  BY <1>2, <1>5, AdvanceIs, Zenon DEF Apart
<1>6. CASE Lookup \/ RemoveKey \/ ListKey
  <2>1. /\ hist' = hist /\ rd'.op = rd.op
        /\ Lookup \/ ListKey => Table
        /\ RemoveKey => rd.op \in Clears
    BY <1>6, UseIs, Zenon DEF Apart
  <2> QED BY <1>2, <1>6, <2>1, Zenon DEF Clears
<1>7. CASE SetZero
  <2>1. /\ rd.pc = "set" /\ rd.op = "zero" /\ hist' = hist /\ rd'.op = rd.op
        /\ Table \/ /\ rd.list # <<>> /\ Head(rd.list) \in Keys /\ Fits(Head(rd.list))
                    /\ map' = Put(map, Head(rd.list))
    BY <1>7, SetZeroIs, Zenon DEF Apart
  <2>2. CASE Table
    BY <1>2, <2>1, <2>2, Zenon
  <2>3. CASE /\ rd.list # <<>> /\ Head(rd.list) \in Keys /\ Fits(Head(rd.list))
             /\ map' = Put(map, Head(rd.list))
    <3>1. Content' = Content \cup {Head(rd.list)}
      BY <2>3, PutTabled, Zenon
    <3>2. Quiet /\ Range(rd.list) \subseteq Content
      BY <2>1, Zenon DEF Zeroing, Quiet
    <3>3. Head(rd.list) \in Range(rd.list)
      <4>1. rd.list \in Seq(Keys)
        BY Zenon DEF Typed, Readers
      <4>2. Head(rd.list) = rd.list[1] /\ 1 \in 1..Len(rd.list)
        BY <2>3, <4>1
      <4> QED BY <4>1, <4>2, Elements
    <3> QED BY <1>1, <2>1, <3>1, <3>2, <3>3
  <2> QED BY <2>1, <2>2, <2>3, Zenon
<1>8. CASE BatchCall
  BY <1>2, <1>8, BatchCallIs, Zenon
<1>9. CASE BatchBucket
  <2>1. hist' = hist /\ rd'.op = rd.op /\ (rd.op # "batch_delete" => Table)
    BY <1>9, BatchBucketIs, Zenon
  <2> QED BY <1>2, <2>1, Zenon
<1>10. CASE BatchDone
  BY <1>2, <1>10, BatchDoneIs, Zenon
<1>11. CASE UNCHANGED vars
  BY <1>2, <1>11, Zenon DEF vars, Table
<1> QED BY <1>3, <1>4, <1>5, <1>6, <1>7, <1>8, <1>9, <1>10, <1>11 DEF Next, Step

\* Clearing deletes the key it stands on, so that it begins again each time.
LEMMA ClearingStep == Tabled /\ Typed /\ Counting /\ Clearing /\ [Next]_vars => Clearing'
<1> SUFFICES ASSUME Tabled, Typed, Counting, Clearing, [Next]_vars,
                    rd'.op \in Clears, Quiet'
             PROVE  Clearing'
  BY Zenon DEF Clearing
<1>0. rd \in Readers /\ Chained(map) /\ None \notin Content
  BY ContentIs, Zenon DEF Typed, Tabled
<1>1. ASSUME rd'.op = rd.op, hist' = hist
      PROVE  /\ rd.op \in Clears /\ rd.pc \in {"next", "use", "returned"}
             /\ rd.pc = "use" => rd.key \in Content
             /\ rd.pc = "next" /\ rd.op = "clear_py" => rd.key \notin Content
             /\ rd.pc = "returned" => Content = {}
  BY <1>1, Zenon DEF Clearing, Quiet
<1>2. ASSUME NEW k \in Keys, Update(k) \/ Delete(k) PROVE FALSE
  <2>1. rd.op # "none"
    BY <1>2, WriteIs, Zenon DEF Clears
  <2> QED BY <1>2, <2>1, WriteDisturbs, Zenon
<1>3. ASSUME NEW op \in Ops, Call(op) PROVE Clearing'
  <2>1. /\ rd'.op = op /\ rd'.key = None /\ Table
        /\ rd'.pc = IF op \in Batches THEN "batch" ELSE "next"
    BY <1>3, CallIs, Zenon
  <2>2. rd'.pc = "next" /\ None \notin Content'
    BY <1>0, <2>1, TableStays, Zenon DEF Clears, Batches
  <2> QED BY <2>1, <2>2, Zenon DEF Clearing
<1>4. CASE Advance
  <2> DEFINE k == NextKey(From)
  <2>1. /\ rd'.op = rd.op /\ hist' = hist /\ rd.pc = "next" /\ rd'.key = k /\ rd'.pc = After(k)
        /\ Table /\ From \in Keys \cup {None}
    BY <1>4, AdvanceIs, Zenon DEF Apart
  <2>2. From \notin Content
    BY <1>0, <1>1, <2>1, Zenon DEF From, Clears
  <2>3. IF k = None THEN Content = {} ELSE k \in Content
    BY <1>0, <2>1, <2>2, NextKeyRestarts, Zenon
  <2> HIDE DEF k
  <2>4. rd.op \in Clears /\ Content' = Content
    BY <1>1, <2>1, TableStays, Zenon
  <2>5. rd'.pc = IF k = None THEN "returned" ELSE "use"
    BY <2>1, <2>4, Zenon DEF After, Clears
  <2> QED BY <2>1, <2>3, <2>4, <2>5, Zenon DEF Clearing
<1>5. CASE Lookup \/ RemoveKey \/ ListKey
  <2>1. rd'.op = rd.op /\ hist' = hist /\ rd.pc = "use" /\ rd.key \in Keys /\ rd'.key = rd.key
    BY <1>5, UseIs, Zenon DEF Apart
  <2>2. rd.op \in Clears /\ rd.key \in Content
    BY <1>1, <2>1, Zenon
  <2>3. RemoveKey
    BY <1>5, <2>2, Zenon DEF Lookup, ListKey, Clears
  <2>4. rd'.pc = "next" /\ map' = Drop(map, rd.key)
    BY <2>2, <2>3, UseIs, Zenon
  <2>5. Content' = Content \ {rd.key}
    BY <2>1, <2>4, DropTabled, Zenon
  <2> QED BY <2>1, <2>4, <2>5, Zenon DEF Clearing
<1>6. CASE SetZero
  BY <1>6, SetZeroIs, Zenon DEF Apart, Clears
<1>7. CASE BatchCall \/ BatchBucket \/ BatchDone
  <2>1. rd.op \in Batches /\ rd'.op = rd.op
    BY <1>7, BatchCallIs, BatchBucketIs, BatchDoneIs, Zenon
  <2> QED BY <2>1, Zenon DEF Clears, Batches
<1>8. CASE UNCHANGED vars
  <2>1. Content' = Content /\ rd' = rd /\ hist' = hist
    BY <1>8, Zenon DEF vars, Content, Buckets
  <2> QED BY <1>1, <2>1, Zenon DEF Clearing
<1> QED BY <1>2, <1>3, <1>4, <1>5, <1>6, <1>7, <1>8 DEF Next, Step

\* No key comes before itself.
LEMMA NotBeforeItself ==
  ASSUME NEW m, Chained(m), NEW k \in Held(m) PROVE ~Before(m, k, k)
<1>1. Bucket(k) \in Buckets /\ m[Bucket(k)] \in Seq(Keys) /\ IsInjective(m[Bucket(k)])
  BY HeldIs, BucketType, Zenon DEF Chained
<1>2. ~(Bucket(k) < Bucket(k))
  BY <1>1 DEF Buckets
<1>3. ASSUME Ahead(m[Bucket(k)], k, k) PROVE FALSE
  <2> DEFINE s == m[Bucket(k)]
  <2>1. PICK x \in 1..Len(s), y \in 1..Len(s) : x < y /\ s[x] = k /\ s[y] = k
    BY <1>3, Zenon DEF Ahead
  <2>2. x = y
    BY <1>1, <2>1, Elements
  <2> QED BY <2>1, <2>2
<1> QED BY <1>2, <1>3, Zenon DEF Before

\* The walk goes on to the next key, or has passed all keys of the start.
LEMMA WalkAdvances ==
  ASSUME Tabled, Typed, Advance, From = rd.key, NEW s \in Seq(Keys), Walked(s),
         hist.start \subseteq Content
  PROVE  IF rd'.key = None THEN hist'.start \subseteq Range(s) /\ rd'.pc # "use"
         ELSE rd'.pc = "use" /\ Walked(s)'
<1> DEFINE n == NextKey(rd.key)
<1>1. /\ n \in Content \cup {None} /\ rd'.key = n /\ rd'.pc = After(n)
      /\ rd.pc = "next" /\ hist' = hist /\ Table /\ rd.key \in Keys \cup {None}
  BY AdvanceIs, Zenon
<1>2. Chained(map) /\ Content' = Content /\ map' = map /\ None \notin Content
  BY <1>1, TableStays, ContentIs, Zenon DEF Tabled, Table
<1>3. rd'.pc = "use" <=> n # None
  BY <1>1, Zenon DEF After
<1>4. IsInjective(s) /\ Range(s) \subseteq Content
  BY Zenon DEF Walked
<1>5. ASSUME n # None, \A j \in Range(s) : Before(map, j, n),
             \A j \in hist.start : Before(map, j, n) => j \in Range(s)
      PROVE  Walked(s)'
  <2>1. rd'.pc = "use" /\ rd'.key = n /\ n \in Content
    BY <1>1, <1>3, <1>5, Zenon
  <2> HIDE DEF n
  <2> QED BY <1>1, <1>2, <1>4, <1>5, <2>1, Zenon DEF Walked, Past
<1>6. CASE rd.key = None
  <2>1. s = <<>> /\ Range(s) = {}
    <3>1. s = <<>>
      BY <1>1, <1>6, Zenon DEF Walked
    <3> QED BY <3>1 DEF Range
  <2>2. IF n = None THEN Content = {} ELSE \A j \in Content : ~Before(map, j, n)
    BY <1>1, <1>2, <1>6, NextKeyRestarts, Zenon
  <2> HIDE DEF n
  <2> QED BY <1>1, <1>3, <1>5, <2>1, <2>2, Zenon
<1>7. CASE rd.key # None
  <2>1. /\ rd.key \in Content
        /\ \A j \in Range(s) : Past(j)
        /\ \A j \in hist.start : Past(j) => j \in Range(s)
    BY <1>1, <1>7, Zenon DEF Walked
  <2>2. \A j : Past(j) <=> (Before(map, j, rd.key) \/ j = rd.key)
    BY <1>1, Zenon DEF Past
  <2>3. IF n = None THEN \A j \in Content : Before(map, j, rd.key) \/ j = rd.key
        ELSE \A j \in Content : Before(map, j, n) <=> (Before(map, j, rd.key) \/ j = rd.key)
    BY <1>2, <2>1, NextKeyAdvances, Zenon
  <2> HIDE DEF n
  <2>4. CASE n = None
    BY <1>1, <1>3, <2>1, <2>2, <2>3, <2>4
  <2>5. CASE n # None
    <3>1. \A j \in Range(s) : Before(map, j, n)
      BY <1>4, <2>1, <2>2, <2>3, <2>5
    <3>2. \A j \in hist.start : Before(map, j, n) => j \in Range(s)
      BY <2>1, <2>2, <2>3, <2>5
    <3> QED BY <1>1, <1>3, <1>5, <2>5, <3>1, <3>2
  <2> QED BY <2>4, <2>5, Zenon
<1> QED BY <1>6, <1>7, Zenon

\* A key more at the end of a collection.
LEMMA Collected ==
  ASSUME NEW S, NEW s \in Seq(S), NEW k \in S, IsInjective(s), k \notin Range(s)
  PROVE  LET t == Append(s, k) IN
         t \in Seq(S) /\ IsInjective(t) /\ Range(t) = Range(s) \cup {k}
<1> DEFINE t == Append(s, k)
<1>1. /\ t \in Seq(S) /\ Len(t) = Len(s) + 1 /\ Len(s) \in Nat /\ t[Len(s) + 1] = k
      /\ \A i \in 1..Len(s) : t[i] = s[i]
  OBVIOUS
<1> HIDE DEF t
<1>2. /\ \A i, j \in 1..Len(s) : s[i] = s[j] => i = j
      /\ \A x : x \in Range(s) <=> \E i \in 1..Len(s) : s[i] = x
  BY Elements, Zenon
<1>3. \A i \in 1..Len(t) : i \in 1..Len(s) \/ i = Len(s) + 1
  BY <1>1
<1>4. \A i \in 1..Len(s) : i \in 1..Len(t) /\ s[i] # k
  BY <1>1, <1>2
<1>5. Len(s) + 1 \in 1..Len(t)
  BY <1>1
<1>6. \A i, j \in 1..Len(t) : t[i] = t[j] => i = j
  BY <1>1, <1>2, <1>3, <1>4, Zenon
<1>7. \A x : x \in Range(t) <=> \E i \in 1..Len(t) : t[i] = x
  BY <1>1, Elements, Zenon
<1>8. Range(t) = Range(s) \cup {k}
  BY <1>1, <1>2, <1>3, <1>4, <1>5, <1>7
<1>9. IsInjective(t)
  BY <1>1, <1>6, Elements, Zenon
<1> QED BY <1>1, <1>8, <1>9, Zenon DEF t

\* The walk collects the key it stands on.
LEMMA WalkTakes ==
  ASSUME Tabled, Typed, rd.pc = "use", NEW s \in Seq(Keys), Walked(s), Table,
         hist' = hist, rd'.key = rd.key, rd'.pc = "next", NEW t, t = Append(s, rd.key)
  PROVE  Walked(t)'
<1>1. /\ Chained(map) /\ Content = Held(map) /\ Content \subseteq Keys /\ rd.key # None
      /\ Content' = Content /\ map' = map
  BY TableStays, ContentIs, Zenon DEF Tabled, Table, Typed
<1>2. /\ IsInjective(s) /\ Range(s) \subseteq Content /\ rd.key \in Content
      /\ \A j \in Range(s) : Before(map, j, rd.key)
      /\ \A j \in hist.start : Before(map, j, rd.key) => j \in Range(s)
  BY <1>1, Zenon DEF Walked, Past
<1>3. rd.key \notin Range(s)
  BY <1>1, <1>2, NotBeforeItself, Zenon
<1> DEFINE k == rd.key
<1>4. IsInjective(t) /\ Range(t) = Range(s) \cup {k}
  BY <1>1, <1>2, <1>3, Collected
<1> HIDE DEF k
<1>6. /\ Range(t) \subseteq Content'
      /\ \A j \in Range(t) : Before(map', j, k) \/ j = k
      /\ \A j \in hist'.start : Before(map', j, k) \/ j = k => j \in Range(t)
  BY <1>1, <1>2, <1>4, Zenon DEF k
<1>7. rd'.key = k /\ k # None /\ k \in Content'
  BY <1>1, <1>2, Zenon DEF k
<1> QED BY <1>4, <1>6, <1>7, Zenon DEF Walked, Past

\* A key that is inserted meanwhile does not get in the way.
LEMMA WalkInserts ==
  ASSUME Tabled, Typed, NEW k \in Keys, Update(k), k \notin Content,
         NEW s \in Seq(Keys), Walked(s), hist.start \subseteq Content
  PROVE  Walked(s)' /\ Content \subseteq Content'
<1>1. /\ rd' = rd /\ hist'.start = hist.start /\ map' = Put(map, k)
  BY WriteIs, Zenon DEF Update
<1>2. Content' = Content \cup {k} /\ Chained(map) /\ Content = Held(map)
  BY <1>1, PutTabled, ContentIs, Zenon DEF Update, Tabled
<1>3. \A i, j \in Content : Before(map', i, j) <=> Before(map, i, j)
  BY <1>1, <1>2, PutKeepsOrder, Zenon
<1>4. ASSUME rd.pc \in {"next", "use"}, rd.key # None
      PROVE  /\ rd.key \in Content'
             /\ \A j \in Range(s) : Past(j)'
             /\ \A j \in hist.start : Past(j)' => j \in Range(s)
  <2>1. /\ rd.key \in Content /\ Range(s) \subseteq Content
        /\ \A j \in Range(s) : Past(j)
        /\ \A j \in hist.start : Past(j) => j \in Range(s)
    BY <1>4, Zenon DEF Walked
  <2>2. \A j \in Content : Past(j)' <=> Past(j)
    BY <1>1, <1>3, <2>1, Zenon DEF Past
  <2> QED BY <1>2, <2>1, <2>2, Zenon
<1>5. /\ IsInjective(s) /\ Range(s) \subseteq Content'
      /\ rd.pc = "next" /\ rd.key = None => s = <<>>
  BY <1>2, Zenon DEF Walked
<1> QED BY <1>1, <1>2, <1>4, <1>5, Zenon DEF Walked

\* Every step keeps what a call has gathered, if programs only insert.
LEMMA GatheringStep == Tabled /\ Typed /\ Counting /\ Gathering /\ [Next]_vars => Gathering'
<1> SUFFICES ASSUME Tabled, Typed, Counting, Gathering, [Next]_vars,
                    rd'.op \in {"offline", "items"}, Inserts'
             PROVE  Gathering'
  BY Zenon DEF Gathering
<1>0. rd \in Readers /\ rd.got \in Seq(Keys)
  BY Zenon DEF Typed, Readers
<1>1. PICK s \in Seq(Keys) : s = rd.got
  BY <1>0, Zenon
<1>2. ASSUME rd'.op = rd.op, Inserts
      PROVE  /\ rd.pc \in {"next", "use", "returned"} /\ hist.start \subseteq Content
             /\ Walked(s)
             /\ rd.pc = "returned" => hist.start \subseteq Range(s)
  BY <1>1, <1>2, Zenon DEF Gathering
<1>3. ASSUME NEW t, rd'.got = t, Walked(t)', hist'.start \subseteq Content',
             rd'.pc \in {"next", "use", "returned"},
             rd'.pc = "returned" => hist'.start \subseteq Range(t)
      PROVE  Gathering'
  <2>1. Walked(rd.got)'
    BY <1>3, Zenon DEF Walked, Past
  <2> QED BY <1>3, <2>1, Zenon DEF Gathering
<1>4. ASSUME NEW k \in Keys, Update(k) \/ Delete(k) PROVE Gathering'
  <2>1. rd' = rd /\ hist'.start = hist.start /\ rd.op # "none"
    BY <1>4, WriteIs, Zenon
  <2>2. Inserts /\ Update(k) /\ k \notin Content
    BY <1>4, <2>1, WriteDisturbs, Zenon
  <2>3. /\ rd.pc \in {"next", "use", "returned"} /\ hist.start \subseteq Content /\ Walked(s)
        /\ rd.pc = "returned" => hist.start \subseteq Range(s)
    BY <1>2, <2>1, <2>2, Zenon
  <2>4. Walked(s)' /\ Content \subseteq Content'
    BY <2>2, <2>3, WalkInserts, Zenon
  <2>5. rd'.got = s /\ rd'.pc = rd.pc /\ hist'.start \subseteq Content'
    BY <1>1, <2>1, <2>3, <2>4, Zenon
  <2> QED BY <1>3, <2>1, <2>3, <2>4, <2>5
<1>5. ASSUME NEW op \in Ops, Call(op) PROVE Gathering'
  <2>1. /\ rd'.op = op /\ rd'.key = None /\ rd'.got = <<>> /\ Table
        /\ hist' = [did |-> {}, start |-> Content]
        /\ rd'.pc = IF op \in Batches THEN "batch" ELSE "next"
    BY <1>5, CallIs, Zenon
  <2>2. rd'.pc = "next" /\ Content' = Content /\ hist'.start = Content
    BY <2>1, TableStays, Zenon DEF Batches
  <2>3. Walked(<<>>)'
    BY <2>1, <2>2 DEF Walked, IsInjective, Range
  <2> QED BY <1>3, <2>1, <2>2, <2>3
<1>6. CASE Advance
  <2>1. /\ rd'.op = rd.op /\ rd'.got = s /\ rd'.pc = After(rd'.key) /\ hist' = hist /\ Table
    BY <1>1, <1>6, AdvanceIs, Zenon DEF Apart
  <2>2. Content' = Content /\ From = rd.key /\ Inserts
    BY <2>1, TableStays, Zenon DEF From, Inserts
  <2>3. hist.start \subseteq Content /\ Walked(s)
    BY <1>2, <2>1, <2>2, Zenon
  <2>4. IF rd'.key = None THEN hist'.start \subseteq Range(s) /\ rd'.pc # "use"
        ELSE rd'.pc = "use" /\ Walked(s)'
    BY <1>6, <2>2, <2>3, WalkAdvances
  <2>5. rd'.key = None => rd'.pc = "returned"
    BY <2>1, Zenon DEF After
  <2>6. rd'.key = None => Walked(s)'
    BY <2>2, <2>3, <2>5, Zenon DEF Walked
  <2> QED BY <1>3, <2>1, <2>2, <2>3, <2>4, <2>5, <2>6
<1>7. CASE Lookup \/ RemoveKey \/ ListKey
  <2>1. /\ rd'.op = rd.op /\ rd.pc = "use" /\ hist' = hist /\ rd.key \in Keys /\ rd'.key = rd.key
    BY <1>7, UseIs, Zenon DEF Apart
  <2>2. Lookup /\ Inserts /\ rd.key # None
    BY <1>7, <2>1, BucketNone, Zenon DEF RemoveKey, ListKey, Inserts
  <2>3. hist.start \subseteq Content /\ Walked(s)
    BY <1>2, <2>1, <2>2, Zenon
  <2>4. rd.key \in Content
    BY <2>1, <2>2, <2>3, Zenon DEF Walked
  <2>5. rd'.got = Append(s, rd.key) /\ rd'.pc = "next" /\ Table
    BY <1>1, <2>2, <2>4, UseIs, Zenon
  <2>6. PICK t : t = Append(s, rd.key)
    BY Zenon
  <2>7. Walked(t)'
    BY <2>1, <2>3, <2>5, <2>6, WalkTakes
  <2>8. rd'.got = t /\ hist'.start \subseteq Content'
    BY <2>1, <2>3, <2>5, <2>6, TableStays
  <2> QED BY <1>3, <2>5, <2>7, <2>8
<1>8. CASE SetZero
  BY <1>8, SetZeroIs, Zenon DEF Apart
<1>9. CASE BatchCall \/ BatchBucket \/ BatchDone
  <2>1. rd.op \in Batches /\ rd'.op = rd.op
    BY <1>9, BatchCallIs, BatchBucketIs, BatchDoneIs
  <2> QED BY <2>1, Zenon DEF Batches
<1>10. CASE UNCHANGED vars
  <2>1. Content' = Content /\ rd' = rd /\ hist' = hist /\ map' = map
    BY <1>10, Zenon DEF vars, Content, Buckets
  <2> QED BY <2>1, Zenon DEF Gathering, Walked, Past, Inserts
<1> QED BY <1>4, <1>5, <1>6, <1>7, <1>8, <1>9, <1>10 DEF Next, Step

\* Every step of zero keeps to its list.
LEMMA ZeroingStep ==
  Tabled /\ Typed /\ Counting /\ Zeroing /\ Same /\ [Next]_vars => Zeroing'
<1> SUFFICES ASSUME Tabled, Typed, Counting, Zeroing, Same, [Next]_vars,
                    rd'.op = "zero", Quiet'
             PROVE  Zeroing'
  BY Zenon DEF Zeroing
<1>0. rd \in Readers /\ rd.list \in Seq(Keys) /\ nonzero \subseteq Content
  BY Zenon DEF Typed, Readers, Tabled
<1>1. PICK s \in Seq(Keys) : s = rd.list
  BY <1>0, Zenon
<1>2. ASSUME rd'.op = rd.op, hist' = hist
      PROVE  /\ rd.pc \in {"next", "use", "set", "returned"} /\ Content = hist.start
             /\ rd.pc \in {"next", "use"} => Walked(s)
             /\ rd.pc \in {"set", "returned"} => nonzero \subseteq Range(s) /\ Range(s) \subseteq Content
             /\ rd.pc = "returned" => s = <<>>
  BY <1>1, <1>2, Zenon DEF Zeroing, Same, Quiet
<1>3. ASSUME NEW t, rd'.list = t, rd'.pc \in {"next", "use"}, Walked(t)'
      PROVE  Zeroing'
  <2>1. Walked(rd.list)'
    BY <1>3, Zenon DEF Walked, Past
  <2> QED BY <1>3, <2>1, Zenon DEF Zeroing
<1>4. ASSUME NEW k \in Keys, Update(k) \/ Delete(k) PROVE FALSE
  <2>1. rd.op # "none"
    BY <1>4, WriteIs, Zenon
  <2> QED BY <1>4, <2>1, WriteDisturbs, Zenon
<1>5. ASSUME NEW op \in Ops, Call(op) PROVE Zeroing'
  <2>1. /\ rd'.op = op /\ rd'.key = None /\ rd'.list = <<>>
        /\ rd'.pc = IF op \in Batches THEN "batch" ELSE "next"
    BY <1>5, CallIs, Zenon
  <2>2. rd'.pc = "next"
    BY <2>1, Zenon DEF Batches
  <2>3. Walked(<<>>)'
    BY <2>1, <2>2 DEF Walked, IsInjective, Range
  <2> QED BY <1>3, <2>1, <2>2, <2>3
<1>6. CASE Advance
  <2>1. /\ rd'.op = rd.op /\ rd'.list = s /\ rd'.pc = After(rd'.key) /\ hist' = hist /\ Table
        /\ rd.pc = "next"
    BY <1>1, <1>6, AdvanceIs, Zenon DEF Apart
  <2>2. Content' = Content /\ From = rd.key /\ nonzero' = nonzero
    BY <2>1, TableStays, Zenon DEF From
  <2>3. hist.start = Content /\ Walked(s)
    BY <1>2, <2>1, Zenon
  <2>4. IF rd'.key = None THEN hist'.start \subseteq Range(s) /\ rd'.pc # "use"
        ELSE rd'.pc = "use" /\ Walked(s)'
    BY <1>6, <2>2, <2>3, WalkAdvances
  <2>5. CASE rd'.key = None
    <3>1. rd'.pc = "set"
      BY <2>1, <2>5, Zenon DEF After
    <3>2. nonzero' \subseteq Range(s) /\ Range(s) \subseteq Content'
      BY <1>0, <2>1, <2>2, <2>3, <2>4, <2>5 DEF Walked
    <3> QED BY <2>1, <3>1, <3>2, Zenon DEF Zeroing
  <2> QED BY <1>3, <2>1, <2>4, <2>5
<1>7. CASE Lookup \/ RemoveKey \/ ListKey
  <2>1. /\ rd'.op = rd.op /\ rd.pc = "use" /\ hist' = hist /\ rd'.key = rd.key
    BY <1>7, UseIs, Zenon DEF Apart
  <2>2. ListKey
    BY <1>7, <2>1, Zenon DEF RemoveKey, Lookup
  <2>3. Walked(s)
    BY <1>2, <2>1, Zenon
  <2>4. rd'.list = Append(s, rd.key) /\ rd'.pc = "next" /\ Table
    BY <1>1, <2>2, UseIs, Zenon
  <2>5. PICK t : t = Append(s, rd.key)
    BY Zenon
  <2>6. Walked(t)'
    BY <2>1, <2>3, <2>4, <2>5, WalkTakes
  <2> QED BY <1>3, <2>4, <2>5, <2>6
<1>8. CASE SetZero
  <2>1. /\ rd.pc = "set" /\ rd'.op = rd.op /\ hist' = hist
        /\ IF s = <<>>
              THEN rd'.pc = "returned" /\ rd'.list = s /\ Table
              ELSE LET k == Head(s) IN
                   /\ k \in Keys
                   /\ IF Fits(k)
                        THEN /\ rd'.pc = "set" /\ rd'.list = Tail(s)
                             /\ map' = Put(map, k) /\ nonzero' = nonzero \ {k}
                        ELSE rd'.pc = "raised" /\ rd'.list = s /\ Table
    BY <1>1, <1>8, SetZeroIs, Zenon DEF Apart
  <2>2. nonzero \subseteq Range(s) /\ Range(s) \subseteq Content
    BY <1>2, <2>1, Zenon
  <2>3. CASE s = <<>>
    BY <2>1, <2>2, <2>3, TableStays, Zenon DEF Zeroing
  <2>4. CASE s # <<>>
    <3> DEFINE k == Head(s)
               q == Tail(s)
    <3>1. /\ q \in Seq(Keys) /\ Len(q) = Len(s) - 1 /\ Len(s) \in Nat \ {0} /\ k = s[1]
          /\ \A i \in 1..Len(q) : q[i] = s[i + 1]
      BY <2>4
    <3> HIDE DEF k, q
    <3>2. \A x \in Range(s) : x = k \/ x \in Range(q)
      <4> TAKE x \in Range(s)
      <4>1. PICK i \in 1..Len(s) : s[i] = x
        BY Elements, Zenon
      <4>2. CASE i = 1
        BY <3>1, <4>1, <4>2, Zenon
      <4>3. CASE i # 1
        <5>1. i - 1 \in 1..Len(q) /\ (i - 1) + 1 = i
          BY <3>1, <4>1, <4>3
        <5>2. q[i - 1] = x
          BY <3>1, <4>1, <5>1, Zenon
        <5> QED BY <3>1, <5>1, <5>2, Elements
      <4> QED BY <4>2, <4>3, Zenon
    <3>3. Range(q) \subseteq Range(s)
      <4> SUFFICES ASSUME NEW x \in Range(q) PROVE x \in Range(s)
        BY Zenon
      <4>1. PICK i \in 1..Len(q) : q[i] = x
        BY <3>1, Elements
      <4>2. i + 1 \in 1..Len(s) /\ s[i + 1] = x
        BY <3>1, <4>1
      <4> QED BY <4>2, Elements, Zenon
    <3>4. k \in Content
      <4>1. 1 \in 1..Len(s) /\ s[1] = k
        BY <3>1
      <4> QED BY <2>2, <4>1, Elements, Zenon
    <3>5. Fits(k)
      BY <3>4, Zenon DEF Fits
    <3>6. /\ rd'.pc = "set" /\ rd'.list = q /\ k \in Keys
          /\ map' = Put(map, k) /\ nonzero' = nonzero \ {k}
      BY <2>1, <2>4, <3>5, Zenon DEF k, q
    <3>7. Content' = Content \cup {k}
      BY <3>5, <3>6, PutTabled, Zenon
    <3>8. nonzero' \subseteq Range(q) /\ Range(q) \subseteq Content'
      BY <2>2, <3>2, <3>3, <3>6, <3>7
    <3> QED BY <3>6, <3>8, Zenon DEF Zeroing
  <2> QED BY <2>3, <2>4, Zenon
<1>9. CASE BatchCall \/ BatchBucket \/ BatchDone
  <2>1. rd.op \in Batches /\ rd'.op = rd.op
    BY <1>9, BatchCallIs, BatchBucketIs, BatchDoneIs
  <2> QED BY <2>1, Zenon DEF Batches
<1>10. CASE UNCHANGED vars
  <2>1. Content' = Content /\ rd' = rd /\ hist' = hist /\ map' = map /\ nonzero' = nonzero
    BY <1>10, Zenon DEF vars, Content, Buckets
  <2> QED BY <2>1, Zenon DEF Zeroing, Walked, Past, Quiet
<1> QED BY <1>4, <1>5, <1>6, <1>7, <1>8, <1>9, <1>10 DEF Next, Step

\* A sequence without repetitions is no longer than a set that has its elements.
LEMMA NoLonger ==
  ASSUME NEW S, IsFiniteSet(S), NEW s \in Seq(S), IsInjective(s)
  PROVE  Len(s) <= Cardinality(S)
<1>1. Len(s) \in Nat /\ s \in [1..Len(s) -> S]
  OBVIOUS
<1>2. s \in Injection(1..Len(s), S)
  BY <1>1, Zenon DEF Injection
<1>3. Cardinality(1..Len(s)) <= Cardinality(S)
  BY <1>2, FS_Injection, Zenon
<1>4. Cardinality(1..Len(s)) = Len(s)
  BY <1>1, FS_Interval
<1> QED BY <1>3, <1>4, Zenon

\* Two collections that have nothing in common, one after the other.
LEMMA Concatenated ==
  ASSUME NEW S, NEW s \in Seq(S), NEW t \in Seq(S), IsInjective(s), IsInjective(t),
         Range(s) \cap Range(t) = {}
  PROVE  LET u == s \o t IN
         /\ u \in Seq(S) /\ Len(u) = Len(s) + Len(t) /\ IsInjective(u)
         /\ Range(u) = Range(s) \cup Range(t)
<1> DEFINE u == s \o t
<1>1. /\ u \in Seq(S) /\ Len(u) = Len(s) + Len(t) /\ Len(s) \in Nat /\ Len(t) \in Nat
      /\ \A i \in 1..(Len(s) + Len(t)) : u[i] = IF i <= Len(s) THEN s[i] ELSE t[i - Len(s)]
  OBVIOUS
<1> HIDE DEF u
<1>2. /\ \A i, j \in 1..Len(s) : s[i] = s[j] => i = j
      /\ \A i, j \in 1..Len(t) : t[i] = t[j] => i = j
      /\ \A x : x \in Range(s) <=> \E i \in 1..Len(s) : s[i] = x
      /\ \A x : x \in Range(t) <=> \E i \in 1..Len(t) : t[i] = x
      /\ \A x : x \in Range(u) <=> \E i \in 1..Len(u) : u[i] = x
  <2>1. /\ \A i, j \in 1..Len(s) : s[i] = s[j] => i = j
        /\ \A x : x \in Range(s) <=> \E i \in 1..Len(s) : s[i] = x
    BY Elements, Zenon
  <2>2. /\ \A i, j \in 1..Len(t) : t[i] = t[j] => i = j
        /\ \A x : x \in Range(t) <=> \E i \in 1..Len(t) : t[i] = x
    BY Elements, Zenon
  <2>3. \A x : x \in Range(u) <=> \E i \in 1..Len(u) : u[i] = x
    BY <1>1, Elements, Zenon
  <2> QED BY <2>1, <2>2, <2>3, Zenon
<1>3. \A i \in 1..Len(u) : \/ i \in 1..Len(s) /\ u[i] = s[i]
                           \/ i \notin 1..Len(s) /\ i - Len(s) \in 1..Len(t) /\ u[i] = t[i - Len(s)]
  BY <1>1
<1>4. IsInjective(u)
  <2> SUFFICES ASSUME NEW i \in 1..Len(u), NEW j \in 1..Len(u), u[i] = u[j] PROVE i = j
    BY <1>1, Elements, Zenon
  <2>1. CASE i \in 1..Len(s) /\ j \in 1..Len(s)
    BY <1>2, <1>3, <2>1
  <2>2. CASE i \notin 1..Len(s) /\ j \notin 1..Len(s)
    <3>1. PICK x \in 1..Len(t), y \in 1..Len(t) :
            x = i - Len(s) /\ y = j - Len(s) /\ u[i] = t[x] /\ u[j] = t[y]
      BY <1>3, <2>2, Zenon
    <3>2. x = y
      BY <1>2, <3>1
    <3> QED BY <1>1, <3>1, <3>2
  <2>3. \A l \in 1..Len(u) : u[l] \in (IF l \in 1..Len(s) THEN Range(s) ELSE Range(t))
    <3> TAKE l \in 1..Len(u)
    <3>1. CASE l \in 1..Len(s)
      BY <1>2, <1>3, <3>1, Zenon
    <3>2. CASE l \notin 1..Len(s)
      <4>1. PICK x \in 1..Len(t) : u[l] = t[x]
        BY <1>3, <3>2, Zenon
      <4> QED BY <1>2, <3>2, <4>1, Zenon
    <3> QED BY <3>1, <3>2, Zenon
  <2>4. i \in 1..Len(s) <=> j \in 1..Len(s)
    BY <2>3, Zenon
  <2> QED BY <2>1, <2>2, <2>4, Zenon
<1>5. Range(u) \subseteq Range(s) \cup Range(t)
  <2> SUFFICES ASSUME NEW x \in Range(u) PROVE x \in Range(s) \cup Range(t)
    BY Zenon
  <2>1. PICK i \in 1..Len(u) : u[i] = x
    BY <1>2, Zenon
  <2> QED BY <1>2, <1>3, <2>1, Zenon
<1>6. Range(s) \subseteq Range(u)
  <2> SUFFICES ASSUME NEW x \in Range(s) PROVE x \in Range(u)
    BY Zenon
  <2>1. PICK i \in 1..Len(s) : s[i] = x
    BY <1>2, Zenon
  <2>2. i \in 1..Len(u) /\ u[i] = x
    BY <1>1, <2>1
  <2> QED BY <1>2, <2>2, Zenon
<1>7. Range(t) \subseteq Range(u)
  <2> SUFFICES ASSUME NEW x \in Range(t) PROVE x \in Range(u)
    BY Zenon
  <2>1. PICK i \in 1..Len(t) : t[i] = x
    BY <1>2, Zenon
  <2>2. i + Len(s) \in 1..Len(u) /\ ~(i + Len(s) <= Len(s)) /\ (i + Len(s)) - Len(s) = i
    BY <1>1, <2>1
  <2>3. u[i + Len(s)] = x
    BY <1>1, <2>1, <2>2, Zenon
  <2> QED BY <1>2, <2>2, <2>3, Zenon
<1> QED BY <1>1, <1>4, <1>5, <1>6, <1>7 DEF u

\* In a scan that is not disturbed the next bucket is apart from what was read,
\* and there is room for it.
LEMMA NextBucketFits ==
  ASSUME Tabled, Typed, Counting, Scanning, Undisturbed, rd.pc = "bucket", rd.cur \in Buckets
  PROVE  LET s == map[rd.cur]
             u == rd.got \o s
         IN  /\ Len(s) <= rd.left - rd.cnt /\ IsInjective(u)
             /\ Range(u) = Range(rd.got) \cup Range(s)
             /\ \A j \in Range(s) : Bucket(j) = rd.cur /\ j \in Content
<1> DEFINE s == map[rd.cur]
           u == rd.got \o s
<1>1. /\ rd.got \in Seq(Keys) /\ IsInjective(rd.got) /\ rd.total = 0
      /\ \A j \in Range(rd.got) : Bucket(j) < rd.cur
      /\ rd.op = "batch_lookup" => Range(rd.got) \subseteq Content
      /\ rd.op = "batch_delete" => Range(rd.got) \cup Content = hist.start
      /\ rd.op \in {"batch_lookup", "batch_delete"}
  BY Zenon DEF Typed, Readers, Scanning, Undisturbed
<1>2. /\ s \in Seq(Keys) /\ IsInjective(s)
      /\ \A j \in Range(s) : Bucket(j) = rd.cur /\ j \in Content
  BY ContentIs, Zenon DEF Tabled
<1> HIDE DEF s
<1>3. Range(rd.got) \cap Range(s) = {}
  BY <1>1, <1>2 DEF Buckets
<1>4. /\ u \in Seq(Keys) /\ Len(u) = Len(rd.got) + Len(s) /\ IsInjective(u)
      /\ Range(u) = Range(rd.got) \cup Range(s)
  BY <1>1, <1>2, <1>3, Concatenated
<1> HIDE DEF u
<1>5. PICK S : /\ IsFiniteSet(S) /\ Cardinality(S) <= MaxEntries /\ Range(u) \subseteq S
  <2>1. CASE rd.op = "batch_lookup"
    BY <1>1, <1>2, <1>4, <2>1, Zenon DEF Tabled
  <2>2. CASE rd.op = "batch_delete"
    BY <1>1, <1>2, <1>4, <2>2, Zenon DEF Typed
  <2> QED BY <1>1, <2>1, <2>2, Zenon
<1>6. u \in Seq(S)
  <2>1. Len(u) \in Nat /\ u \in [1..Len(u) -> Keys]
    BY <1>4
  <2>2. \A i \in 1..Len(u) : u[i] \in S
    BY <1>4, <1>5, Elements, Zenon
  <2>3. u \in [1..Len(u) -> S]
    BY <2>1, <2>2, Zenon
  <2> QED BY <2>1, <2>3
<1>7. Len(u) <= Cardinality(S) /\ Cardinality(S) \in Nat
  BY <1>4, <1>5, <1>6, NoLonger, FS_CardinalityType
<1>8. /\ Len(rd.got) = rd.total + rd.cnt /\ rd.left = MaxEntries - rd.total
      /\ rd.cnt \in Nat /\ Len(s) \in Nat
  BY <1>1, <1>2 DEF Counting, Batches, InBatches, Typed, Readers
<1>9. Len(s) <= rd.left - rd.cnt
  <2>1. rd.cnt + Len(s) <= MaxEntries
    <3>1. Len(u) = rd.cnt + Len(s) /\ Len(u) \in Nat
      BY <1>1, <1>4, <1>8
    <3> QED BY <1>5, <1>7, <3>1, TableIterAssumption
  <2>2. rd.left = MaxEntries
    BY <1>1, <1>8, TableIterAssumption
  <2> QED BY <1>8, <2>1, <2>2, TableIterAssumption
<1> QED BY <1>2, <1>4, <1>9, Zenon DEF s, u

\* Every step of a batch that is not disturbed reads on, and all of it in one call.
LEMMA ScanningStep == Tabled /\ Typed /\ Counting /\ Scanning /\ [Next]_vars => Scanning'
<1> SUFFICES ASSUME Tabled, Typed, Counting, Scanning, [Next]_vars, Undisturbed'
             PROVE  Scanning'
  BY Zenon DEF Scanning
<1>0. /\ rd \in Readers /\ hist.start \subseteq Keys /\ rd.total \in Nat
      /\ rd'.op \in Batches /\ rd.got \in Seq(Keys)
  BY Zenon DEF Typed, Readers, Undisturbed, Batches
<1>1. \A j \in hist.start : Bucket(j) \in Nat /\ Bucket(j) < NBuckets
  <2> TAKE j \in hist.start
  <2>1. Bucket(j) \in Buckets
    BY <1>0, BucketType, Zenon
  <2> QED BY <2>1, TableIterAssumption DEF Buckets
<1>2. ASSUME rd'.op = rd.op, hist' = hist
      PROVE  /\ Undisturbed
             /\ rd.pc \in {"batch", "bucket", "ENOENT", "returned"} /\ IsInjective(rd.got)
             /\ rd.pc # "returned" => rd.total = 0
             /\ rd.pc = "bucket" =>
                  /\ \A j \in Range(rd.got) : Bucket(j) < rd.cur
                  /\ \A j \in hist.start : Bucket(j) < rd.cur => j \in Range(rd.got)
             /\ rd.pc \in {"ENOENT", "returned"} => hist.start \subseteq Range(rd.got)
             /\ rd.op = "batch_lookup" => Range(rd.got) \subseteq Content /\ hist.start \subseteq Content
             /\ rd.op = "batch_delete" => /\ Range(rd.got) \cup Content = hist.start
                                          /\ Range(rd.got) \cap Content = {}
  <2>1. Undisturbed
    BY <1>2, Zenon DEF Undisturbed, Quiet, Inserts
  <2> QED BY <2>1, Zenon DEF Scanning
<1>3. ASSUME NEW k \in Keys, Update(k) \/ Delete(k) PROVE Scanning'
  <2>1. rd' = rd /\ hist'.start = hist.start /\ rd.op # "none"
    BY <1>0, <1>3, WriteIs, Zenon DEF Batches
  <2>2. ~Quiet' /\ (Inserts' => Inserts /\ Update(k) /\ k \notin Content)
    BY <1>3, <2>1, WriteDisturbs, Zenon
  <2>3. rd.op = "batch_lookup" /\ Inserts /\ Update(k)
    BY <2>1, <2>2, Zenon DEF Undisturbed
  <2>4. Content' = Content \cup {k}
    BY <2>3, PutTabled, Zenon DEF Update
  <2>5. Undisturbed
    BY <2>3, Zenon DEF Undisturbed
  <2> QED BY <2>1, <2>3, <2>4, <2>5, Zenon DEF Scanning
<1>4. ASSUME NEW op \in Ops, Call(op) PROVE Scanning'
  <2>1. /\ rd'.op = op /\ rd'.got = <<>> /\ rd'.total = 0 /\ Table
        /\ hist' = [did |-> {}, start |-> Content]
        /\ rd'.pc = IF op \in Batches THEN "batch" ELSE "next"
    BY <1>4, CallIs, Zenon
  <2>2. rd'.pc = "batch" /\ Content' = Content /\ hist'.start = Content
    BY <1>0, <2>1, TableStays, Zenon
  <2>3. IsInjective(<<>>) /\ Range(<<>>) = {}
    BY DEF IsInjective, Range
  <2>4. IsInjective(rd'.got) /\ Range(rd'.got) = {}
    BY <2>1, <2>3, Zenon
  <2> QED BY <2>1, <2>2, <2>4, Zenon DEF Scanning
<1>5. CASE Advance \/ Lookup \/ RemoveKey \/ ListKey \/ SetZero
  <2>1. rd'.op = rd.op /\ rd.pc \in {"next", "use", "set"}
    BY <1>5, AdvanceIs, UseIs, SetZeroIs, Zenon DEF Apart
  <2> QED BY <1>0, <2>1, Zenon DEF Counting, InBatches
<1>6. CASE BatchCall
  <2>1. /\ rd.pc = "batch" /\ rd.op \in Batches /\ hist' = hist /\ Table /\ rd'.op = rd.op
        /\ rd'.got = rd.got /\ rd'.pc = "bucket" /\ rd'.cur = InBatch /\ rd'.total = rd.total
    BY <1>6, BatchCallIs, Zenon
  <2>2. rd.total = 0 /\ Len(rd.got) = rd.total /\ Content' = Content
    BY <1>2, <2>1, TableStays, Zenon DEF Counting, InBatches
  <2>3. rd'.cur = 0 /\ rd.got = <<>> /\ Range(rd.got) = {}
    <3>1. rd.got = <<>>
      BY <1>0, <2>2
    <3> QED BY <2>1, <2>2, <3>1 DEF InBatch, Range
  <2>4. \A j \in hist.start : ~(Bucket(j) < 0)
    BY <1>1
  <2> QED BY <1>2, <2>1, <2>2, <2>3, <2>4, Zenon DEF Scanning
<1>7. CASE BatchBucket
  <2>1. /\ rd.pc = "bucket" /\ rd.op \in Batches /\ hist' = hist /\ rd.cur \in Nat
        /\ rd'.op = rd.op /\ rd'.total = rd.total
    BY <1>7, BatchBucketIs, Zenon
  <2>2. /\ Undisturbed /\ IsInjective(rd.got) /\ rd.total = 0
        /\ \A j \in Range(rd.got) : Bucket(j) < rd.cur
        /\ \A j \in hist.start : Bucket(j) < rd.cur => j \in Range(rd.got)
        /\ rd.op = "batch_lookup" => Range(rd.got) \subseteq Content /\ hist.start \subseteq Content
        /\ rd.op = "batch_delete" => /\ Range(rd.got) \cup Content = hist.start
                                     /\ Range(rd.got) \cap Content = {}
    BY <1>2, <2>1, Zenon
  <2>3. rd.cur < NBuckets => rd.cur \in Buckets
    BY <2>1, TableIterAssumption DEF Buckets
  <2>4. CASE rd.cur >= NBuckets
    <3>1. rd'.pc = "ENOENT" /\ rd'.got = rd.got /\ Table
      <4>1. rd.cur \notin Buckets
        BY <2>1, <2>4, TableIterAssumption DEF Buckets
      <4> QED BY <1>7, <2>4, <4>1, BatchBucketIs, Zenon
    <3>2. hist.start \subseteq Range(rd.got)
      BY <1>1, <2>1, <2>2, <2>4, TableIterAssumption
    <3>3. Content' = Content
      BY <3>1, TableStays, Zenon
    <3> QED BY <2>1, <2>2, <3>1, <3>2, <3>3, Zenon DEF Scanning
  <2>5. CASE rd.cur < NBuckets
    <3> DEFINE s == map[rd.cur]
               u == rd.got \o s
    <3>1. rd.cur \in Buckets
      BY <2>3, <2>5, Zenon
    <3>2. /\ Len(s) <= rd.left - rd.cnt /\ IsInjective(u)
          /\ Range(u) = Range(rd.got) \cup Range(s)
          /\ \A j \in Range(s) : Bucket(j) = rd.cur /\ j \in Content
      BY <2>1, <2>2, <3>1, NextBucketFits
    <3>3. ~(Len(s) > rd.left - rd.cnt) /\ ~(rd.cur >= NBuckets)
      <4>1. Len(s) \in Nat /\ rd.left \in Nat /\ rd.cnt \in Nat
        BY <1>0, <3>1, ContentIs DEF Tabled, Readers
      <4> QED BY <2>1, <2>5, <3>2, <4>1, TableIterAssumption
    <3>4. /\ rd'.pc = "bucket" /\ rd'.cur = rd.cur + 1 /\ rd'.got = u
          /\ IF rd.op = "batch_delete" THEN map' = [map EXCEPT ![rd.cur] = <<>>] ELSE Table
      BY <1>7, <3>3, BatchBucketIs, Zenon
    <3>5. Content' = IF rd.op = "batch_delete" THEN Content \ Range(s) ELSE Content
      <4>1. CASE rd.op = "batch_delete"
        BY <3>1, <3>4, <4>1, EmptiedTabled, Zenon
      <4>2. CASE rd.op # "batch_delete"
        BY <3>4, <4>2, TableStays, Zenon
      <4> QED BY <4>1, <4>2, Zenon
    <3>6. \A j \in Content : Bucket(j) = rd.cur => j \in Range(s)
      BY ContentIs, Zenon DEF Tabled
    <3> HIDE DEF s, u
    <3>7. \A j \in Range(u) : Bucket(j) < rd.cur + 1
      <4> TAKE j \in Range(u)
      <4>1. CASE j \in Range(s)
        BY <2>1, <3>2, <4>1
      <4>2. CASE j \in Range(rd.got)
        <5>1. j \in Keys /\ Bucket(j) < rd.cur
          BY <1>0, <2>2, <4>2, Elements
        <5>2. Bucket(j) \in Nat
          BY <5>1, BucketType DEF Buckets
        <5> QED BY <2>1, <5>1, <5>2
      <4> QED BY <3>2, <4>1, <4>2, Zenon
    <3>8. \A j \in hist.start : Bucket(j) < rd.cur + 1 => j \in Range(u)
      <4> TAKE j \in hist.start
      <4> HAVE Bucket(j) < rd.cur + 1
      <4>1. Bucket(j) < rd.cur \/ Bucket(j) = rd.cur
        BY <1>1, <2>1
      <4>2. CASE Bucket(j) < rd.cur
        BY <2>2, <3>2, <4>2, Zenon
      <4>3. CASE Bucket(j) = rd.cur
        <5>1. j \in Content \/ j \in Range(rd.got)
          BY <2>1, <2>2, Zenon DEF Batches
        <5> QED BY <3>2, <3>6, <4>3, <5>1
      <4> QED BY <4>1, <4>2, <4>3, Zenon
    <3>9. rd.op = "batch_lookup" => Range(u) \subseteq Content' /\ hist.start \subseteq Content'
      BY <2>2, <3>2, <3>5
    <3>10. rd.op = "batch_delete" => Range(u) \cup Content' = hist.start /\ Range(u) \cap Content' = {}
      <4> SUFFICES ASSUME rd.op = "batch_delete"
                   PROVE  Range(u) \cup Content' = hist.start /\ Range(u) \cap Content' = {}
        BY Zenon
      <4>1. Range(s) \subseteq Content
        BY <3>2, Zenon
      <4> QED BY <2>2, <3>2, <3>5, <4>1
    <3> QED BY <2>1, <2>2, <3>2, <3>4, <3>7, <3>8, <3>9, <3>10 DEF Scanning
  <2>6. rd.cur >= NBuckets \/ rd.cur < NBuckets
    BY <2>1, TableIterAssumption
  <2> QED BY <2>4, <2>5, <2>6, Zenon
<1>8. CASE BatchDone
  <2>1. /\ rd.pc \in {"ENOENT", "ENOSPC", "more"} /\ hist' = hist /\ Table /\ rd'.op = rd.op
        /\ rd'.got = rd.got
        /\ rd.pc = "ENOENT" => rd'.pc = "returned"
    BY <1>8, BatchDoneIs, Zenon
  <2>2. rd.pc = "ENOENT" /\ rd'.pc = "returned" /\ Content' = Content
    BY <1>2, <2>1, TableStays, Zenon
  <2> QED BY <1>2, <2>1, <2>2, Zenon DEF Scanning
<1>9. CASE UNCHANGED vars
  <2>1. Content' = Content /\ rd' = rd /\ hist' = hist
    BY <1>9, Zenon DEF vars, Content, Buckets
  <2> QED BY <1>2, <2>1, Zenon DEF Scanning
<1> QED BY <1>3, <1>4, <1>5, <1>6, <1>7, <1>8, <1>9, Zenon DEF Next, Step

-----------------------------------------------------------------------------
(* The theorems.                                                            *)

\* An empty table that nobody reads.
LEMMA IInvInit == Init => IInv
<1> SUFFICES ASSUME Init PROVE IInv
  BY Zenon
<1>0. <<>> \in Seq(Keys) /\ IsInjective(<<>>) /\ Len(<<>>) = 0 /\ Range(<<>>) = {}
  BY DEF IsInjective, Range
<1>1. map \in [Buckets -> Seq(Keys)] /\ \A b \in Buckets : map[b] = <<>>
  BY DEF Init
<1>2. Chained(map)
  BY <1>0, <1>1 DEF Chained
<1>3. Content = {}
  BY <1>0, <1>1, Zenon DEF Content
<1>4. IsFiniteSet({}) /\ Cardinality({}) <= MaxEntries
  BY FS_EmptySet, TableIterAssumption
<1>5. Tabled
  BY <1>2, <1>3, <1>4, Zenon DEF Tabled, Init
<1>6. Reader("none") \in Readers /\ Reader("none").op = "none" /\ "idle" \in Pcs
  BY DEF Reader, Readers, Pcs
<1>7. rd \in Readers /\ rd.pc = "idle" /\ rd.op = "none"
  BY <1>6, GoIs, Zenon DEF Init, Idle, Apart
<1>8. /\ hist \in [did : SUBSET {"insert", "update", "delete"}, start : SUBSET Keys]
      /\ hist.start = {}
  BY Zenon DEF Init
<1>9. Typed
  BY <1>4, <1>7, <1>8, Zenon DEF Typed, InBatches
<1> QED BY <1>5, <1>7, <1>9, Zenon DEF IInv, Counting, Gathering, Zeroing, Same, Clearing, Scanning,
                               Undisturbed, Batches, Clears

\* The invariant is inductive.
LEMMA IInvHolds == Spec => []IInv
<1>1. IInv /\ [Next]_vars => IInv'
  BY TabledStep, TypedStep, CountingStep, GatheringStep, ZeroingStep, SameStep, ClearingStep,
     ScanningStep DEF IInv
<1> QED BY <1>1, IInvInit, PTL DEF Spec

\* For any keys, buckets and max_entries the table stays well formed, and the batch
\* calls of table.py store within their arrays, whatever the programs do meanwhile.
THEOREM TypeOKHolds == Spec => []TypeOK
<1>1. IInv => TypeOK
  <2> SUFFICES ASSUME IInv PROVE TypeOK
    BY Zenon
  <2>1. Tabled /\ Typed /\ Counting
    BY Zenon DEF IInv
  <2>2. DOMAIN map = Buckets /\ \A b \in Buckets : /\ IsInjective(map[b])
                                                   /\ Range(map[b]) \subseteq {k \in Keys : Bucket(k) = b}
    BY <2>1, HeldIs, Zenon DEF Tabled, Chained
  <2>3. rd.op \in Ops \cup {"none"} /\ rd.key \in Keys \cup {None}
    BY <2>1, Zenon DEF Typed, Readers
  <2>4. rd.pc \in InBatches => rd.total + rd.cnt <= MaxEntries
    <3> HAVE rd.pc \in InBatches
    <3>1. /\ rd.left = MaxEntries - rd.total /\ rd.cnt <= rd.left
          /\ rd.total \in Nat /\ rd.cnt \in Nat
      BY <2>1 DEF Typed, Readers, Counting
    <3> QED BY <3>1, TableIterAssumption
  <2> QED BY <2>1, <2>2, <2>3, <2>4 DEF TypeOK, Tabled, InBatches
<1> QED BY <1>1, IInvHolds, PTL

\* For any keys, buckets and max_entries, a call of get_table_offline, the clear
\* calls, items, zero or the batch calls that no program disturbs does all of its
\* work, once.
THEOREM QuietIsExactHolds == Spec => []QuietIsExact
<1>1. IInv => QuietIsExact
  <2> SUFFICES ASSUME IInv, rd.pc \in {"returned", "raised"}, Quiet
               PROVE  /\ rd.pc = "returned"
                      /\ rd.op \in Gathers \cup {"batch_delete"} =>
                           Range(rd.got) = hist.start /\ IsInjective(rd.got)
                      /\ rd.op \in {"clear_cc", "clear_py", "batch_delete"} => Content = {}
                      /\ rd.op = "zero" => Content = hist.start /\ nonzero = {}
    BY Zenon DEF QuietIsExact, Quiet
  <2>0. /\ rd.op \in Ops /\ Inserts /\ Range(<<>>) = {}
    BY DEF IInv, Typed, Readers, Inserts, Quiet, Range
  <2>1. CASE rd.op \in {"offline", "items"}
    BY <2>0, <2>1, Zenon DEF IInv, Gathering, Walked, Same, Gathers
  <2>2. CASE rd.op = "zero"
    BY <2>0, <2>2, Zenon DEF IInv, Zeroing, Same, Gathers
  <2>3. CASE rd.op \in Clears
    BY <2>3, Zenon DEF IInv, Clearing, Clears, Gathers
  <2>4. CASE rd.op = "batch_lookup"
    BY <2>0, <2>4, Zenon DEF IInv, Scanning, Undisturbed, Same, Gathers
  <2>5. CASE rd.op = "batch_delete"
    BY <2>5, Zenon DEF IInv, Scanning, Undisturbed, Gathers
  <2> QED BY <2>0, <2>1, <2>2, <2>3, <2>4, <2>5 DEF Ops, Clears
<1> QED BY <1>1, IInvHolds, PTL

\* For any keys, buckets and max_entries, programs that only add keys during a
\* call hide none of the others from get_table_offline, items or a lookup batch.
THEOREM InsertsHideNothingHolds == Spec => []InsertsHideNothing
<1>1. IInv => InsertsHideNothing
  <2> SUFFICES ASSUME IInv, rd.pc = "returned", Inserts, rd.op \in Gathers
               PROVE  hist.start \subseteq Range(rd.got) /\ IsInjective(rd.got)
    BY Zenon DEF InsertsHideNothing, Inserts
  <2>1. CASE rd.op \in {"offline", "items"}
    BY <2>1, Zenon DEF IInv, Gathering, Walked
  <2>2. CASE rd.op = "batch_lookup"
    BY <2>2 DEF IInv, Scanning, Undisturbed
  <2> QED BY <2>1, <2>2, Zenon DEF Gathers
<1> QED BY <1>1, IInvHolds, PTL

\* For any keys, buckets and max_entries, and whatever the programs do meanwhile, a
\* lookup-and-delete batch that returns yields all that it took out of the table.
THEOREM DeletedIsYieldedHolds == Spec => []DeletedIsYielded
<1>1. IInv => DeletedIsYielded
  BY Zenon DEF IInv, Counting, DeletedIsYielded, Batches
<1> QED BY <1>1, IInvHolds, PTL

-----------------------------------------------------------------------------
(* What is left of a call.                                                  *)

\* A set without one of its elements is smaller.
LEMMA Smaller ==
  ASSUME NEW S, IsFiniteSet(S), NEW D, D \subseteq S, NEW e \in S, e \notin D
  PROVE  Cardinality(D) \in Nat /\ Cardinality(S) \in Nat /\ Cardinality(D) < Cardinality(S)
<1>1. IsFiniteSet(D) /\ Cardinality(D) <= Cardinality(S) /\ Cardinality(D) # Cardinality(S)
  BY FS_Subset, Zenon
<1>2. Cardinality(D) \in Nat /\ Cardinality(S) \in Nat
  BY <1>1, FS_CardinalityType, Zenon
<1> QED BY <1>1, <1>2

\* What is left is counted in natural numbers.
LEMMA LeftType ==
  ASSUME Tabled, Typed, Counting
  PROVE  Work \in Nat /\ Turn \in Nat
<1>1. /\ rd.cur \in Nat /\ rd.total \in Nat /\ rd.list \in Seq(Keys)
      /\ NBuckets \in Nat /\ MaxEntries \in Nat
  BY TableIterAssumption, Zenon DEF Typed, Readers
<1>2. Cardinality(Content) \in Nat
  BY FS_CardinalityType, Zenon DEF Tabled
<1>3. Cardinality(ToCome) \in Nat
  <2>1. ToCome \subseteq Content
    BY Zenon DEF ToCome
  <2> QED BY <2>1, FS_Subset, FS_CardinalityType DEF Tabled
<1>4. Work \in Nat
  <2>1. CASE rd.pc = "set"
    BY <1>1, <2>1 DEF Work
  <2>2. CASE rd.pc # "set" /\ rd.op \in Batches
    <3>1. rd.total <= MaxEntries
      BY <2>2, Zenon DEF Counting
    <3>2. MaxEntries - rd.total \in Nat
      BY <1>1, <3>1
    <3> QED BY <2>2, <3>2, Zenon DEF Work, Batches
  <2>3. CASE rd.pc # "set" /\ rd.op \notin Batches
    BY <1>2, <1>3, <2>3, Zenon DEF Work, Batches
  <2> QED BY <2>1, <2>2, <2>3, Zenon
<1>5. Turn \in Nat
  BY <1>1 DEF Turn
<1> QED BY <1>4, <1>5, Zenon

\* get_next_key finds one of the keys to come, which is then no longer to come.
LEMMA AdvanceLeft ==
  ASSUME Tabled, Typed, Advance, rd.op # "clear_cc", rd'.key # None
  PROVE  Cardinality(ToCome') < Cardinality(ToCome)
<1> DEFINE n == rd'.key
           k == rd.key
<1>1. /\ k \in Keys \cup {None} /\ n = NextKey(k) /\ map' = map /\ Content' = Content
  <2>1. From = rd.key
    BY Zenon DEF From
  <2> QED BY <2>1, AdvanceIs, TableStays DEF Table
<1>2. Chained(map) /\ IsFiniteSet(Content) /\ Content = Held(map)
  BY ContentIs, Zenon DEF Tabled
<1> HIDE DEF n, k
<1>3. n # None
  BY Zenon DEF n
<1>4. n \in Content /\ \A j \in Content : k \in Content /\ (Before(map, j, k) \/ j = k) => Before(map, j, n)
  <2>1. CASE k \in Content
    <3>1. n \in Content /\ \A j \in Content : Before(map, j, n) <=> Before(map, j, k) \/ j = k
      BY <1>1, <1>2, <1>3, <2>1, NextKeyAdvances
    <3> QED BY <3>1, Zenon
  <2>2. CASE k \notin Content
    <3>1. n \in Content
      BY <1>1, <1>2, <1>3, <2>2, NextKeyRestarts
    <3> QED BY <2>2, <3>1, Zenon
  <2> QED BY <2>1, <2>2, Zenon
<1>5. ~Before(map, n, n)
  BY <1>2, <1>4, NotBeforeItself, Zenon
<1>6. ToCome = {j \in Content : k \in Content => ~Before(map, j, k) /\ j # k}
  BY Zenon DEF ToCome, k
<1>7. ToCome' = {j \in Content : ~Before(map, j, n) /\ j # n}
  <2>1. ToCome' = {j \in Content' : rd'.key \in Content' => ~Before(map', j, rd'.key) /\ j # rd'.key}
    BY Zenon DEF ToCome, Before
  <2> QED BY <1>1, <1>4, <2>1 DEF n
<1>8. n \in ToCome /\ n \notin ToCome' /\ ToCome' \subseteq ToCome /\ ToCome \subseteq Content
  BY <1>4, <1>5, <1>6, <1>7
<1>9. IsFiniteSet(ToCome)
  BY <1>2, <1>8, FS_Subset, Zenon
<1> QED BY <1>8, <1>9, Smaller, Zenon

Closer == \/ Phase' < Phase
          \/ Phase' = Phase /\ (Work' < Work \/ (Work' = Work /\ Turn' < Turn))

\* first() and next().
LEMMA AdvanceCloser ==
  ASSUME Tabled, Typed, Counting, Advance
  PROVE  Closer
<1>1. /\ rd.pc = "next" /\ rd'.op = rd.op /\ rd'.pc = After(rd'.key) /\ Content' = Content
  BY AdvanceIs, TableStays, Zenon DEF Apart
<1>2. rd.op \notin Batches
  BY <1>1, Zenon DEF Counting, InBatches
<1>3. CASE rd'.key = None
  <2>1. rd'.pc \in {"set", "returned"}
    BY <1>1, <1>3, Zenon DEF After
  <2>2. Phase = 2 /\ Phase' \in {0, 1}
    BY <1>1, <2>1, Zenon DEF Phase
  <2> QED BY <2>2 DEF Closer
<1>4. CASE rd'.key # None
  <2>1. rd'.pc = "use"
    BY <1>1, <1>4, Zenon DEF After
  <2>2. Phase = 2 /\ Phase' = 2
    BY <1>1, <2>1, Zenon DEF Phase
  <2>3. CASE rd.op \in Clears
    <3>1. Work = Cardinality(Content) /\ Work' = Cardinality(Content')
      BY <1>1, <1>2, <2>1, <2>3 DEF Work, Batches, Clears
    <3>2. Turn = 1 /\ Turn' = 0
      BY <1>1, <2>1, <2>3 DEF Turn, Clears
    <3> QED BY <1>1, <2>2, <3>1, <3>2 DEF Closer
  <2>4. CASE rd.op \notin Clears
    <3>1. Work = Cardinality(ToCome) /\ Work' = Cardinality(ToCome')
      BY <1>1, <1>2, <2>1, <2>4 DEF Work, Batches, Clears
    <3>2. Cardinality(ToCome') < Cardinality(ToCome)
      BY <1>4, <2>4, AdvanceLeft DEF Clears
    <3> QED BY <2>2, <3>1, <3>2 DEF Closer
  <2> QED BY <2>3, <2>4, Zenon
<1> QED BY <1>3, <1>4, Zenon

\* What is done with a key.
LEMMA UseCloser ==
  ASSUME Tabled, Typed, Counting, Lookup \/ RemoveKey \/ ListKey
  PROVE  Closer
<1>1. /\ rd.pc = "use" /\ rd'.op = rd.op /\ rd'.key = rd.key /\ rd.key \in Keys
      /\ rd'.pc \in {"next", "returned", "raised"}
  BY UseIs, Zenon DEF Apart
<1>2. rd.op \notin Batches
  BY <1>1, Zenon DEF Counting, InBatches
<1>3. Phase = 2
  BY <1>1, Zenon DEF Phase
<1>4. CASE rd'.pc # "next"
  <2>1. Phase' = 0
    BY <1>1, <1>4, Zenon DEF Phase
  <2> QED BY <1>3, <2>1 DEF Closer
<1>5. CASE rd'.pc = "next" /\ ~RemoveKey
  <2>1. rd.op \notin Clears /\ Table
    BY <1>5, UseIs, Zenon DEF Clears
  <2>2. Content' = Content /\ map' = map
    BY <2>1, TableStays, Zenon DEF Table
  <2>3. ToCome' = ToCome
    BY <1>1, <2>2, Zenon DEF ToCome, Before
  <2>4. Work = Cardinality(ToCome) /\ Work' = Cardinality(ToCome')
    BY <1>1, <1>2, <1>5, <2>1 DEF Work, Batches, Clears
  <2>5. Phase' = 2 /\ Turn = 1 /\ Turn' = 0
    BY <1>1, <1>5, <2>1, Zenon DEF Phase, Turn, Clears
  <2> QED BY <1>3, <2>3, <2>4, <2>5 DEF Closer
<1>6. CASE rd'.pc = "next" /\ RemoveKey
  <2>1. rd.op \in Clears /\ rd.key \in Content /\ map' = Drop(map, rd.key)
    BY <1>6, UseIs, Zenon
  <2>2. Content' = Content \ {rd.key} /\ IsFiniteSet(Content)
    BY <1>1, <2>1, DropTabled, Zenon DEF Tabled
  <2>3. Cardinality(Content') < Cardinality(Content)
    BY <2>1, <2>2, Smaller, Zenon
  <2>4. Work = Cardinality(Content) /\ Work' = Cardinality(Content') /\ Phase' = 2
    BY <1>1, <1>2, <1>6, <2>1 DEF Work, Phase, Batches, Clears
  <2> QED BY <1>3, <2>3, <2>4, Zenon DEF Closer
<1> QED BY <1>4, <1>5, <1>6, Zenon

\* The assignments of zero.
LEMMA SetZeroCloser ==
  ASSUME Typed, SetZero
  PROVE  Closer
<1>1. rd.pc = "set" /\ rd.list \in Seq(Keys)
  BY SetZeroIs, Zenon DEF Typed, Readers
<1>2. Phase = 1 /\ Work = Len(rd.list)
  BY <1>1, Zenon DEF Phase, Work
<1>3. CASE rd'.pc \in {"returned", "raised"}
  <2>1. Phase' = 0
    BY <1>3, Zenon DEF Phase
  <2> QED BY <1>2, <2>1 DEF Closer
<1>4. CASE rd.list # <<>> /\ rd'.pc = "set" /\ rd'.list = Tail(rd.list)
  <2>1. Len(Tail(rd.list)) < Len(rd.list)
    BY <1>1, <1>4
  <2>2. Phase' = 1 /\ Work' = Len(Tail(rd.list))
    BY <1>4, Zenon DEF Phase, Work
  <2> QED BY <1>2, <2>1, <2>2, Zenon DEF Closer
<1> QED BY <1>3, <1>4, SetZeroIs, Zenon

\* A batch and its buckets.
LEMMA BatchCloser ==
  ASSUME Tabled, Typed, Counting, BatchCall \/ BatchBucket \/ BatchDone
  PROVE  Closer
<1>0. NBuckets \in Nat /\ MaxEntries \in Nat
  BY TableIterAssumption, Zenon
<1>1. rd.op \in Batches /\ rd'.op = rd.op /\ rd \in Readers /\ rd' \in Readers
  <2>1. rd \in Readers
    BY Zenon DEF Typed
  <2>2. CASE BatchCall
    BY <2>1, <2>2, BatchCallIs, Zenon
  <2>3. CASE BatchBucket
    BY <2>1, <2>3, BatchBucketIs, Zenon
  <2>4. CASE BatchDone
    BY <2>1, <2>4, BatchDoneIs, Zenon
  <2> QED BY <2>2, <2>3, <2>4, Zenon
<1>2. CASE BatchCall
  <2>1. rd.pc = "batch" /\ rd'.pc = "bucket" /\ rd'.total = rd.total /\ rd'.cur \in Nat
    BY <1>1, <1>2, BatchCallIs, Zenon DEF Readers
  <2>2. Phase = 2 /\ Phase' = 2
    BY <2>1, Zenon DEF Phase
  <2>3. Work' = Work
    BY <1>1, <2>1, Zenon DEF Work, Batches
  <2>4. Turn = NBuckets + 2 /\ Turn' = IF rd'.cur < NBuckets THEN NBuckets - rd'.cur + 1 ELSE 1
    BY <2>1, Zenon DEF Turn
  <2>5. Turn' < Turn
    BY <1>0, <2>1, <2>4
  <2> QED BY <2>2, <2>3, <2>5 DEF Closer
<1>3. CASE BatchBucket
  <2>1. rd.pc = "bucket" /\ rd.cur \in Nat /\ rd'.total = rd.total
    BY <1>3, BatchBucketIs, Zenon
  <2>2. \/ rd'.pc \in {"ENOENT", "ENOSPC", "more"}
        \/ rd'.pc = "bucket" /\ rd.cur \in Buckets /\ rd'.cur = rd.cur + 1
    BY <1>3, BatchBucketIs, Zenon
  <2>3. Phase = 2 /\ Phase' = 2
    BY <2>1, <2>2, Zenon DEF Phase
  <2>4. Work' = Work
    BY <1>1, <2>1, <2>2 DEF Work, Batches
  <2>5. Turn = IF rd.cur < NBuckets THEN NBuckets - rd.cur + 1 ELSE 1
    BY <2>1, Zenon DEF Turn
  <2>6. CASE rd'.pc \in {"ENOENT", "ENOSPC", "more"}
    <3>1. Turn' = 0
      BY <2>6, Zenon DEF Turn
    <3>2. Turn > 0
      BY <1>0, <2>1, <2>5
    <3> QED BY <2>3, <2>4, <3>1, <3>2 DEF Closer
  <2>7. CASE rd'.pc = "bucket" /\ rd.cur \in Buckets /\ rd'.cur = rd.cur + 1
    <3>1. Turn' = IF rd'.cur < NBuckets THEN NBuckets - rd'.cur + 1 ELSE 1
      BY <2>7, Zenon DEF Turn
    <3>2. Turn' < Turn
      BY <1>0, <2>1, <2>5, <2>7, <3>1 DEF Buckets
    <3> QED BY <2>3, <2>4, <3>2, Zenon DEF Closer
  <2> QED BY <2>2, <2>6, <2>7
<1>4. CASE BatchDone
  <2>1. /\ rd.pc \in {"ENOENT", "ENOSPC", "more"} /\ rd'.total = rd.total + rd.cnt
        /\ rd'.pc \in {"raised", "returned", "batch"} /\ rd.total \in Nat /\ rd.cnt \in Nat
    BY <1>1, <1>4, BatchDoneIs DEF Readers
  <2>2. Phase = 2
    BY <2>1 DEF Phase
  <2>3. CASE rd'.pc \in {"raised", "returned"}
    <3>1. Phase' = 0
      BY <2>3, Zenon DEF Phase
    <3> QED BY <2>2, <3>1 DEF Closer
  <2>4. CASE rd'.pc = "batch"
    <3>1. rd.cnt # 0
      BY <1>1, <1>4, <2>4, Zenon DEF BatchDone, Readers
    <3>2. Work = MaxEntries - rd.total /\ Work' = MaxEntries - rd'.total /\ Phase' = 2
      BY <1>1, <2>1, <2>4 DEF Work, Phase, Batches
    <3>3. Work' < Work
      BY <1>0, <2>1, <3>1, <3>2
    <3> QED BY <2>2, <3>2, <3>3, Zenon DEF Closer
  <2> QED BY <2>1, <2>3, <2>4
<1> QED BY <1>2, <1>3, <1>4, Zenon

\* For any keys, buckets and max_entries and in whatever state the programs' writes
\* have left the table, every step of a call of get_table_offline, the clear calls,
\* items, zero or the batch calls leaves less of it: only their writes can make a call
\* go on.
THEOREM GetsOnHolds == Spec => GetsOn
<1>1. IInv /\ [Next]_vars =>
        [Step => /\ Work \in Nat /\ Turn \in Nat
                 /\ \/ Phase' < Phase
                    \/ Phase' = Phase /\ (Work' < Work \/ (Work' = Work /\ Turn' < Turn))]_vars
  <2> SUFFICES ASSUME IInv, Step PROVE Work \in Nat /\ Turn \in Nat /\ Closer
    BY Zenon DEF Closer
  <2>1. Tabled /\ Typed /\ Counting
    BY Zenon DEF IInv
  <2>2. Closer
    BY <2>1, AdvanceCloser, UseCloser, SetZeroCloser, BatchCloser DEF Step
  <2> QED BY <2>1, <2>2, LeftType, Zenon
<1> QED BY <1>1, IInvHolds, PTL DEF Spec, GetsOn
=============================================================================
