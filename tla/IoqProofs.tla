----------------------------- MODULE IoqProofs ------------------------------
(***************************************************************************)
(* Proofs about the I/O queue (module Ioq).                                *)
(***************************************************************************)
EXTENDS Ioq, SequenceTheorems, TLAPS

-----------------------------------------------------------------------------
(***************************************************************************)
(* Lemmas about the list operations of the queue.                          *)
(***************************************************************************)

\* InsertTailList: the elements grow by the new one, without repetition if it
\* was not there.
LEMMA AppendElements ==
  ASSUME NEW S, NEW s \in Seq(S), NEW e \in S
  PROVE  /\ Append(s, e) \in Seq(S) /\ Append(s, e) # <<>>
         /\ ToSet(Append(s, e)) = ToSet(s) \cup {e}
         /\ IsInjective(s) /\ e \notin ToSet(s) => IsInjective(Append(s, e))
<1> DEFINE w == Append(s, e)
           n == Len(s)
<1>1. /\ w \in Seq(S) /\ w # <<>> /\ n \in Nat
      /\ DOMAIN s = 1 .. n /\ DOMAIN w = 1 .. (n + 1)
      /\ w[n + 1] = e /\ \A i \in 1 .. n : w[i] = s[i]
  OBVIOUS
<1> HIDE DEF w, n
<1>2. ToSet(w) = ToSet(s) \cup {e}
  <2>1. ToSet(w) \subseteq ToSet(s) \cup {e}
    BY <1>1 DEF ToSet
  <2>2. ToSet(s) \subseteq ToSet(w) /\ e \in ToSet(w)
    BY <1>1 DEF ToSet
  <2>3. QED
    BY <2>1, <2>2
<1>3. IsInjective(s) /\ e \notin ToSet(s) => IsInjective(w)
  BY <1>1 DEF IsInjective, ToSet
<1>4. QED
  BY <1>1, <1>2, <1>3 DEF w

\* InsertHeadList.
LEMMA ConsElements ==
  ASSUME NEW S, NEW s \in Seq(S), NEW e \in S
  PROVE  /\ Cons(e, s) \in Seq(S) /\ Cons(e, s) # <<>>
         /\ ToSet(Cons(e, s)) = ToSet(s) \cup {e}
         /\ IsInjective(s) /\ e \notin ToSet(s) => IsInjective(Cons(e, s))
<1> DEFINE w == Cons(e, s)
           n == Len(s)
<1>1. /\ w \in Seq(S) /\ w # <<>> /\ n \in Nat
      /\ DOMAIN s = 1 .. n /\ DOMAIN w = 1 .. (n + 1)
      /\ w[1] = e /\ \A i \in 2 .. (n + 1) : w[i] = s[i - 1]
  BY DEF Cons
<1> HIDE DEF w, n
<1>2. ToSet(w) = ToSet(s) \cup {e}
  <2>1. ASSUME NEW i \in 1 .. (n + 1)
        PROVE  w[i] \in ToSet(s) \cup {e}
    <3>1. CASE i = 1
      BY <3>1, <1>1
    <3>2. CASE i # 1
      <4>1. i \in 2 .. (n + 1) /\ (i - 1) \in 1 .. n
        BY <3>2, <1>1
      <4>2. QED
        BY <4>1, <1>1 DEF ToSet
    <3>3. QED
      BY <3>1, <3>2
  <2>2. ASSUME NEW i \in 1 .. n
        PROVE  s[i] \in ToSet(w)
    <3>1. (i + 1) \in 2 .. (n + 1) /\ w[i + 1] = s[(i + 1) - 1]
      BY <1>1
    <3>2. QED
      BY <3>1, <1>1 DEF ToSet
  <2>3. e \in ToSet(w)
    BY <1>1 DEF ToSet
  <2>4. QED
    BY <2>1, <2>2, <2>3, <1>1 DEF ToSet
<1>3. ASSUME IsInjective(s), e \notin ToSet(s)
      PROVE  IsInjective(w)
  <2>1. \A i \in 2 .. (n + 1) : (i - 1) \in 1 .. n /\ w[i] # e
    <3>1. \A i \in 1 .. n : s[i] # e
      BY <1>1, <1>3 DEF ToSet
    <3>2. QED
      BY <1>1, <3>1
  <2>2. \A i, j \in 2 .. (n + 1) : w[i] = w[j] => i - 1 = j - 1
    <3>1. \A i, j \in 1 .. n : s[i] = s[j] => i = j
      BY <1>1, <1>3 DEF IsInjective
    <3>2. SUFFICES ASSUME NEW i \in 2 .. (n + 1), NEW j \in 2 .. (n + 1), w[i] = w[j]
                   PROVE  i - 1 = j - 1
      OBVIOUS
    <3>3. (i - 1) \in 1 .. n /\ (j - 1) \in 1 .. n /\ s[i - 1] = s[j - 1]
      BY <1>1, <2>1, <3>2
    <3>4. QED
      BY <3>1, <3>3
  <2>3. \A i \in 1 .. (n + 1) : i = 1 \/ i \in 2 .. (n + 1)
    BY <1>1
  <2>4. ASSUME NEW i \in 1 .. (n + 1), NEW j \in 1 .. (n + 1), w[i] = w[j]
        PROVE  i = j
    BY <1>1, <2>1, <2>2, <2>3, <2>4
  <2>5. QED
    BY <2>4, <1>1 DEF IsInjective
<1>4. QED
  BY <1>1, <1>2, <1>3 DEF w

\* RemoveEntryList of the first entry.
LEMMA TailElements ==
  ASSUME NEW S, NEW s \in Seq(S), s # <<>>
  PROVE  /\ Head(s) \in S /\ Head(s) \in ToSet(s)
         /\ Tail(s) \in Seq(S)
         /\ IsInjective(s) => /\ IsInjective(Tail(s))
                              /\ ToSet(Tail(s)) = ToSet(s) \ {Head(s)}
<1> DEFINE w == Tail(s)
           n == Len(s)
<1>1. /\ w \in Seq(S) /\ n \in Nat \ {0}
      /\ DOMAIN s = 1 .. n /\ DOMAIN w = 1 .. (n - 1)
      /\ Head(s) = s[1] /\ s[1] \in S
      /\ \A i \in 1 .. (n - 1) : w[i] = s[i + 1]
  OBVIOUS
<1> HIDE DEF w, n
<1>2. Head(s) \in ToSet(s)
  BY <1>1 DEF ToSet
<1>3. ASSUME IsInjective(s)
      PROVE  IsInjective(w) /\ ToSet(w) = ToSet(s) \ {Head(s)}
  <2>1. IsInjective(w)
    <3>1. ASSUME NEW i \in 1 .. (n - 1), NEW j \in 1 .. (n - 1), w[i] = w[j]
          PROVE  i = j
      <4>1. (i + 1) \in 1 .. n /\ (j + 1) \in 1 .. n
        BY <1>1
      <4>2. s[i + 1] = s[j + 1]
        BY <3>1, <1>1
      <4>3. \A k, l \in 1 .. n : s[k] = s[l] => k = l
        BY <1>1, <1>3 DEF IsInjective
      <4>4. i + 1 = j + 1
        BY <4>1, <4>2, <4>3
      <4>5. QED
        BY <4>4
    <3>2. QED
      BY <3>1, <1>1 DEF IsInjective
  <2>2. ToSet(w) \subseteq ToSet(s) \ {Head(s)}
    BY <1>1, <1>3, SMTT(30) DEF IsInjective, ToSet
  <2>3. ASSUME NEW i \in 1 .. n, s[i] # Head(s)
        PROVE  s[i] \in ToSet(w)
    <3>1. (i - 1) \in 1 .. (n - 1) /\ w[i - 1] = s[(i - 1) + 1]
      BY <1>1, <2>3
    <3>2. QED
      BY <3>1, <1>1 DEF ToSet
  <2>4. ToSet(s) \ {Head(s)} \subseteq ToSet(w)
    BY <2>3, <1>1 DEF ToSet
  <2>5. QED
    BY <2>1, <2>2, <2>4
<1>4. QED
  BY <1>1, <1>2, <1>3 DEF w

\* RemoveEntryList of any entry.
LEMMA WithoutElements ==
  ASSUME NEW S, NEW s \in Seq(S), NEW e \in ToSet(s)
  PROVE  /\ Position(s, e) \in DOMAIN s /\ s[Position(s, e)] = e
         /\ Without(s, e) \in Seq(S)
         /\ Len(Without(s, e)) = Len(s) - 1
         /\ \A i \in 1 .. (Len(s) - 1) :
              Without(s, e)[i] = IF i < Position(s, e) THEN s[i] ELSE s[i + 1]
<1> DEFINE k == Position(s, e)
           a == SubSeq(s, 1, k - 1)
           b == SubSeq(s, k + 1, Len(s))
<1>1. k \in DOMAIN s /\ s[k] = e
  <2>1. \E i \in DOMAIN s : s[i] = e
    BY DEF ToSet
  <2>2. QED
    BY <2>1 DEF Position
<1>2. k \in 1 .. Len(s) /\ Len(s) \in Nat
  BY <1>1
<1> HIDE DEF k
<1>3. a \in Seq(S) /\ Len(a) = k - 1 /\ \A i \in 1 .. (k - 1) : a[i] = s[i]
  BY <1>2
<1>4. /\ b \in Seq(S) /\ Len(b) = Len(s) - k
      /\ \A i \in 1 .. (Len(s) - k) : b[i] = s[i + k]
  BY <1>2
<1> HIDE DEF a, b
<1>5. /\ a \o b \in Seq(S)
      /\ Len(a \o b) = Len(s) - 1
      /\ \A i \in 1 .. (Len(s) - 1) :
           (a \o b)[i] = IF i < k THEN a[i] ELSE b[i - (k - 1)]
  <2>1. /\ a \o b \in Seq(S) /\ Len(a \o b) = Len(a) + Len(b)
        /\ \A i \in 1 .. Len(a) + Len(b) : (a \o b)[i] = IF i <= Len(a) THEN a[i] ELSE b[i - Len(a)]
    <3>1. a \in Seq(S) /\ b \in Seq(S)
      BY <1>3, <1>4
    <3> QED
      BY ONLY <3>1, ConcatProperties
  <2>2. PICK c : c = a \o b
    OBVIOUS
  <2>3. Len(a) = k - 1 /\ Len(a) + Len(b) = Len(s) - 1
    BY <1>2, <1>3, <1>4
  <2>4. \A i \in 1 .. (Len(s) - 1) : c[i] = IF i < k THEN a[i] ELSE b[i - (k - 1)]
    BY <1>2, <2>1, <2>2, <2>3
  <2> QED
    BY <2>1, <2>2, <2>3, <2>4
<1>6. ASSUME NEW i \in 1 .. (Len(s) - 1)
      PROVE  (a \o b)[i] = IF i < k THEN s[i] ELSE s[i + 1]
  <2>1. CASE i < k
    BY <2>1, <1>2, <1>3, <1>5
  <2>2. CASE ~(i < k)
    <3>1. (i - (k - 1)) \in 1 .. (Len(s) - k)
      BY <2>2, <1>2
    <3>2. b[i - (k - 1)] = s[(i - (k - 1)) + k]
      BY <3>1, <1>4
    <3>3. (i - (k - 1)) + k = i + 1
      BY <1>2
    <3>4. QED
      BY <2>2, <3>2, <3>3, <1>5
  <2>3. QED
    BY <2>1, <2>2
<1>7. Without(s, e) = a \o b
  BY DEF Without, RemoveAt, a, b, k
<1>8. QED
  BY <1>1, <1>5, <1>6, <1>7 DEF k

\* ... whose elements, if there were no repetitions, lose exactly that entry.
LEMMA WithoutInjective ==
  ASSUME NEW S, NEW s \in Seq(S), NEW e \in ToSet(s), IsInjective(s)
  PROVE  /\ IsInjective(Without(s, e))
         /\ ToSet(Without(s, e)) = ToSet(s) \ {e}
<1> DEFINE k == Position(s, e)
           w == Without(s, e)
<1>1. /\ k \in 1 .. Len(s) /\ s[k] = e /\ Len(s) \in Nat
      /\ w \in Seq(S) /\ Len(w) = Len(s) - 1
      /\ \A i \in 1 .. (Len(s) - 1) : w[i] = IF i < k THEN s[i] ELSE s[i + 1]
  BY WithoutElements
<1>2. DOMAIN w = 1 .. (Len(s) - 1) /\ DOMAIN s = 1 .. Len(s)
  BY <1>1
<1> HIDE DEF k, w
<1>3. \A i, j \in 1 .. Len(s) : s[i] = s[j] => i = j
  BY <1>2 DEF IsInjective
<1>4. IsInjective(w)
  BY <1>1, <1>2, <1>3 DEF IsInjective
<1>5. ToSet(w) \subseteq ToSet(s) \ {e}
  BY <1>1, <1>2, <1>3 DEF ToSet
<1>6. ASSUME NEW x \in ToSet(s) \ {e}
      PROVE  x \in ToSet(w)
  <2>1. PICK i \in 1 .. Len(s) : s[i] = x
    BY <1>2 DEF ToSet
  <2>2. i # k
    BY <2>1, <1>1
  <2>3. CASE i < k
    BY <2>1, <2>3, <1>1, <1>2, SMTT(30) DEF ToSet
  <2>4. CASE i > k
    <3>1. (i - 1) \in 1 .. (Len(s) - 1) /\ ~(i - 1 < k)
      BY <2>4, <1>1
    <3>2. w[i - 1] = s[(i - 1) + 1]
      BY <3>1, <1>1
    <3>3. QED
      BY <3>1, <3>2, <2>1, <1>2 DEF ToSet
  <2>5. QED
    BY <2>2, <2>3, <2>4, <1>1
<1>7. QED
  BY <1>4, <1>5, <1>6 DEF w

\* Unlinking an entry from a bucket: its predecessor, if any, takes over its
\* successor, and the rest of the chain stays linked.
LEMMA UnlinkChain ==
  ASSUME NEW c \in Seq(Ext), IsInjective(c), NEW e \in ToSet(c),
         NEW h \in [Ext -> Ext \cup {NULL}], Linked(c, h),
         NEW g \in [Ext -> Ext \cup {NULL}],
         \A x \in Ext \ {e} :
           g[x] = IF Position(c, e) # 1 /\ x = c[Position(c, e) - 1]
                  THEN h[e] ELSE h[x]
  PROVE  Linked(Without(c, e), g)
<1> DEFINE k == Position(c, e)
           w == Without(c, e)
           n == Len(c)
<1>1. /\ k \in 1 .. n /\ c[k] = e /\ n \in Nat
      /\ w \in Seq(Ext) /\ Len(w) = n - 1
      /\ \A i \in 1 .. (n - 1) : w[i] = IF i < k THEN c[i] ELSE c[i + 1]
  BY WithoutElements
<1>2. DOMAIN w = 1 .. (n - 1) /\ DOMAIN c = 1 .. n
  BY <1>1
<1>3. \A i, j \in 1 .. n : c[i] = c[j] => i = j
  BY <1>2 DEF IsInjective
<1>4. \A i \in 1 .. n : c[i] \in Ext /\ h[c[i]] = IF i = n THEN NULL ELSE c[i + 1]
  <2>1. \A i \in 1 .. n : c[i] \in Ext
    BY ElementOfSeq
  <2>2. \A i \in 1 .. n : h[c[i]] = IF i = n THEN NULL ELSE c[i + 1]
    BY <1>2, Zenon DEF Linked
  <2>3. QED
    BY <2>1, <2>2
<1>5. \A x \in Ext \ {e} : g[x] = IF k # 1 /\ x = c[k - 1] THEN h[e] ELSE h[x]
  OBVIOUS
<1> HIDE DEF k, w, n
<1>6. ASSUME NEW i \in 1 .. (n - 1)
      PROVE  g[w[i]] = IF i = n - 1 THEN NULL ELSE w[i + 1]
  <2>1. CASE i < k - 1
    <3>1. /\ i \in 1 .. n /\ i # k /\ k # 1 /\ k - 1 \in 1 .. n /\ i # k - 1
          /\ i + 1 \in 1 .. (n - 1) /\ i + 1 < k /\ i < k /\ i # n
      BY <2>1, <1>1
    <3>2. w[i] = c[i] /\ w[i + 1] = c[i + 1]
      BY <3>1, <1>1
    <3>3. c[i] # e /\ c[i] # c[k - 1] /\ c[i] \in Ext
      BY <3>1, <1>1, <1>3, <1>4
    <3>4. g[c[i]] = h[c[i]]
      BY <3>3, <1>5
    <3>5. h[c[i]] = c[i + 1]
      BY <3>1, <1>4
    <3>6. i # n - 1
      BY <3>1, <1>1
    <3>7. QED
      BY <3>2, <3>4, <3>5, <3>6
  <2>2. CASE i = k - 1
    <3>1. i \in 1 .. n /\ i # k /\ k # 1 /\ i < k
      BY <2>2, <1>1
    <3>2. w[i] = c[k - 1] /\ c[k - 1] # e /\ c[k - 1] \in Ext
      BY <3>1, <2>2, <1>1, <1>3, <1>4
    <3>3. g[w[i]] = h[e]
      BY <3>1, <3>2, <1>5
    <3>4. h[e] = IF k = n THEN NULL ELSE c[k + 1]
      BY <1>1, <1>4
    <3>5. k # n => w[k] = c[k + 1]
      BY <1>1
    <3>6. i + 1 = k /\ (i = n - 1 <=> k = n)
      BY <2>2, <1>1
    <3>7. QED
      BY <3>3, <3>4, <3>5, <3>6
  <2>3. CASE i > k - 1
    <3>1. /\ ~(i < k) /\ i + 1 \in 1 .. n /\ i + 1 # k
          /\ (k # 1 => k - 1 \in 1 .. n /\ i + 1 # k - 1)
      BY <2>3, <1>1
    <3>2. w[i] = c[i + 1]
      BY <3>1, <1>1
    <3>3. c[i + 1] # e /\ c[i + 1] \in Ext /\ (k # 1 => c[i + 1] # c[k - 1])
      BY <3>1, <1>1, <1>3, <1>4
    <3>4. g[c[i + 1]] = h[c[i + 1]]
      BY <3>3, <1>5
    <3>5. h[c[i + 1]] = IF i + 1 = n THEN NULL ELSE c[(i + 1) + 1]
      BY <3>1, <1>4
    <3>6. i + 1 # n => w[i + 1] = c[(i + 1) + 1]
      BY <3>1, <1>1
    <3>7. (i = n - 1) <=> (i + 1 = n)
      BY <1>1
    <3>8. QED
      BY <3>2, <3>4, <3>5, <3>6, <3>7
  <2>4. QED
    BY <2>1, <2>2, <2>3, <1>1
<1>7. QED
  BY <1>1, <1>2, <1>6 DEF Linked, w

\* Pushing an entry onto a bucket.
LEMMA PushChain ==
  ASSUME NEW c \in Seq(Ext), NEW e \in Ext \ ToSet(c),
         NEW h \in [Ext -> Ext \cup {NULL}], Linked(c, h)
  PROVE  Linked(Cons(e, c),
                [h EXCEPT ![e] = IF c = <<>> THEN NULL ELSE Head(c)])
<1> DEFINE w == Cons(e, c)
           n == Len(c)
           g == [h EXCEPT ![e] = IF c = <<>> THEN NULL ELSE Head(c)]
<1>1. /\ w \in Seq(Ext) /\ n \in Nat /\ Len(w) = n + 1
      /\ DOMAIN c = 1 .. n /\ DOMAIN w = 1 .. (n + 1)
      /\ w[1] = e /\ \A i \in 2 .. (n + 1) : w[i] = c[i - 1]
  BY DEF Cons
<1>2. \A i \in 1 .. n : c[i] \in Ext /\ c[i] # e
                        /\ h[c[i]] = IF i = n THEN NULL ELSE c[i + 1]
  <2>1. \A i \in 1 .. n : c[i] \in Ext
    BY ElementOfSeq
  <2>2. \A i \in 1 .. n : c[i] # e
    BY <1>1 DEF ToSet
  <2>3. \A i \in 1 .. n : h[c[i]] = IF i = n THEN NULL ELSE c[i + 1]
    BY <1>1, Zenon DEF Linked
  <2>4. QED
    BY <2>1, <2>2, <2>3
<1>3. g[e] = (IF c = <<>> THEN NULL ELSE Head(c)) /\ \A x \in Ext \ {e} : g[x] = h[x]
  OBVIOUS
<1>4. (c = <<>> <=> n = 0) /\ (c # <<>> => Head(c) = c[1])
  OBVIOUS
<1> HIDE DEF w, n, g
<1>5. ASSUME NEW i \in 1 .. (n + 1)
      PROVE  g[w[i]] = IF i = n + 1 THEN NULL ELSE w[i + 1]
  <2>1. CASE i = 1
    <3>1. n # 0 => w[2] = c[1]
      BY <1>1
    <3>2. QED
      BY <2>1, <3>1, <1>1, <1>3, <1>4
  <2>2. CASE i # 1
    <3>1. i \in 2 .. (n + 1) /\ i - 1 \in 1 .. n
      BY <2>2, <1>1
    <3>2. w[i] = c[i - 1]
      BY <3>1, <1>1
    <3>3. g[c[i - 1]] = IF i - 1 = n THEN NULL ELSE c[(i - 1) + 1]
      BY <3>1, <1>2, <1>3
    <3>4. i # n + 1 => w[i + 1] = c[(i - 1) + 1]
      BY <3>1, <1>1
    <3>5. i = n + 1 <=> i - 1 = n
      BY <3>1, <1>1
    <3>6. QED
      BY <3>2, <3>3, <3>4, <3>5
  <2>3. QED
    BY <2>1, <2>2
<1>6. QED
  BY <1>1, <1>5 DEF Linked, w, g

-----------------------------------------------------------------------------
(***************************************************************************)
(* The inductive invariant.                                                *)
(***************************************************************************)

\* No chunk starts beyond the end of its transfer.
ChunkInRange == \A e \in Ext : ChunkOffset[e] <= SystemDataLength[e]

IInv ==
  /\ TypeOK
  /\ ChunkInRange
  /\ CompletedOnce
  /\ QueuedExactlyPending
  /\ BucketsIndexProcessList

\* A response finds its extension in a bucket iff the SRB is being processed.
LEMMA InBucketIffProcessing ==
  ASSUME IInv, NEW e \in Ext
  PROVE  InBucket(e) <=> e \in ProcessList
<1>1. Hash[e] \in Bucket
  BY ConstantAssumption
<1>2. ToSet(ProcessBuckets[Hash[e]]) = {x \in ProcessList : Hash[x] = Hash[e]}
  BY <1>1 DEF IInv, BucketsIndexProcessList
<1>3. QED
  BY <1>2 DEF InBucket, Chain

\* An extension Storport may use for a new SRB is on no list.
LEMMA FreeExtNotQueued ==
  ASSUME IInv, NEW e \in Ext, e \notin ExtInUse
  PROVE  e \notin Queued
BY DEF IInv, QueuedExactlyPending, ExtInUse

\* What happens to the buckets when e leaves its bucket: g is HashNext after
\* the step, which may also have reset the field of e itself.
LEMMA BucketsAfterUnlink ==
  ASSUME IInv, NEW e \in Ext, InBucket(e),
         NEW g \in [Ext -> Ext \cup {NULL}],
         \A x \in Ext \ {e} : g[x] = HashNextWithout(e)[x]
  PROVE  /\ BucketsWithout(e) \in [Bucket -> Seq(Ext)]
         /\ \A b \in Bucket :
              LET c == BucketsWithout(e)[b]
              IN  /\ ToSet(c) = {x \in ProcessList \ {e} : Hash[x] = b}
                  /\ IsInjective(c)
                  /\ Linked(c, g)
<1> DEFINE d == Chain(e)
           k == Position(d, e)
<1>1. /\ ProcessBuckets \in [Bucket -> Seq(Ext)] /\ Hash \in [Ext -> Bucket]
      /\ HashNext \in [Ext -> Ext \cup {NULL}]
  BY ConstantAssumption DEF IInv, TypeOK
<1>2. \A b \in Bucket :
        /\ ToSet(ProcessBuckets[b]) = {x \in ProcessList : Hash[x] = b}
        /\ IsInjective(ProcessBuckets[b])
        /\ Linked(ProcessBuckets[b], HashNext)
  BY DEF IInv, BucketsIndexProcessList
<1>3. /\ d \in Seq(Ext) /\ IsInjective(d) /\ Linked(d, HashNext) /\ e \in ToSet(d)
      /\ ToSet(d) = {x \in ProcessList : Hash[x] = Hash[e]}
  BY <1>1, <1>2 DEF Chain, InBucket
<1>4. /\ k \in DOMAIN d /\ Without(d, e) \in Seq(Ext)
      /\ IsInjective(Without(d, e)) /\ ToSet(Without(d, e)) = ToSet(d) \ {e}
  BY <1>3, WithoutElements, WithoutInjective
<1>5. \A x \in Ext \ {e} :
        g[x] = IF k # 1 /\ x = d[k - 1] THEN HashNext[e] ELSE HashNext[x]
  BY <1>1 DEF HashNextWithout
<1>6. /\ BucketsWithout(e)[Hash[e]] = Without(d, e)
      /\ \A b \in Bucket \ {Hash[e]} : BucketsWithout(e)[b] = ProcessBuckets[b]
      /\ BucketsWithout(e) \in [Bucket -> Seq(Ext)]
  BY <1>1, <1>4 DEF BucketsWithout, Chain
<1> HIDE DEF d
<1>7. Linked(Without(d, e), g)
  <2>1. HashNext \in [Ext -> Ext \cup {NULL}]
    BY <1>1
  <2>2. QED
    BY <2>1, <1>3, <1>5, UnlinkChain
<1>8. k # 1 => d[k - 1] \in ToSet(d)
  <2>1. k # 1 => k - 1 \in DOMAIN d
    BY <1>3, <1>4
  <2>2. QED
    BY <2>1 DEF ToSet
<1> HIDE DEF k
<1>9. ASSUME NEW b \in Bucket \ {Hash[e]}
      PROVE  /\ ToSet(ProcessBuckets[b]) = {x \in ProcessList \ {e} : Hash[x] = b}
             /\ IsInjective(ProcessBuckets[b])
             /\ Linked(ProcessBuckets[b], g)
  <2>1. ToSet(ProcessBuckets[b]) = {x \in ProcessList \ {e} : Hash[x] = b}
    BY <1>2, <1>9
  <2>2. \A i \in DOMAIN ProcessBuckets[b] :
          ProcessBuckets[b][i] \in Ext /\ g[ProcessBuckets[b][i]] = HashNext[ProcessBuckets[b][i]]
    <3>1. SUFFICES ASSUME NEW i \in DOMAIN ProcessBuckets[b]
                   PROVE  /\ ProcessBuckets[b][i] \in Ext
                          /\ g[ProcessBuckets[b][i]] = HashNext[ProcessBuckets[b][i]]
      OBVIOUS
    <3> DEFINE y == ProcessBuckets[b][i]
    <3>2. y \in {x \in ProcessList \ {e} : Hash[x] = b}
      BY <2>1 DEF ToSet
    <3>3. y \in Ext \ {e} /\ y \notin ToSet(d)
      BY <3>2, <1>3, <1>9 DEF IInv, TypeOK
    <3>4. QED
      BY <3>3, <1>5, <1>8
  <2>3. Linked(ProcessBuckets[b], g)
    BY <2>2, <1>2, Zenon DEF Linked
  <2>4. QED
    BY <2>1, <2>3, <1>2
<1>10. ASSUME NEW b \in Bucket
       PROVE  /\ ToSet(BucketsWithout(e)[b]) = {x \in ProcessList \ {e} : Hash[x] = b}
              /\ IsInjective(BucketsWithout(e)[b])
              /\ Linked(BucketsWithout(e)[b], g)
  <2>1. CASE b = Hash[e]
    <3>1. ToSet(Without(d, e)) = {x \in ProcessList \ {e} : Hash[x] = b}
      BY <2>1, <1>3, <1>4
    <3>2. QED
      BY <3>1, <2>1, <1>4, <1>7, <1>6
  <2>2. CASE b # Hash[e]
    BY <2>2, <1>6, <1>9
  <2>3. QED
    BY <2>1, <2>2
<1>11. QED
  BY <1>6, <1>10

\* Zeroing the extension of an SRB that is not being processed disturbs no
\* bucket.
LEMMA ResetHashNext ==
  ASSUME IInv, NEW e \in Ext \ ProcessList,
         ProcessBuckets' = ProcessBuckets, ProcessList' = ProcessList,
         HashNext' = [HashNext EXCEPT ![e] = NULL]
  PROVE  BucketsIndexProcessList'
<1>1. ASSUME NEW b \in Bucket
      PROVE  /\ ToSet(ProcessBuckets[b]) = {x \in ProcessList : Hash[x] = b}
             /\ IsInjective(ProcessBuckets[b])
             /\ Linked(ProcessBuckets[b], HashNext')
  <2>1. /\ ToSet(ProcessBuckets[b]) = {x \in ProcessList : Hash[x] = b}
        /\ IsInjective(ProcessBuckets[b])
        /\ Linked(ProcessBuckets[b], HashNext)
    BY DEF IInv, BucketsIndexProcessList
  <2>2. \A i \in DOMAIN ProcessBuckets[b] :
          HashNext'[ProcessBuckets[b][i]] = HashNext[ProcessBuckets[b][i]]
    BY <2>1 DEF ToSet, IInv, TypeOK
  <2>3. Linked(ProcessBuckets[b], HashNext')
    BY <2>1, <2>2, Zenon DEF Linked
  <2>4. QED
    BY <2>1, <2>3
<1>2. QED
  BY <1>1 DEF BucketsIndexProcessList

\* Steps that leave lists, buckets, extensions and SRB's alone.
LEMMA FrameStep ==
  ASSUME IInv,
         UNCHANGED <<PendingList, ProcessList, ProcessBuckets, extVars, srbVars,
                     acked>>,
         Stopped' \in BOOLEAN, PendingEvent' \in BOOLEAN,
         pc' \in [Thread -> {"user", "waiting", "woken", "check", "gone"}],
         owed' \in SUBSET Request
  PROVE  IInv'
<1>1. TypeOK'
  BY DEF IInv, TypeOK, extVars, srbVars
<1>2. ChunkInRange' /\ CompletedOnce'
  BY DEF IInv, ChunkInRange, CompletedOnce, extVars, srbVars
<1>3. QueuedExactlyPending'
  BY DEF IInv, QueuedExactlyPending, Queued, extVars, srbVars
<1>4. BucketsIndexProcessList'
  BY DEF IInv, BucketsIndexProcessList, extVars
<1>5. QED
  BY <1>1, <1>2, <1>3, <1>4 DEF IInv

\* SpdIoqPostSrb of a new SRB.
LEMMA PostSrbStep ==
  ASSUME IInv, NEW s \in Srb, NEW e \in Ext, NEW len \in DataLength,
         PostSrb(s, e, len)
  PROVE  IInv'
<1> USE DEF ZeroExtension, ZeroOffset, SetSrb, InsertTail
<1>1. e \notin Queued
  BY FreeExtNotQueued DEF PostSrb
<1>2. /\ PendingList' \in Seq(Ext)
      /\ ToSet(PendingList') = ToSet(PendingList) \cup {e}
      /\ IsInjective(PendingList')
  BY <1>1, AppendElements DEF PostSrb, IInv, TypeOK, QueuedExactlyPending, Queued
<1>3. len \in Nat
  BY ConstantAssumption
<1>4. TypeOK'
  BY <1>2, <1>3 DEF PostSrb, IInv, TypeOK, userVars
<1>5. ChunkInRange'
  BY <1>3 DEF PostSrb, IInv, TypeOK, ChunkInRange
<1>6. CompletedOnce'
  BY DEF PostSrb, IInv, TypeOK, CompletedOnce, Final
<1>7. QueuedExactlyPending'
  <2>1. Queued' = Queued \cup {e} /\ ProcessList' = ProcessList
    BY <1>2 DEF PostSrb, Queued
  <2>2. \A x \in Srb : srbStatus'[x] = "pending" =>
          srbExt'[x] \in Queued' /\ ExtSrb'[srbExt'[x]] = x
    BY <1>1, <2>1 DEF PostSrb, IInv, TypeOK, QueuedExactlyPending
  <2>3. \A f \in Queued' :
          ExtSrb'[f] \in Srb /\ srbStatus'[ExtSrb'[f]] = "pending"
            /\ srbExt'[ExtSrb'[f]] = f
    BY <1>1, <2>1 DEF PostSrb, IInv, TypeOK, QueuedExactlyPending
  <2>4. ToSet(PendingList') \cap ProcessList' = {}
    BY <1>1, <1>2, <2>1 DEF IInv, QueuedExactlyPending, Queued
  <2>5. QED
    BY <1>2, <2>2, <2>3, <2>4 DEF QueuedExactlyPending
<1>8. BucketsIndexProcessList'
  <2>1. e \notin ProcessList
    BY <1>1 DEF Queued
  <2>2. /\ ProcessBuckets' = ProcessBuckets /\ ProcessList' = ProcessList
        /\ HashNext' = [HashNext EXCEPT ![e] = NULL]
    BY DEF PostSrb
  <2>3. QED
    BY <2>1, <2>2, ResetHashNext
<1>9. QED
  BY <1>4, <1>5, <1>6, <1>7, <1>8 DEF IInv

\* An SRB that is refused: stopped queue, or no system address.
LEMMA RefuseStep ==
  ASSUME IInv, NEW s \in Srb, NEW e \in Ext, NEW len \in DataLength,
         PostSrbStopped(s, e, len) \/ PostSrbNoAddress(s, e, len)
  PROVE  IInv'
<1> USE DEF ZeroOffset, ioqVars, userVars
<1>1. PICK n \in Nat, how \in {"ABORTED", "ERROR"} :
        /\ ZeroExtension(s, e, n)
        /\ ExtSrb' = [ExtSrb EXCEPT ![e] = NULL]
        /\ Complete({s}, how)
        /\ UNCHANGED <<ioqVars, userVars, acked>>
  <2>1. len \in Nat /\ 0 \in Nat
    BY ConstantAssumption
  <2>2. CASE PostSrbStopped(s, e, len)
    BY <2>1, <2>2 DEF PostSrbStopped
  <2>3. CASE PostSrbNoAddress(s, e, len)
    BY <2>1, <2>3 DEF PostSrbNoAddress
  <2>4. QED
    BY <2>2, <2>3
<1>2. e \notin Queued
  BY <1>1, FreeExtNotQueued DEF ZeroExtension
<1> USE DEF ZeroExtension, Complete
<1>3. how \in Final /\ how # "pending" /\ how # "idle"
  BY DEF Final
<1>4. TypeOK'
  <2>1. srbStatus' \in [Srb -> {"idle", "pending"} \cup Final]
    BY <1>1, <1>3 DEF IInv, TypeOK
  <2>2. completions' \in [Srb -> Nat]
    BY <1>1 DEF IInv, TypeOK
  <2>3. QED
    BY <1>1, <2>1, <2>2 DEF IInv, TypeOK
<1>5. ChunkInRange'
  BY <1>1 DEF IInv, TypeOK, ChunkInRange
<1>6. CompletedOnce'
  BY <1>1, <1>3 DEF IInv, TypeOK, CompletedOnce, Final
<1>7. QueuedExactlyPending'
  <2>1. Queued' = Queued /\ ProcessList' = ProcessList /\ PendingList' = PendingList
    BY <1>1 DEF Queued
  <2>2. \A x \in Srb : srbStatus'[x] = "pending" =>
          srbExt'[x] \in Queued' /\ ExtSrb'[srbExt'[x]] = x
    BY <1>1, <1>2, <1>3, <2>1 DEF IInv, TypeOK, QueuedExactlyPending
  <2>3. \A f \in Queued' :
          ExtSrb'[f] \in Srb /\ srbStatus'[ExtSrb'[f]] = "pending"
            /\ srbExt'[ExtSrb'[f]] = f
    BY <1>1, <1>2, <2>1 DEF IInv, TypeOK, QueuedExactlyPending
  <2>4. QED
    BY <2>1, <2>2, <2>3 DEF IInv, QueuedExactlyPending
<1>8. BucketsIndexProcessList'
  <2>1. e \notin ProcessList
    BY <1>2 DEF Queued
  <2>2. /\ ProcessBuckets' = ProcessBuckets /\ ProcessList' = ProcessList
        /\ HashNext' = [HashNext EXCEPT ![e] = NULL]
    BY <1>1
  <2>3. QED
    BY <2>1, <2>2, ResetHashNext
<1>9. QED
  BY <1>4, <1>5, <1>6, <1>7, <1>8 DEF IInv

\* The chunk of an SRB: a length, and no more than what is left.
LEMMA ChunkFits ==
  ASSUME IInv, NEW e \in Ext
  PROVE  /\ ChunkLength(e) \in Nat
         /\ ChunkOffset[e] + ChunkLength(e) <= SystemDataLength[e]
BY ConstantAssumption DEF IInv, TypeOK, ChunkInRange, ChunkLength

\* SpdIoqStartProcessingSrb moves the first pending SRB to ProcessList.
LEMMA StartStep ==
  ASSUME IInv, NEW t \in Thread, StartProcessingSrb(t)
  PROVE  IInv'
<1> DEFINE e == Head(PendingList)
           c == Chain(e)
<1>1. PendingList \in Seq(Ext) /\ PendingList # <<>> /\ IsInjective(PendingList)
  BY DEF StartProcessingSrb, IInv, TypeOK, QueuedExactlyPending
<1>2. /\ e \in Ext /\ e \in ToSet(PendingList)
      /\ PendingList' \in Seq(Ext) /\ IsInjective(PendingList')
      /\ ToSet(PendingList') = ToSet(PendingList) \ {e}
  BY <1>1, TailElements DEF StartProcessingSrb
<1>3. e \in Queued /\ e \notin ProcessList /\ ExtSrb[e] \in Srb
  BY <1>2 DEF IInv, QueuedExactlyPending, Queued
<1>4. /\ ProcessList' = ProcessList \cup {e}
      /\ ProcessBuckets' = [ProcessBuckets EXCEPT ![Hash[e]] = Cons(e, @)]
      /\ HashNext' = [HashNext EXCEPT ![e] = IF c = <<>> THEN NULL ELSE Head(c)]
      /\ owed' = owed \cup {Prepare(e)}
      /\ PendingEvent' \in BOOLEAN
      /\ pc' = [pc EXCEPT ![t] = "user"]
      /\ UNCHANGED <<Stopped, ExtSrb, SystemDataLength, ChunkOffset, srbVars, acked>>
  BY DEF StartProcessingSrb, Goto
<1>5. /\ Hash[e] \in Bucket /\ Hash \in [Ext -> Bucket]
      /\ ProcessBuckets \in [Bucket -> Seq(Ext)]
      /\ HashNext \in [Ext -> Ext \cup {NULL}] /\ ProcessList \subseteq Ext
  BY <1>2, ConstantAssumption DEF IInv, TypeOK
<1>6. \A b \in Bucket :
        /\ ToSet(ProcessBuckets[b]) = {x \in ProcessList : Hash[x] = b}
        /\ IsInjective(ProcessBuckets[b])
        /\ Linked(ProcessBuckets[b], HashNext)
  BY DEF IInv, BucketsIndexProcessList
<1>7. /\ c \in Seq(Ext) /\ e \notin ToSet(c) /\ IsInjective(c) /\ Linked(c, HashNext)
      /\ ToSet(c) = {x \in ProcessList : Hash[x] = Hash[e]}
  BY <1>3, <1>5, <1>6 DEF Chain
<1>8. ProcessBuckets'[Hash[e]] = Cons(e, c)
  BY <1>4, <1>5 DEF Chain
<1>9. Prepare(e) \in Request
  <2>1. ChunkLength(e) \in Nat /\ ChunkOffset[e] \in Nat
    BY <1>2, ChunkFits DEF IInv, TypeOK
  <2>2. QED
    BY <1>2, <1>3, <2>1 DEF Prepare, Request
<1> HIDE DEF e, c
<1>10. /\ Cons(e, c) \in Seq(Ext) /\ IsInjective(Cons(e, c))
       /\ ToSet(Cons(e, c)) = ToSet(c) \cup {e}
       /\ Linked(Cons(e, c), HashNext')
  <2>1. e \in Ext \ ToSet(c) /\ HashNext \in [Ext -> Ext \cup {NULL}]
    BY <1>2, <1>5, <1>7
  <2>2. Linked(Cons(e, c),
               [HashNext EXCEPT ![e] = IF c = <<>> THEN NULL ELSE Head(c)])
    BY <2>1, <1>7, PushChain
  <2>3. c \in Seq(Ext) /\ e \in Ext /\ IsInjective(c) /\ e \notin ToSet(c)
    BY <2>1, <1>7
  <2>4. /\ Cons(e, c) \in Seq(Ext) /\ IsInjective(Cons(e, c))
        /\ ToSet(Cons(e, c)) = ToSet(c) \cup {e}
    BY <2>3, ConsElements, ZenonT(30)
  <2>5. HashNext' = [HashNext EXCEPT ![e] = IF c = <<>> THEN NULL ELSE Head(c)]
    BY <1>4
  <2>6. QED
    BY <2>2, <2>4, <2>5
<1>11. HashNext' \in [Ext -> Ext \cup {NULL}]
  <2>1. c # <<>> => Head(c) \in Ext
    BY <1>7
  <2>2. QED
    BY <1>4, <1>5, <2>1
<1>12. TypeOK'
  BY <1>2, <1>4, <1>5, <1>8, <1>9, <1>10, <1>11 DEF IInv, TypeOK, srbVars
<1>13. ChunkInRange' /\ CompletedOnce'
  BY <1>4 DEF IInv, ChunkInRange, CompletedOnce, srbVars
<1>14. QueuedExactlyPending'
  <2>1. Queued' = Queued
    BY <1>2, <1>4 DEF Queued
  <2>2. ToSet(PendingList') \cap ProcessList' = {}
    BY <1>2, <1>4 DEF IInv, QueuedExactlyPending
  <2>3. QED
    BY <1>2, <1>4, <2>1, <2>2 DEF IInv, QueuedExactlyPending, srbVars
<1>15. ASSUME NEW b \in Bucket
       PROVE  /\ ToSet(ProcessBuckets'[b]) = {x \in ProcessList' : Hash[x] = b}
              /\ IsInjective(ProcessBuckets'[b])
              /\ Linked(ProcessBuckets'[b], HashNext')
  <2>1. CASE b = Hash[e]
    BY <2>1, <1>2, <1>4, <1>5, <1>7, <1>8, <1>10
  <2>2. CASE b # Hash[e]
    <3>1. ProcessBuckets'[b] = ProcessBuckets[b]
      BY <2>2, <1>4, <1>5
    <3>2. ToSet(ProcessBuckets[b]) = {x \in ProcessList' : Hash[x] = b}
      BY <2>2, <1>4, <1>6
    <3>3. \A i \in DOMAIN ProcessBuckets[b] :
            HashNext'[ProcessBuckets[b][i]] = HashNext[ProcessBuckets[b][i]]
      <4>1. \A i \in DOMAIN ProcessBuckets[b] :
              ProcessBuckets[b][i] \in Ext \ {e}
        BY <1>3, <1>5, <1>6 DEF ToSet
      <4>2. \A x \in Ext \ {e} : HashNext'[x] = HashNext[x]
        BY <1>4, <1>5
      <4>3. QED
        BY <4>1, <4>2
    <3>4. Linked(ProcessBuckets[b], HashNext')
      BY <3>3, <1>6, Zenon DEF Linked
    <3>5. QED
      BY <3>1, <3>2, <3>4, <1>6
  <2>3. QED
    BY <2>1, <2>2
<1>16. QED
  BY <1>12, <1>13, <1>14, <1>15 DEF IInv, BucketsIndexProcessList

\* What SpdIoqEndProcessingSrb does to the buckets before it looks at the
\* response.
LEMMA UnlinkEffect ==
  ASSUME IInv, NEW e \in Ext, Unlink(e)
  PROVE  /\ e \in ProcessList /\ e \in Queued /\ e \notin ToSet(PendingList)
         /\ ExtSrb[e] \in Srb /\ srbStatus[ExtSrb[e]] = "pending"
         /\ srbExt[ExtSrb[e]] = e
         /\ ProcessBuckets' \in [Bucket -> Seq(Ext)]
         /\ HashNext' \in [Ext -> Ext \cup {NULL}]
         /\ ProcessList' = ProcessList \ {e}
         /\ BucketsIndexProcessList'
<1>1. /\ InBucket(e) /\ ProcessBuckets' = BucketsWithout(e)
      /\ HashNext' = HashNextWithout(e) /\ ProcessList' = ProcessList \ {e}
  BY DEF Unlink
<1>2. e \in ProcessList
  BY <1>1, InBucketIffProcessing
<1>3. HashNextWithout(e) \in [Ext -> Ext \cup {NULL}]
  BY DEF HashNextWithout, IInv, TypeOK
<1>4. /\ ProcessBuckets' \in [Bucket -> Seq(Ext)]
      /\ \A b \in Bucket :
           LET c == BucketsWithout(e)[b]
           IN  /\ ToSet(c) = {x \in ProcessList \ {e} : Hash[x] = b}
               /\ IsInjective(c)
               /\ Linked(c, HashNext')
  BY <1>1, <1>3, BucketsAfterUnlink
<1>5. BucketsIndexProcessList'
  BY <1>1, <1>4 DEF BucketsIndexProcessList
<1>6. QED
  BY <1>1, <1>2, <1>3, <1>4, <1>5 DEF IInv, QueuedExactlyPending, Queued

\* Completing the SRB of the one extension e that leaves the lists keeps the
\* books: used for a final response.
LEMMA CompleteOne ==
  ASSUME IInv, NEW e \in Queued, e \in Ext, NEW how \in Final,
         Complete({ExtSrb[e]}, how),
         srbExt' = srbExt, \A f \in Ext \ {e} : ExtSrb'[f] = ExtSrb[f],
         Queued' = Queued \ {e}
  PROVE  /\ srbStatus' \in [Srb -> {"idle", "pending"} \cup Final]
         /\ completions' \in [Srb -> Nat]
         /\ CompletedOnce'
         /\ \A s \in Srb : srbStatus'[s] = "pending" =>
              srbExt'[s] \in Queued' /\ ExtSrb'[srbExt'[s]] = s
         /\ \A f \in Queued' :
              ExtSrb'[f] \in Srb /\ srbStatus'[ExtSrb'[f]] = "pending"
                /\ srbExt'[ExtSrb'[f]] = f
<1>1. ExtSrb[e] \in Srb /\ srbStatus[ExtSrb[e]] = "pending" /\ srbExt[ExtSrb[e]] = e
  BY DEF IInv, QueuedExactlyPending
<1>2. how # "pending" /\ how # "idle"
  BY DEF Final
<1>3. /\ srbStatus' \in [Srb -> {"idle", "pending"} \cup Final]
      /\ completions' \in [Srb -> Nat]
  BY DEF IInv, TypeOK, Complete
<1>4. CompletedOnce'
  BY <1>1, <1>2 DEF IInv, TypeOK, CompletedOnce, Complete, Final
<1>5. \A s \in Srb : srbStatus'[s] = "pending" =>
        srbExt'[s] \in Queued' /\ ExtSrb'[srbExt'[s]] = s
  <2>1. SUFFICES ASSUME NEW s \in Srb, srbStatus'[s] = "pending"
                 PROVE  srbExt[s] \in Queued \ {e} /\ ExtSrb'[srbExt[s]] = s
    OBVIOUS
  <2>2. s # ExtSrb[e] /\ srbStatus[s] = "pending"
    BY <2>1, <1>2 DEF Complete
  <2>3. srbExt[s] \in Queued /\ ExtSrb[srbExt[s]] = s
    BY <2>2 DEF IInv, QueuedExactlyPending
  <2>4. srbExt[s] # e /\ srbExt[s] \in Ext
    BY <2>2, <2>3 DEF Queued, ToSet, IInv, TypeOK
  <2>5. QED
    BY <2>3, <2>4
<1>6. ASSUME NEW f \in Queued \ {e}
      PROVE  ExtSrb'[f] \in Srb /\ srbStatus'[ExtSrb'[f]] = "pending"
               /\ srbExt'[ExtSrb'[f]] = f
  <2>1. f \in Ext
    BY DEF Queued, ToSet, IInv, TypeOK
  <2>2. ExtSrb[f] \in Srb /\ srbStatus[ExtSrb[f]] = "pending" /\ srbExt[ExtSrb[f]] = f
    BY DEF IInv, QueuedExactlyPending
  <2>3. ExtSrb[f] # ExtSrb[e]
    BY <2>2, <1>1
  <2>4. QED
    BY <2>1, <2>2, <2>3 DEF Complete
<1>7. QED
  BY <1>3, <1>4, <1>5, <1>6

\* SpdSrbExecuteScsiComplete of a good response moves the chunk offset.
LEMMA AdvanceEffect ==
  ASSUME IInv, NEW r \in Request, Advance(r), SystemDataLength' = SystemDataLength
  PROVE  /\ ChunkOffset' \in [Ext -> Nat] /\ acked' \in [Srb -> SUBSET Nat]
         /\ ChunkInRange'
<1>1. r.hint \in Ext /\ r.srb \in Srb /\ r.offset \in Nat /\ r.length \in Nat
  BY DEF Request
<1>2. /\ ChunkLength(r.hint) \in Nat
      /\ ChunkOffset[r.hint] + ChunkLength(r.hint) <= SystemDataLength[r.hint]
  BY <1>1, ChunkFits
<1>3. ChunkOffset' \in [Ext -> Nat] /\ ChunkInRange'
  BY <1>1, <1>2 DEF Advance, IInv, TypeOK, ChunkInRange
<1>4. r.offset .. (r.offset + r.length - 1) \subseteq Nat
  BY <1>1
<1>5. acked' \in [Srb -> SUBSET Nat]
  BY <1>1, <1>4 DEF Advance, IInv, TypeOK
<1>6. QED
  BY <1>3, <1>5

\* A response that completes its SRB.
LEMMA FinalResponseStep ==
  ASSUME IInv, NEW r \in owed, owed' = owed \ {r},
         pc' \in [Thread -> {"user", "waiting", "woken", "check", "gone"}],
         EndError(r) \/ EndSuccess(r)
  PROVE  IInv'
<1> DEFINE e == r.hint
<1>1. r \in Request /\ e \in Ext
  BY DEF IInv, TypeOK, Request
<1>2. PICK how \in Final :
        /\ Unlink(e) /\ Complete({ExtSrb[e]}, how)
        /\ UNCHANGED <<Stopped, PendingEvent, PendingList, ExtSrb,
                       SystemDataLength, srbLength, srbExt, abortStatus>>
  BY Zenon DEF EndError, EndSuccess, Final
<1>3. /\ ChunkOffset' \in [Ext -> Nat] /\ acked' \in [Srb -> SUBSET Nat]
      /\ ChunkInRange'
  <2>1. CASE EndError(r)
    BY <2>1 DEF EndError, IInv, TypeOK, ChunkInRange
  <2>2. CASE EndSuccess(r)
    BY <2>2, <1>1, AdvanceEffect DEF EndSuccess
  <2>3. QED
    BY <2>1, <2>2
<1>4. /\ e \in ProcessList /\ e \in Queued /\ e \notin ToSet(PendingList)
      /\ ProcessBuckets' \in [Bucket -> Seq(Ext)]
      /\ HashNext' \in [Ext -> Ext \cup {NULL}]
      /\ ProcessList' = ProcessList \ {e}
      /\ BucketsIndexProcessList'
  BY <1>1, <1>2, UnlinkEffect
<1>5. Queued' = Queued \ {e}
  BY <1>2, <1>4 DEF Queued
<1> HIDE DEF e
<1>6. /\ srbStatus' \in [Srb -> {"idle", "pending"} \cup Final]
      /\ completions' \in [Srb -> Nat]
      /\ CompletedOnce'
      /\ \A s \in Srb : srbStatus'[s] = "pending" =>
           srbExt'[s] \in Queued' /\ ExtSrb'[srbExt'[s]] = s
      /\ \A f \in Queued' :
           ExtSrb'[f] \in Srb /\ srbStatus'[ExtSrb'[f]] = "pending"
             /\ srbExt'[ExtSrb'[f]] = f
  BY <1>1, <1>2, <1>4, <1>5, CompleteOne
<1>7. TypeOK'
  BY <1>2, <1>3, <1>4, <1>6 DEF IInv, TypeOK
<1>8. QueuedExactlyPending'
  BY <1>2, <1>4, <1>6 DEF IInv, QueuedExactlyPending
<1>9. QED
  BY <1>3, <1>4, <1>6, <1>7, <1>8 DEF IInv

\* A response that is followed by another chunk.
LEMMA RepostStep ==
  ASSUME IInv, NEW r \in owed, owed' = owed \ {r},
         pc' \in [Thread -> {"user", "waiting", "woken", "check", "gone"}],
         EndRepost(r)
  PROVE  IInv'
<1> DEFINE e == r.hint
<1>1. r \in Request /\ e \in Ext
  BY DEF IInv, TypeOK, Request
<1>2. /\ Unlink(e) /\ Advance(r)
      /\ PendingList' = Cons(e, PendingList) /\ PendingEvent' = TRUE
      /\ UNCHANGED <<Stopped, ExtSrb, SystemDataLength, srbVars>>
  BY DEF EndRepost, InsertHead
<1>3. /\ ChunkOffset' \in [Ext -> Nat] /\ acked' \in [Srb -> SUBSET Nat]
      /\ ChunkInRange'
  BY <1>1, <1>2, AdvanceEffect
<1>4. /\ e \in ProcessList /\ e \notin ToSet(PendingList)
      /\ ProcessBuckets' \in [Bucket -> Seq(Ext)]
      /\ HashNext' \in [Ext -> Ext \cup {NULL}]
      /\ ProcessList' = ProcessList \ {e}
      /\ BucketsIndexProcessList'
  BY <1>1, <1>2, UnlinkEffect
<1>5. /\ PendingList' \in Seq(Ext) /\ IsInjective(PendingList')
      /\ ToSet(PendingList') = ToSet(PendingList) \cup {e}
  <2>1. PendingList \in Seq(Ext) /\ IsInjective(PendingList)
    BY DEF IInv, TypeOK, QueuedExactlyPending
  <2> HIDE DEF e
  <2>2. e \in Ext /\ e \notin ToSet(PendingList)
    BY <1>1, <1>4
  <2>3. /\ Cons(e, PendingList) \in Seq(Ext) /\ IsInjective(Cons(e, PendingList))
        /\ ToSet(Cons(e, PendingList)) = ToSet(PendingList) \cup {e}
    <3>1. PICK l : l = PendingList
      OBVIOUS
    <3> QED
      BY ONLY <2>1, <2>2, <3>1, ConsElements
  <2>4. QED
    BY <2>3, <1>2
<1> HIDE DEF e
<1>6. Queued' = Queued
  BY <1>4, <1>5 DEF Queued
<1>7. TypeOK'
  BY <1>2, <1>3, <1>4, <1>5 DEF IInv, TypeOK, srbVars
<1>8. CompletedOnce'
  BY <1>2 DEF IInv, CompletedOnce, srbVars
<1>9. QueuedExactlyPending'
  BY <1>2, <1>4, <1>5, <1>6 DEF IInv, QueuedExactlyPending, srbVars
<1>10. QED
  BY <1>3, <1>4, <1>7, <1>8, <1>9 DEF IInv

\* SpdIoqReset, stopping the queue or not.
LEMMA AbortStep ==
  ASSUME IInv, AbortQueued, Stopped' \in BOOLEAN, PendingEvent' \in BOOLEAN
  PROVE  IInv'
<1> DEFINE A == {ExtSrb[e] : e \in Queued}
<1>1. /\ PendingList' = <<>> /\ ProcessList' = {}
      /\ ProcessBuckets' = [b \in Bucket |-> <<>>]
      /\ Complete(A, "ABORTED")
      /\ UNCHANGED <<extVars, srbLength, srbExt, abortStatus, userVars, acked>>
  BY DEF AbortQueued, Aborted, EmptyBuckets
<1>2. A \subseteq Srb /\ \A s \in Srb : s \in A <=> srbStatus[s] = "pending"
  BY DEF IInv, QueuedExactlyPending
<1> HIDE DEF A
<1>3. TypeOK'
  <2>1. /\ srbStatus' \in [Srb -> {"idle", "pending"} \cup Final]
        /\ completions' \in [Srb -> Nat]
    BY <1>1 DEF IInv, TypeOK, Complete, Final
  <2>2. QED
    BY <1>1, <2>1 DEF IInv, TypeOK, extVars, userVars
<1>4. ChunkInRange'
  BY <1>1 DEF IInv, ChunkInRange, extVars
<1>5. CompletedOnce'
  BY <1>1, <1>2 DEF IInv, TypeOK, CompletedOnce, Complete, Final
<1>6. QueuedExactlyPending'
  <2>1. Queued' = {} /\ ToSet(PendingList') = {} /\ IsInjective(PendingList')
    BY <1>1 DEF Queued, ToSet, IsInjective
  <2>2. \A s \in Srb : srbStatus'[s] # "pending"
    BY <1>1, <1>2 DEF Complete
  <2>3. QED
    BY <2>1, <2>2 DEF QueuedExactlyPending
<1>7. BucketsIndexProcessList'
  BY <1>1 DEF BucketsIndexProcessList, ToSet, IsInjective, Linked
<1>8. QED
  BY <1>3, <1>4, <1>5, <1>6, <1>7 DEF IInv

\* An abort command, which is given its own SRB, leaves the lists, the buckets
\* and every SCSI SRB alone: its extension is on no list.
LEMMA AbortCommandFrame ==
  ASSUME IInv, Abort
  PROVE  /\ UNCHANGED <<Stopped, PendingEvent, PendingList, ProcessList,
                        ProcessBuckets, HashNext, SystemDataLength, ChunkOffset,
                        srbLength, srbExt, srbStatus, completions, userVars, acked>>
         /\ ExtSrb' \in [Ext -> Srb \cup {NULL}]
         /\ \A f \in Queued : ExtSrb'[f] = ExtSrb[f]
         /\ abortStatus' \in
              [AbortSrb -> Seq({"ABORTED", "ABORT_FAILED", "SUCCESS"})]
<1>1. PICK a \in AbortSrb :
        \/ \E e \in Ext : AbortCommand(a, e)
        \/ AbortReturns(a)
        \/ AbortCommandStopped(a)
  BY DEF Abort
<1> DEFINE Status == {"ABORTED", "ABORT_FAILED", "SUCCESS"}
<1>2. /\ abortStatus \in [AbortSrb -> Seq(Status)]
      /\ ExtSrb \in [Ext -> Srb \cup {NULL}]
  BY DEF IInv, TypeOK
<1>3. /\ <<"ABORTED">> \in Seq(Status) /\ <<"ABORT_FAILED">> \in Seq(Status)
      /\ Append(abortStatus[a], "SUCCESS") \in Seq(Status)
  <2>1. abortStatus[a] \in Seq(Status)
    BY <1>2
  <2>2. "SUCCESS" \in Status /\ "ABORTED" \in Status /\ "ABORT_FAILED" \in Status
    OBVIOUS
  <2> HIDE DEF Status
  <2>3. QED
    BY <2>1, <2>2
<1> HIDE DEF Status
<1>4. ASSUME NEW e \in Ext, AbortCommand(a, e)
      PROVE  /\ UNCHANGED <<Stopped, PendingEvent, PendingList, ProcessList,
                            ProcessBuckets, HashNext, SystemDataLength, ChunkOffset,
                            srbLength, srbExt, srbStatus, completions, userVars, acked>>
             /\ ExtSrb' \in [Ext -> Srb \cup {NULL}]
             /\ \A f \in Queued : ExtSrb'[f] = ExtSrb[f]
             /\ abortStatus' \in [AbortSrb -> Seq(Status)]
  <2>1. e \notin Queued /\ e \notin ProcessList
    BY <1>4, FreeExtNotQueued DEF AbortCommand, Queued
  <2>2. ~InBucket(e)
    BY <2>1, InBucketIffProcessing
  <2>3. UNCHANGED <<ProcessBuckets, HashNext>>
    BY <1>4, <2>2 DEF AbortCommand, Unhash
  <2>4. ExtSrb' = [ExtSrb EXCEPT ![e] = NULL]
    BY <1>4 DEF AbortCommand
  <2>5. \A f \in Queued : f \in Ext /\ f # e
    BY <2>1 DEF IInv, TypeOK, Queued, ToSet
  <2>6. \A f \in Queued : ExtSrb'[f] = ExtSrb[f]
    BY <1>2, <2>4, <2>5
  <2>7. ExtSrb' \in [Ext -> Srb \cup {NULL}]
    BY <1>2, <2>4
  <2>8. abortStatus' \in [AbortSrb -> Seq(Status)]
    BY <1>2, <1>3, <1>4 DEF AbortCommand
  <2>9. QED
    BY <1>4, <2>3, <2>6, <2>7, <2>8 DEF AbortCommand
<1>5. CASE AbortReturns(a) \/ AbortCommandStopped(a)
  <2>1. /\ UNCHANGED <<ioqVars, extVars, srbLength, srbExt, srbStatus,
                       completions, userVars, acked>>
    BY <1>5 DEF AbortReturns, AbortCommandStopped
  <2>2. abortStatus' \in [AbortSrb -> Seq(Status)]
    BY <1>2, <1>3, <1>5 DEF AbortReturns, AbortCommandStopped
  <2>3. QED
    BY <1>2, <2>1, <2>2 DEF ioqVars, extVars, Status
<1>6. QED
  BY <1>1, <1>4, <1>5 DEF Status

LEMMA AbortCommandStep ==
  ASSUME IInv, Abort
  PROVE  IInv'
<1>1. /\ UNCHANGED <<Stopped, PendingEvent, PendingList, ProcessList,
                     ProcessBuckets, HashNext, SystemDataLength, ChunkOffset,
                     srbLength, srbExt, srbStatus, completions, userVars, acked>>
      /\ ExtSrb' \in [Ext -> Srb \cup {NULL}]
      /\ \A f \in Queued : ExtSrb'[f] = ExtSrb[f]
      /\ abortStatus' \in
           [AbortSrb -> Seq({"ABORTED", "ABORT_FAILED", "SUCCESS"})]
  BY AbortCommandFrame
<1>2. TypeOK'
  BY <1>1 DEF IInv, TypeOK, userVars
<1>3. ChunkInRange' /\ CompletedOnce'
  BY <1>1 DEF IInv, ChunkInRange, CompletedOnce
<1>4. Queued' = Queued
  BY <1>1 DEF Queued
<1>5. QueuedExactlyPending'
  BY <1>1, <1>4 DEF IInv, QueuedExactlyPending
<1>6. BucketsIndexProcessList'
  BY <1>1 DEF IInv, BucketsIndexProcessList
<1>7. QED
  BY <1>2, <1>3, <1>5, <1>6 DEF IInv

\* The queue SpdIoqCreate returns satisfies the invariant.
LEMMA InitIInv == Init => IInv
<1> SUFFICES ASSUME Init PROVE IInv
  OBVIOUS
<1>1. TypeOK
  <2>1. /\ PendingList \in Seq(Ext) /\ ProcessBuckets \in [Bucket -> Seq(Ext)]
        /\ ProcessList \in SUBSET Ext /\ Stopped \in BOOLEAN
        /\ PendingEvent \in BOOLEAN
    <3>1. <<>> \in Seq(Ext)
      OBVIOUS
    <3>2. [b \in Bucket |-> <<>>] \in [Bucket -> Seq(Ext)]
      BY <3>1, Zenon
    <3>3. QED
      BY <3>1, <3>2, Zenon DEF Init
  <2>2. /\ ExtSrb \in [Ext -> Srb \cup {NULL}]
        /\ HashNext \in [Ext -> Ext \cup {NULL}]
        /\ SystemDataLength \in [Ext -> Nat] /\ ChunkOffset \in [Ext -> Nat]
    BY DEF Init
  <2>3. /\ srbLength \in [Srb -> Nat] /\ srbExt \in [Srb -> Ext \cup {NULL}]
        /\ srbStatus \in [Srb -> {"idle", "pending"} \cup Final]
        /\ completions \in [Srb -> Nat] /\ acked \in [Srb -> SUBSET Nat]
    BY DEF Init
  <2>6. abortStatus \in [AbortSrb -> Seq({"ABORTED", "ABORT_FAILED", "SUCCESS"})]
    <3>1. <<>> \in Seq({"ABORTED", "ABORT_FAILED", "SUCCESS"})
      OBVIOUS
    <3>2. QED
      BY <3>1, Zenon DEF Init
  <2>4. /\ pc \in [Thread -> {"user", "waiting", "woken", "check", "gone"}]
        /\ owed \in SUBSET Request
    BY DEF Init
  <2>5. QED
    BY <2>1, <2>2, <2>3, <2>4, <2>6 DEF TypeOK
<1>2. ChunkInRange /\ CompletedOnce
  BY DEF Init, ChunkInRange, CompletedOnce, Final
<1>3. QueuedExactlyPending
  BY DEF Init, QueuedExactlyPending, Queued, ToSet, IsInjective
<1>4. BucketsIndexProcessList
  BY DEF Init, BucketsIndexProcessList, ToSet, IsInjective, Linked
<1>5. QED
  BY <1>1, <1>2, <1>3, <1>4 DEF IInv

\* A thread that moves without touching the lists.
LEMMA ThreadStep ==
  ASSUME IInv, NEW t \in Thread,
         \/ Wake(t) \/ CancelWait(t) \/ StartProcessingEmpty(t)
         \/ StartProcessingStopped(t) \/ CheckStopped(t)
         \/ TransactRequest(t) \/ ExitThread(t)
  PROVE  IInv'
<1>1. PICK l \in {"user", "waiting", "woken", "check", "gone"} :
        /\ pc' = [pc EXCEPT ![t] = l]
        /\ Stopped' = Stopped /\ PendingEvent' \in BOOLEAN
        /\ UNCHANGED <<PendingList, ProcessList, ProcessBuckets, extVars, srbVars,
                       owed, acked>>
  <2> USE DEF Goto, ioqVars, IInv, TypeOK
  <2>1. CASE Wake(t)
    BY <2>1 DEF Wake
  <2>2. CASE CancelWait(t)
    BY <2>2 DEF CancelWait
  <2>3. CASE StartProcessingEmpty(t)
    BY <2>3 DEF StartProcessingEmpty
  <2>4. CASE StartProcessingStopped(t)
    BY <2>4 DEF StartProcessingStopped
  <2>5. CASE CheckStopped(t)
    BY <2>5 DEF CheckStopped
  <2>6. CASE TransactRequest(t)
    BY <2>6 DEF TransactRequest
  <2>7. CASE ExitThread(t)
    BY <2>7 DEF ExitThread
  <2>8. QED
    BY <2>1, <2>2, <2>3, <2>4, <2>5, <2>6, <2>7
<1>2. /\ pc' \in [Thread -> {"user", "waiting", "woken", "check", "gone"}]
      /\ owed' \in SUBSET Request /\ Stopped' \in BOOLEAN
  BY <1>1 DEF IInv, TypeOK
<1>3. QED
  BY <1>1, <1>2, FrameStep

\* SpdIoqEndProcessingSrb.
LEMMA ResponseStep ==
  ASSUME IInv, NEW r \in owed, EndProcessingSrb(r),
         pc' \in [Thread -> {"user", "waiting", "woken", "check", "gone"}]
  PROVE  IInv'
<1>1. owed' = owed \ {r}
  BY DEF EndProcessingSrb
<1>2. CASE EndIgnored(r)
  <2>1. /\ UNCHANGED <<PendingList, ProcessList, ProcessBuckets, extVars, srbVars,
                       acked>>
        /\ Stopped' = Stopped /\ PendingEvent' = PendingEvent
    BY <1>2 DEF EndIgnored, ioqVars
  <2>2. owed' \in SUBSET Request /\ Stopped' \in BOOLEAN /\ PendingEvent' \in BOOLEAN
    BY <1>1, <2>1 DEF IInv, TypeOK
  <2>3. QED
    BY <2>1, <2>2, FrameStep
<1>3. CASE EndError(r) \/ EndSuccess(r)
  BY <1>1, <1>3, FinalResponseStep
<1>4. CASE EndRepost(r)
  BY <1>1, <1>4, RepostStep
<1>5. QED
  BY <1>2, <1>3, <1>4 DEF EndProcessingSrb

\* Every step of the queue, of Storport and of user mode keeps the invariant.
LEMMA NextIInv == IInv /\ [Next]_vars => IInv'
<1> SUFFICES ASSUME IInv, [Next]_vars PROVE IInv'
  OBVIOUS
<1>1. CASE StartIo
  <2>1. PICK s \in Srb, e \in Ext, len \in DataLength :
          \/ PostSrb(s, e, len)
          \/ PostSrbStopped(s, e, len)
          \/ PostSrbNoAddress(s, e, len)
    BY <1>1 DEF StartIo
  <2>2. QED
    BY <2>1, PostSrbStep, RefuseStep
<1>2. ASSUME NEW t \in Thread,
             Wake(t) \/ CancelWait(t) \/ KernelThread(t) \/ UserThread(t)
      PROVE  IInv'
  <2>1. CASE StartProcessingSrb(t)
    BY <2>1, StartStep
  <2>2. ASSUME NEW r \in owed, TransactResponse(t, r)
        PROVE  IInv'
    <3>1. /\ EndProcessingSrb(r)
          /\ pc' \in [Thread -> {"user", "waiting", "woken", "check", "gone"}]
      BY <2>2 DEF TransactResponse, Goto, IInv, TypeOK
    <3>2. QED
      BY <3>1, ResponseStep
  <2>3. CASE \/ Wake(t) \/ CancelWait(t) \/ StartProcessingEmpty(t)
             \/ StartProcessingStopped(t) \/ CheckStopped(t)
             \/ TransactRequest(t) \/ ExitThread(t)
    BY <2>3, ThreadStep
  <2>4. QED
    BY <1>2, <2>1, <2>2, <2>3 DEF KernelThread, UserThread
<1>3. ASSUME NEW r \in owed, SendResponse(r)
      PROVE  IInv'
  <2>1. /\ EndProcessingSrb(r)
        /\ pc' \in [Thread -> {"user", "waiting", "woken", "check", "gone"}]
    BY <1>3 DEF SendResponse, IInv, TypeOK
  <2>2. QED
    BY <2>1, ResponseStep
<1>4. CASE Abort
  BY <1>4, AbortCommandStep
<1>5. CASE Reset \/ Stop
  <2>1. AbortQueued /\ Stopped' \in BOOLEAN /\ PendingEvent' \in BOOLEAN
    BY <1>5 DEF Reset, Stop, IInv, TypeOK
  <2>2. QED
    BY <2>1, AbortStep
<1>6. CASE UNCHANGED vars
  <2>1. /\ UNCHANGED <<PendingList, ProcessList, ProcessBuckets, extVars, srbVars,
                       acked>>
        /\ UNCHANGED <<Stopped, PendingEvent, pc, owed>>
    BY <1>6 DEF vars, ioqVars, userVars
  <2>2. /\ Stopped' \in BOOLEAN /\ PendingEvent' \in BOOLEAN
        /\ pc' \in [Thread -> {"user", "waiting", "woken", "check", "gone"}]
        /\ owed' \in SUBSET Request
    BY <2>1 DEF IInv, TypeOK
  <2>3. QED
    BY <2>1, <2>2, FrameStep
<1>7. QED
  BY <1>1, <1>2, <1>3, <1>4, <1>5, <1>6 DEF Next

\* The inductive invariant holds in every reachable state.
THEOREM Invariance == Spec => []IInv
BY InitIInv, NextIInv, PTL DEF Spec

\* Every variable keeps its type.
THEOREM TypeCorrect == Spec => []TypeOK
<1>1. IInv => TypeOK
  BY DEF IInv
<1>2. QED
  BY <1>1, Invariance, PTL

\* No SCSI SRB is completed twice, whatever responses, resets, abort commands
\* and a stop race in SpdIoqEndProcessingSrb, SpdIoqReset and SpdIoqCancelSrb.
\* It does not speak of the abort SRB's, which are (AbortCompletedOnce).
THEOREM AlwaysCompletedOnce == Spec => []CompletedOnce
<1>1. IInv => CompletedOnce
  BY DEF IInv
<1>2. QED
  BY <1>1, Invariance, PTL

\* No SRB is lost or aliased: exactly the pending SRB's are on a list.
THEOREM AlwaysQueuedExactlyPending == Spec => []QueuedExactlyPending
<1>1. IInv => QueuedExactlyPending
  BY DEF IInv
<1>2. QED
  BY <1>1, Invariance, PTL

\* The hash buckets and their HashNext links index exactly ProcessList.
THEOREM AlwaysIndexed == Spec => []BucketsIndexProcessList
<1>1. IInv => BucketsIndexProcessList
  BY DEF IInv
<1>2. QED
  BY <1>1, Invariance, PTL

-----------------------------------------------------------------------------
(***************************************************************************)
(* Wake-ups.                                                               *)
(***************************************************************************)

\* A wake-up that was consumed is on its way to the lock, or was handed on:
\* SpdQeventSetNoLock is called wherever PendingList may have become, or
\* stayed, non-empty, and wherever a waiter has to be told of the stop.
THEOREM WakeupsArePreserved == Spec => []NoLostWakeup
<1>1. Init => NoLostWakeup
  BY DEF Init, NoLostWakeup
<1>2. IInv /\ NoLostWakeup /\ [Next]_vars => NoLostWakeup'
  <2> SUFFICES ASSUME IInv, NoLostWakeup, [Next]_vars
               PROVE  NoLostWakeup'
    OBVIOUS
  <2> DEFINE Needed == PendingList # <<>> \/ Stopped
             Woken  == \E t \in Thread : pc[t] = "woken"
  <2>1. Needed => PendingEvent \/ Woken
    BY DEF NoLostWakeup
  <2>2. CASE StartIo
    <3>1. PICK s \in Srb, e \in Ext, len \in DataLength :
            \/ PostSrb(s, e, len)
            \/ PostSrbStopped(s, e, len)
            \/ PostSrbNoAddress(s, e, len)
      BY <2>2 DEF StartIo
    <3>2. CASE PostSrb(s, e, len)
      BY <3>2 DEF PostSrb, NoLostWakeup
    <3>3. CASE PostSrbStopped(s, e, len) \/ PostSrbNoAddress(s, e, len)
      BY <3>3 DEF PostSrbStopped, PostSrbNoAddress, ioqVars, userVars, NoLostWakeup
    <3>4. QED
      BY <3>1, <3>2, <3>3
  <2>3. ASSUME NEW t \in Thread,
               Wake(t) \/ CancelWait(t) \/ KernelThread(t) \/ UserThread(t)
        PROVE  NoLostWakeup'
    <3>0. pc \in [Thread -> {"user", "waiting", "woken", "check", "gone"}]
      BY DEF IInv, TypeOK
    <3>1. CASE Wake(t)
      BY <3>0, <3>1 DEF Wake, Goto, NoLostWakeup
    <3>2. CASE StartProcessingSrb(t)
      <4>1. /\ ~Stopped /\ Stopped' = Stopped /\ PendingList' = Tail(PendingList)
            /\ PendingEvent' = (PendingEvent \/ Tail(PendingList) # <<>>)
        BY <3>2 DEF StartProcessingSrb, MorePending
      <4>2. QED
        BY <4>1, Zenon DEF NoLostWakeup
    <3>3. CASE StartProcessingEmpty(t)
      BY <3>3 DEF StartProcessingEmpty, ioqVars, NoLostWakeup
    <3>4. CASE StartProcessingStopped(t)
      BY <3>4 DEF StartProcessingStopped, PassOn, NoLostWakeup
    <3>5. ASSUME pc[t] # "woken", \A u \in Thread \ {t} : pc'[u] = pc[u],
                 Needed' => Needed \/ PendingEvent',
                 PendingEvent => PendingEvent'
          PROVE  NoLostWakeup'
      <4>1. \A u \in Thread : pc[u] = "woken" => pc'[u] = "woken"
        BY <3>0, <3>5
      <4>2. QED
        BY <4>1, <3>5, <2>1, Zenon DEF NoLostWakeup
    <3>6. CASE \/ CancelWait(t) \/ CheckStopped(t)
               \/ TransactRequest(t) \/ ExitThread(t)
      <4>1. /\ pc[t] # "woken" /\ UNCHANGED <<PendingList, Stopped, PendingEvent>>
            /\ \A u \in Thread \ {t} : pc'[u] = pc[u]
        BY <3>0, <3>6 DEF CancelWait, CheckStopped, TransactRequest, ExitThread, Goto, ioqVars
      <4>2. QED
        BY <4>1, <3>5
    <3>7. ASSUME NEW r \in owed, TransactResponse(t, r)
          PROVE  NoLostWakeup'
      <4>1. pc[t] # "woken" /\ \A u \in Thread \ {t} : pc'[u] = pc[u]
        BY <3>0, <3>7 DEF TransactResponse, Goto
      <4>2. \/ UNCHANGED <<PendingList, Stopped, PendingEvent>>
            \/ PendingEvent' = TRUE
        BY <3>7 DEF TransactResponse, EndProcessingSrb, EndIgnored, EndError,
                    EndSuccess, EndRepost, ioqVars
      <4>3. (Needed' => Needed \/ PendingEvent') /\ (PendingEvent => PendingEvent')
        BY <4>2
      <4>4. QED
        BY <4>1, <4>3, <3>5
    <3>8. QED
      BY <2>3, <3>1, <3>2, <3>3, <3>4, <3>6, <3>7 DEF KernelThread, UserThread
  <2>4. ASSUME NEW r \in owed, SendResponse(r)
        PROVE  NoLostWakeup'
    <3>1. /\ pc' = pc
          /\ \/ UNCHANGED <<PendingList, Stopped, PendingEvent>>
             \/ PendingEvent' = TRUE
      BY <2>4 DEF SendResponse, EndProcessingSrb, EndIgnored, EndError,
                  EndSuccess, EndRepost, ioqVars
    <3>2. QED
      BY <3>1, <2>1 DEF NoLostWakeup
  <2>5. CASE Abort
    BY <2>1, <2>5, AbortCommandFrame DEF NoLostWakeup, userVars
  <2>6. CASE Reset \/ Stop
    BY <2>6 DEF Reset, Stop, AbortQueued, NoLostWakeup
  <2>7. CASE UNCHANGED vars
    BY <2>7 DEF vars, ioqVars, userVars, NoLostWakeup
  <2>8. QED
    BY <2>2, <2>3, <2>4, <2>5, <2>6, <2>7 DEF Next
<1>3. QED
  BY <1>1, <1>2, Invariance, PTL DEF Spec

-----------------------------------------------------------------------------
(***************************************************************************)
(* The queue implements the service SrbService describes.                  *)
(***************************************************************************)

\* What a response does as seen by Storport: nothing, or one answer.
LEMMA ResponseAnswers ==
  ASSUME IInv, NEW r \in owed, EndProcessingSrb(r)
  PROVE  [Service!Next]_(Service!vars)
<1>1. r.hint \in Ext
  BY DEF IInv, TypeOK, Request
<1>2. CASE EndIgnored(r) \/ EndRepost(r)
  BY <1>2 DEF EndIgnored, EndRepost, ioqVars, srbVars, Service!vars
<1>3. CASE EndError(r) \/ EndSuccess(r)
  <2>1. /\ Unlink(r.hint) /\ Stopped' = Stopped
        /\ \/ Complete({ExtSrb[r.hint]}, "ERROR")
           \/ Complete({ExtSrb[r.hint]}, "SUCCESS")
    BY <1>3 DEF EndError, EndSuccess
  <2>2. ~Stopped /\ r.hint \in Queued
    BY <1>1, <2>1, InBucketIffProcessing DEF Unlink, Queued
  <2>3. ExtSrb[r.hint] \in Srb /\ srbStatus[ExtSrb[r.hint]] = "pending"
    BY <2>2 DEF IInv, QueuedExactlyPending
  <2>4. Service!Answer(ExtSrb[r.hint])
    BY <2>1, <2>2, <2>3
       DEF Service!Answer, Service!Pending, Service!Notify, Complete
  <2>5. QED
    BY <2>3, <2>4 DEF Service!Next
<1>4. QED
  BY <1>2, <1>3 DEF EndProcessingSrb

\* Every step of the queue is a step of the service or invisible to Storport.
LEMMA NextImplementsService ==
  IInv /\ [Next]_vars => [Service!Next]_(Service!vars)
<1> SUFFICES ASSUME IInv, [Next]_vars
             PROVE  [Service!Next]_(Service!vars)
  OBVIOUS
<1>1. CASE StartIo
  <2>1. PICK s \in Srb, e \in Ext, len \in DataLength :
          \/ PostSrb(s, e, len)
          \/ PostSrbStopped(s, e, len)
          \/ PostSrbNoAddress(s, e, len)
    BY <1>1 DEF StartIo
  <2>2. CASE PostSrb(s, e, len)
    BY <2>2 DEF PostSrb, MayPost, ZeroExtension, Service!Accept, Service!Next
  <2>3. CASE PostSrbStopped(s, e, len)
    BY <2>3 DEF PostSrbStopped, ZeroExtension, Complete, ioqVars,
                Service!Refuse, Service!Notify, Service!Next
  <2>4. CASE PostSrbNoAddress(s, e, len)
    BY <2>4 DEF PostSrbNoAddress, ZeroExtension, Complete, ioqVars,
                Service!Refuse, Service!Notify, Service!Next
  <2>5. QED
    BY <2>1, <2>2, <2>3, <2>4
<1>2. ASSUME NEW t \in Thread,
             Wake(t) \/ CancelWait(t) \/ KernelThread(t) \/ UserThread(t)
      PROVE  [Service!Next]_(Service!vars)
  <2>1. ASSUME NEW r \in owed, TransactResponse(t, r)
        PROVE  [Service!Next]_(Service!vars)
    BY <2>1, ResponseAnswers DEF TransactResponse
  <2>2. CASE Wake(t) \/ CancelWait(t) \/ KernelThread(t) \/ TransactRequest(t) \/ ExitThread(t)
    BY <2>2 DEF Wake, CancelWait, KernelThread, StartProcessingSrb,
                StartProcessingEmpty, StartProcessingStopped, CheckStopped,
                TransactRequest, ExitThread, ioqVars, srbVars, Service!vars
  <2>3. QED
    BY <1>2, <2>1, <2>2 DEF UserThread
<1>3. ASSUME NEW r \in owed, SendResponse(r)
      PROVE  [Service!Next]_(Service!vars)
  BY <1>3, ResponseAnswers DEF SendResponse
<1>4. CASE Abort
  BY <1>4, AbortCommandFrame DEF Service!vars
<1>5. CASE Reset \/ Stop
  <2>1. {ExtSrb[e] : e \in Queued} = Service!Pending
    BY DEF IInv, QueuedExactlyPending, Service!Pending
  <2>2. ~Stopped /\ Complete(Service!Pending, "ABORTED") /\ Stopped' \in {Stopped, TRUE}
    BY <1>5, <2>1 DEF Reset, Stop, AbortQueued, Aborted
  <2>3. Service!AbortAll
    BY <2>2 DEF Service!AbortAll, Complete, Service!Notify
  <2>4. QED
    BY <2>3 DEF Service!Next
<1>6. CASE UNCHANGED vars
  BY <1>6 DEF vars, ioqVars, srbVars, Service!vars
<1>7. QED
  BY <1>1, <1>2, <1>3, <1>4, <1>5, <1>6 DEF Next

\* The queue implements the service: to Storport, posting, the transact
\* threads, chunking, resets, abort commands and a stop look like accepting or
\* refusing an SRB and completing each accepted one once.
THEOREM ImplementsService == Spec => ServiceSpec
<1>1. Init => Service!Init
  BY DEF Init, Service!Init
<1>2. QED
  BY <1>1, NextImplementsService, Invariance, PTL DEF Spec, ServiceSpec, Service!Spec

-----------------------------------------------------------------------------
(***************************************************************************)
(* Stopping.                                                               *)
(***************************************************************************)

\* A stopped queue holds nothing.
StoppedEmpty == Stopped => PendingList = <<>> /\ ProcessList = {}

LEMMA NextStopped ==
  IInv /\ StoppedEmpty /\ [Next]_vars
    => StoppedEmpty' /\ (Stopped => Stopped')
<1> SUFFICES ASSUME IInv, StoppedEmpty, [Next]_vars
             PROVE  StoppedEmpty' /\ (Stopped => Stopped')
  OBVIOUS
<1>1. CASE UNCHANGED <<Stopped, PendingList, ProcessList>>
  BY <1>1 DEF StoppedEmpty
<1>2. CASE ~Stopped /\ Stopped' = Stopped
  BY <1>2 DEF StoppedEmpty
<1>3. CASE AbortQueued
  BY <1>3 DEF AbortQueued, StoppedEmpty
<1>4. ASSUME NEW r \in owed, EndProcessingSrb(r)
      PROVE  \/ UNCHANGED <<Stopped, PendingList, ProcessList>>
             \/ ~Stopped /\ Stopped' = Stopped
  BY <1>4 DEF EndProcessingSrb, EndIgnored, EndError, EndSuccess, EndRepost,
              Unlink, ioqVars
<1>5. CASE StartIo
  BY <1>1, <1>2, <1>5
     DEF StartIo, PostSrb, MayPost, PostSrbStopped, PostSrbNoAddress, ioqVars
<1>6. ASSUME NEW t \in Thread,
             Wake(t) \/ CancelWait(t) \/ KernelThread(t) \/ UserThread(t)
      PROVE  \/ UNCHANGED <<Stopped, PendingList, ProcessList>>
             \/ ~Stopped /\ Stopped' = Stopped
  <2>1. CASE StartProcessingSrb(t)
    BY <2>1 DEF StartProcessingSrb
  <2>2. CASE \E r \in owed : TransactResponse(t, r)
    BY <2>2, <1>4 DEF TransactResponse
  <2>3. CASE \/ Wake(t) \/ CancelWait(t) \/ StartProcessingEmpty(t)
             \/ StartProcessingStopped(t) \/ CheckStopped(t)
             \/ TransactRequest(t) \/ ExitThread(t)
    BY <2>3 DEF Wake, CancelWait, StartProcessingEmpty, StartProcessingStopped,
                CheckStopped, TransactRequest, ExitThread, ioqVars
  <2>4. QED
    BY <1>6, <2>1, <2>2, <2>3 DEF KernelThread, UserThread
<1>7. CASE Reset \/ Stop
  BY <1>3, <1>7 DEF Reset, Stop
<1>8. CASE Abort
  BY <1>1, <1>8, AbortCommandFrame
<1>9. CASE \E r \in owed : SendResponse(r)
  BY <1>1, <1>2, <1>4, <1>9 DEF SendResponse
<1>10. CASE UNCHANGED vars
  BY <1>1, <1>10 DEF vars, ioqVars
<1>11. QED
  BY <1>1, <1>2, <1>5, <1>6, <1>7, <1>8, <1>9, <1>10 DEF Next

\* Once SpdIoqReset(TRUE) has run, nothing is queued and nothing restarts.
THEOREM StopIsFinal == Spec => StaysStopped
<1>1. Init => StoppedEmpty
  BY DEF Init, StoppedEmpty
<1>2. StoppedEmpty' => (Stopped' => Queued' = {})
  BY DEF StoppedEmpty, Queued, ToSet
<1>3. IInv /\ StoppedEmpty /\ [Next]_vars => [Stopped => Stopped' /\ Queued' = {}]_vars
  BY <1>2, NextStopped
<1>4. IInv /\ StoppedEmpty /\ [Next]_vars => StoppedEmpty'
  BY NextStopped
<1>5. QED
  BY <1>1, <1>3, <1>4, Invariance, PTL DEF Spec, StaysStopped

-----------------------------------------------------------------------------
(***************************************************************************)
(* Split transfers.                                                        *)
(***************************************************************************)

\* The extension of a pending SRB describes the transfer of that SRB.
LengthKept ==
  \A s \in Srb : srbStatus[s] = "pending" =>
    SystemDataLength[srbExt[s]] = srbLength[s]

\* The blocks acknowledged for a pending SRB are those before ChunkOffset,
\* unless a late response may have moved it.
AckedSoFar ==
  \A s \in Srb :
    /\ srbStatus[s] = "idle" => acked[s] = {}
    /\ srbStatus[s] = "pending" /\ ~Tainted(srbExt[s]) =>
         acked[s] = 0 .. (ChunkOffset[srbExt[s]] - 1)

\* A request in user mode carries the extension of the SRB it was made for,
\* which Storport does not change any more.
OwedNamesItsSrb ==
  \A r \in owed : srbStatus[r.srb] # "idle" /\ srbExt[r.srb] = r.hint

TransferInv ==
  /\ LengthKept
  /\ AckedSoFar
  /\ OwedNamesItsSrb
  /\ SuccessCoversTransfer

\* Steps that complete nothing and move no chunk.
LEMMA TransferFrame ==
  ASSUME TransferInv, owed' \subseteq owed,
         UNCHANGED <<Stopped, ProcessList, ExtSrb, SystemDataLength,
                     ChunkOffset, srbVars, acked>>
  PROVE  TransferInv'
<1>1. \A e : Tainted(e)' = Tainted(e)
  BY DEF Tainted, srbVars
<1>2. \A e : ChunkLength(e)' = ChunkLength(e)
  BY DEF ChunkLength
<1>3. LengthKept' /\ AckedSoFar' /\ OwedNamesItsSrb'
  BY <1>1 DEF TransferInv, LengthKept, AckedSoFar, OwedNamesItsSrb, srbVars
<1>4. SuccessCoversTransfer'
  BY <1>1, <1>2 DEF TransferInv, SuccessCoversTransfer, OwedIsCurrent, srbVars
<1>5. QED
  BY <1>3, <1>4 DEF TransferInv

\* StartIo gives a new SRB an extension that is on no list: whatever user mode
\* still owes for it is tainted.
LEMMA TransferNew ==
  ASSUME IInv, TransferInv, NEW s \in Srb, NEW e \in Ext, NEW n \in Nat,
         NEW how \in {"pending", "ABORTED", "ERROR"},
         ZeroExtension(s, e, n),
         srbStatus' = [srbStatus EXCEPT ![s] = how],
         \A f \in Ext \ {e} : ExtSrb'[f] = ExtSrb[f],
         UNCHANGED <<Stopped, ProcessList, owed, acked>>
  PROVE  TransferInv'
<1> USE DEF ZeroExtension, ZeroOffset
<1>1. e \notin ProcessList /\ e \notin ExtInUse /\ srbStatus[s] = "idle"
  BY FreeExtNotQueued DEF Queued
<1>2. /\ \A x \in Srb \ {s} : /\ srbStatus'[x] = srbStatus[x]
                              /\ srbExt'[x] = srbExt[x]
                              /\ srbLength'[x] = srbLength[x]
      /\ srbStatus'[s] = how /\ srbExt'[s] = e /\ srbLength'[s] = n
      /\ SystemDataLength'[e] = n /\ ChunkOffset'[e] = 0
      /\ \A f \in Ext \ {e} : /\ SystemDataLength'[f] = SystemDataLength[f]
                              /\ ChunkOffset'[f] = ChunkOffset[f]
  BY DEF IInv, TypeOK
<1>3. \A f \in Ext : Tainted(f) => Tainted(f)'
  BY <1>1, <1>2 DEF Tainted
<1>4. \A x \in Srb : srbStatus[x] = "pending" => srbExt[x] \in Ext /\ srbExt[x] # e
  BY <1>1 DEF ExtInUse, IInv, TypeOK, QueuedExactlyPending, Queued, ToSet
<1>5. \A r \in owed : r.srb \in Srb /\ r.hint \in Ext
  BY DEF IInv, TypeOK, Request
<1>6. LengthKept'
  BY <1>2, <1>4 DEF TransferInv, LengthKept
<1>7. AckedSoFar'
  <2>1. acked[s] = {}
    BY <1>1 DEF TransferInv, AckedSoFar
  <2>2. 0 .. (ChunkOffset'[e] - 1) = {}
    BY <1>2
  <2>3. ASSUME NEW x \in Srb, srbStatus'[x] = "idle"
        PROVE  acked[x] = {}
    BY <1>2, <2>1, <2>3 DEF TransferInv, AckedSoFar
  <2>4. ASSUME NEW x \in Srb \ {s}, srbStatus'[x] = "pending", ~Tainted(srbExt[x])'
        PROVE  acked[x] = 0 .. (ChunkOffset'[srbExt'[x]] - 1)
    <3>1. srbStatus[x] = "pending" /\ srbExt'[x] = srbExt[x] /\ srbExt[x] \in Ext \ {e}
      BY <1>2, <1>4, <2>4
    <3>2. ~Tainted(srbExt[x])
      BY <1>3, <2>4, <3>1 DEF Tainted
    <3>3. acked[x] = 0 .. (ChunkOffset[srbExt[x]] - 1)
      BY <3>1, <3>2 DEF TransferInv, AckedSoFar
    <3>4. QED
      BY <1>2, <3>1, <3>3
  <2>5. QED
    BY <1>2, <2>1, <2>2, <2>3, <2>4 DEF AckedSoFar
<1>8. OwedNamesItsSrb'
  BY <1>1, <1>2, <1>5 DEF TransferInv, OwedNamesItsSrb
<1>9. OwedIsCurrent'
  <2>1. SUFFICES ASSUME NEW r \in owed, ~Tainted(r.hint)', ~Stopped
                 PROVE  /\ r.hint \in ProcessList
                        /\ ExtSrb'[r.hint] = r.srb
                        /\ r.offset = ChunkOffset'[r.hint]
                        /\ r.length = ChunkLength(r.hint)'
    BY DEF OwedIsCurrent
  <2>2. ~Tainted(r.hint)
    BY <2>1, <1>3, <1>5
  <2>3. /\ r.hint \in ProcessList /\ ExtSrb[r.hint] = r.srb
        /\ r.offset = ChunkOffset[r.hint] /\ r.length = ChunkLength(r.hint)
    BY <2>1, <2>2 DEF TransferInv, SuccessCoversTransfer, OwedIsCurrent
  <2>4. r.hint \in Ext \ {e}
    BY <2>3, <1>1, <1>5
  <2>5. ChunkLength(r.hint)' = ChunkLength(r.hint)
    BY <2>4, <1>2 DEF ChunkLength
  <2>6. QED
    BY <2>3, <2>4, <2>5, <1>2
<1>10. ASSUME NEW x \in Srb, srbStatus'[x] = "SUCCESS", ~Tainted(srbExt[x])'
       PROVE  acked[x] = 0 .. (srbLength'[x] - 1)
  <2>1. x # s /\ srbStatus[x] = "SUCCESS"
    BY <1>2, <1>10
  <2>2. ~Tainted(srbExt[x])
    <3>1. Tainted(srbExt[x]) => Tainted(srbExt[x])'
      <4>1. \A y \in Srb : srbStatus[y] = "ABORTED" => srbStatus'[y] = "ABORTED" /\ srbExt'[y] = srbExt[y]
        BY <1>1, <1>2
      <4>2. srbExt'[x] = srbExt[x]
        BY <2>1, <1>2
      <4>3. QED
        BY <4>1, <4>2 DEF Tainted
    <3>2. QED
      BY <3>1, <1>10
  <2>3. QED
    BY <2>1, <2>2, <1>2 DEF TransferInv, SuccessCoversTransfer
<1>11. SuccessCoversTransfer'
  BY <1>9, <1>10 DEF SuccessCoversTransfer
<1>12. QED
  BY <1>6, <1>7, <1>8, <1>11 DEF TransferInv

\* SpdIoqStartProcessingSrb hands out the chunk that is due.
LEMMA TransferStart ==
  ASSUME IInv, TransferInv, NEW t \in Thread, StartProcessingSrb(t)
  PROVE  TransferInv'
<1> DEFINE e == Head(PendingList)
           q == Prepare(e)
<1>1. /\ owed' = owed \cup {q} /\ ProcessList' = ProcessList \cup {e}
      /\ PendingList # <<>>
      /\ UNCHANGED <<Stopped, ExtSrb, SystemDataLength, ChunkOffset, srbVars, acked>>
  BY DEF StartProcessingSrb
<1>2. e \in Ext /\ e \in ToSet(PendingList)
  BY <1>1, TailElements DEF IInv, TypeOK
<1>3. /\ ExtSrb[e] \in Srb /\ srbStatus[ExtSrb[e]] = "pending"
      /\ srbExt[ExtSrb[e]] = e
  BY <1>2 DEF IInv, QueuedExactlyPending, Queued
<1>4. /\ q.hint = e /\ q.srb = ExtSrb[e] /\ q.offset = ChunkOffset[e]
      /\ q.length = ChunkLength(e)
  BY DEF Prepare
<1> HIDE DEF e, q
<1>5. \A f : Tainted(f)' = Tainted(f) /\ ChunkLength(f)' = ChunkLength(f)
  BY <1>1 DEF Tainted, ChunkLength, srbVars
<1>6. LengthKept' /\ AckedSoFar'
  BY <1>1, <1>5 DEF TransferInv, LengthKept, AckedSoFar, srbVars
<1>7. OwedNamesItsSrb'
  BY <1>1, <1>3, <1>4 DEF TransferInv, OwedNamesItsSrb, srbVars
<1>8. OwedIsCurrent'
  BY <1>1, <1>4, <1>5 DEF TransferInv, SuccessCoversTransfer, OwedIsCurrent
<1>9. SuccessCoversTransfer'
  BY <1>1, <1>5, <1>8 DEF TransferInv, SuccessCoversTransfer, srbVars
<1>10. QED
  BY <1>6, <1>7, <1>9 DEF TransferInv

\* SpdIoqReset taints the extensions whose SRB's it aborts.
LEMMA TransferAbort ==
  ASSUME IInv, TransferInv, NEW S \in SUBSET Srb,
         Complete(S, "ABORTED"),
         \A s \in S : srbStatus[s] = "pending" /\ ExtSrb[srbExt[s]] = s,
         \A f \in ProcessList \ ProcessList' : f \in {srbExt[s] : s \in S},
         Stopped => Stopped',
         UNCHANGED <<ExtSrb, SystemDataLength, ChunkOffset, srbLength, srbExt, owed, acked>>
  PROVE  TransferInv'
<1>1. /\ \A s \in S : srbStatus'[s] = "ABORTED"
      /\ \A s \in Srb \ S : srbStatus'[s] = srbStatus[s]
  BY DEF Complete
<1>2. \A s \in Srb : /\ srbStatus[s] = "ABORTED" => srbStatus'[s] = "ABORTED"
                     /\ srbStatus'[s] # "ABORTED" => srbStatus'[s] = srbStatus[s]
                     /\ srbStatus'[s] = "idle" <=> srbStatus[s] = "idle"
  BY <1>1
<1>3. \A f : ~Tainted(f)' => ~Tainted(f) /\ f \notin {srbExt[s] : s \in S}
  BY <1>1, <1>2 DEF Tainted
<1>4. \A f : ChunkLength(f)' = ChunkLength(f)
  BY DEF ChunkLength
<1>5. LengthKept' /\ AckedSoFar'
  BY <1>2, <1>3 DEF TransferInv, LengthKept, AckedSoFar
<1>6. \A r \in owed : r.srb \in Srb /\ r.hint \in Ext
  BY DEF IInv, TypeOK, Request
<1>7. OwedNamesItsSrb'
  BY <1>2, <1>6 DEF TransferInv, OwedNamesItsSrb
<1>8. OwedIsCurrent'
  BY <1>3, <1>4, <1>6 DEF TransferInv, SuccessCoversTransfer, OwedIsCurrent
<1>9. SuccessCoversTransfer'
  BY <1>2, <1>3, <1>8 DEF TransferInv, SuccessCoversTransfer
<1>10. QED
  BY <1>5, <1>7, <1>9 DEF TransferInv

\* An abort command clears the Srb field of an extension that is not queued.
LEMMA TransferAbortCommand ==
  ASSUME IInv, TransferInv, Abort
  PROVE  TransferInv'
<1>1. /\ UNCHANGED <<Stopped, ProcessList, SystemDataLength, ChunkOffset,
                     srbLength, srbExt, srbStatus, completions, userVars, acked>>
      /\ \A f \in Queued : ExtSrb'[f] = ExtSrb[f]
  BY AbortCommandFrame
<1>2. \A e : Tainted(e)' = Tainted(e) /\ ChunkLength(e)' = ChunkLength(e)
  BY <1>1 DEF Tainted, ChunkLength
<1>3. LengthKept' /\ AckedSoFar' /\ OwedNamesItsSrb'
  BY <1>1, <1>2 DEF TransferInv, LengthKept, AckedSoFar, OwedNamesItsSrb, userVars
<1>4. \A f \in ProcessList : ExtSrb'[f] = ExtSrb[f]
  BY <1>1 DEF Queued
<1>5. SuccessCoversTransfer'
  BY <1>1, <1>2, <1>4 DEF TransferInv, SuccessCoversTransfer, OwedIsCurrent, userVars
<1>6. QED
  BY <1>3, <1>5 DEF TransferInv

\* A response to a request for an untainted extension is the only one owed for
\* it, and its SRB is the one in the extension.
LEMMA OwedUnique ==
  ASSUME IInv, TransferInv, ~Stopped, NEW r \in owed, ~Tainted(r.hint)
  PROVE  /\ r.hint \in ProcessList /\ ExtSrb[r.hint] = r.srb
         /\ r.offset = ChunkOffset[r.hint] /\ r.length = ChunkLength(r.hint)
         /\ \A q \in owed \ {r} : q.hint # r.hint
<1>1. \A q \in owed : q.hint = r.hint =>
        /\ q.hint \in ProcessList /\ ExtSrb[r.hint] = q.srb
        /\ q.offset = ChunkOffset[r.hint] /\ q.length = ChunkLength(r.hint)
  BY DEF TransferInv, SuccessCoversTransfer, OwedIsCurrent
<1>2. \A q \in owed : q = [hint |-> q.hint, srb |-> q.srb,
                           offset |-> q.offset, length |-> q.length]
  BY DEF IInv, TypeOK, Request
<1>3. QED
  BY <1>1, <1>2

\* SpdIoqEndProcessingSrb of a good response: the chunk is counted once, for
\* the SRB that asked for it.
LEMMA AdvanceAcked ==
  ASSUME IInv, TransferInv, NEW r \in owed, Unlink(r.hint), Advance(r),
         NEW s \in Srb, srbStatus[s] = "pending", ~Tainted(srbExt[s])
  PROVE  /\ ChunkOffset'[srbExt[s]] \in Nat
         /\ acked'[s] = 0 .. (ChunkOffset'[srbExt[s]] - 1)
         /\ srbExt[s] = r.hint =>
              ChunkOffset'[srbExt[s]] = ChunkOffset[r.hint] + ChunkLength(r.hint)
<1> DEFINE e == srbExt[s]
           o == ChunkOffset[e]
           l == ChunkLength(e)
<1>1. /\ r \in Request /\ r.hint \in Ext /\ r.srb \in Srb
      /\ ~Stopped /\ srbExt[r.srb] = r.hint
  BY DEF IInv, TypeOK, Request, Unlink, TransferInv, OwedNamesItsSrb
<1>2. e \in Ext /\ ExtSrb[e] = s
  BY DEF IInv, TypeOK, QueuedExactlyPending, Queued, ToSet
<1>3. acked[s] = 0 .. (o - 1)
  BY DEF TransferInv, AckedSoFar
<1>4. o \in Nat /\ l \in Nat
  BY <1>2, ChunkFits DEF IInv, TypeOK
<1>5. CASE e = r.hint
  <2>1. r.srb = s /\ r.offset = o /\ r.length = l
    BY <1>1, <1>2, <1>5, OwedUnique
  <2>2. ChunkOffset'[e] = o + l
    BY <1>1, <1>2, <1>5 DEF Advance, IInv, TypeOK
  <2>3. acked'[s] = acked[s] \cup (o .. (o + l - 1))
    BY <2>1 DEF Advance, IInv, TypeOK
  <2> HIDE DEF o, l, e
  <2>4. (0 .. (o - 1)) \cup (o .. (o + l - 1)) = 0 .. (o + l - 1)
    BY <1>4
  <2>5. QED
    BY <2>2, <2>3, <2>4, <1>3, <1>4, <1>5 DEF e, o, l
<1>6. CASE e # r.hint
  <2>1. r.srb # s
    BY <1>1, <1>6
  <2>2. ChunkOffset'[e] = o /\ acked'[s] = acked[s]
    BY <1>1, <1>2, <1>6, <2>1 DEF Advance, IInv, TypeOK
  <2>3. QED
    BY <2>2, <1>3, <1>4, <1>6
<1>7. QED
  BY <1>5, <1>6

\* A response that completes its SRB: one that succeeds has covered the whole
\* transfer.
LEMMA TransferFinal ==
  ASSUME IInv, TransferInv, NEW r \in owed, owed' = owed \ {r},
         EndError(r) \/ EndSuccess(r)
  PROVE  TransferInv'
<1> DEFINE e == r.hint
           d == ExtSrb[e]
<1>1. /\ r.hint \in Ext /\ r.srb \in Srb /\ srbExt[r.srb] = e
      /\ \A q \in owed : q.hint \in Ext /\ q.srb \in Srb
  BY DEF IInv, TypeOK, Request, TransferInv, OwedNamesItsSrb
<1>2. PICK how \in {"ERROR", "SUCCESS"} :
        /\ Unlink(e) /\ Complete({d}, how)
        /\ UNCHANGED <<Stopped, ExtSrb, SystemDataLength, srbLength, srbExt>>
        /\ \/ how = "ERROR" /\ UNCHANGED <<ChunkOffset, acked>>
           \/ Advance(r) /\ Done(e)
  BY DEF EndError, EndSuccess
<1>3. /\ e \in ProcessList /\ ProcessList' = ProcessList \ {e} /\ ~Stopped
      /\ d \in Srb /\ srbStatus[d] = "pending" /\ srbExt[d] = e
  BY <1>1, <1>2, UnlinkEffect DEF Unlink
<1>4. /\ srbStatus'[d] = how
      /\ \A s \in Srb \ {d} : srbStatus'[s] = srbStatus[s]
  BY <1>2, <1>3 DEF Complete
<1>5. \A f : Tainted(f)' = Tainted(f)
  BY <1>2, <1>3, <1>4 DEF Tainted
<1>6. \A f \in Ext \ {e} : ChunkOffset'[f] = ChunkOffset[f]
  BY <1>1, <1>2 DEF Advance, IInv, TypeOK
<1>7. \A s \in Srb \ {r.srb} : acked'[s] = acked[s]
  BY <1>1, <1>2 DEF Advance, IInv, TypeOK
<1>8. \A s \in Srb : srbStatus'[s] = "pending" =>
        srbStatus[s] = "pending" /\ srbExt[s] \in Ext \ {e}
  BY <1>3, <1>4 DEF IInv, TypeOK, QueuedExactlyPending, Queued, ToSet
<1>9. LengthKept'
  BY <1>2, <1>8 DEF TransferInv, LengthKept
<1> HIDE DEF d
<1>10. OwedNamesItsSrb'
  BY <1>1, <1>2, <1>3, <1>4 DEF TransferInv, OwedNamesItsSrb
<1>11. AckedSoFar'
  <2>1. ASSUME NEW s \in Srb, srbStatus'[s] = "idle"
        PROVE  acked'[s] = {}
    <3>1. srbStatus[s] = "idle" /\ s # r.srb
      BY <1>3, <1>4, <2>1 DEF TransferInv, OwedNamesItsSrb
    <3>2. QED
      BY <3>1, <1>7 DEF TransferInv, AckedSoFar
  <2>2. ASSUME NEW s \in Srb, srbStatus'[s] = "pending", ~Tainted(srbExt[s])
        PROVE  acked'[s] = 0 .. (ChunkOffset'[srbExt[s]] - 1)
    <3>1. srbStatus[s] = "pending" /\ srbExt[s] \in Ext \ {e} /\ s # r.srb
      BY <1>1, <1>8, <2>2
    <3>2. acked[s] = 0 .. (ChunkOffset[srbExt[s]] - 1)
      BY <2>2, <3>1 DEF TransferInv, AckedSoFar
    <3>3. QED
      BY <3>1, <3>2, <1>6, <1>7
  <2>3. QED
    BY <1>2, <1>5, <2>1, <2>2 DEF AckedSoFar
<1>12. OwedIsCurrent'
  <2>1. SUFFICES ASSUME NEW q \in owed \ {r}, ~Tainted(q.hint)
                 PROVE  /\ q.hint \in ProcessList'
                        /\ ExtSrb[q.hint] = q.srb
                        /\ q.offset = ChunkOffset'[q.hint]
                        /\ q.length = ChunkLength(q.hint)'
    BY <1>2, <1>5 DEF OwedIsCurrent
  <2>2. /\ q.hint \in ProcessList /\ ExtSrb[q.hint] = q.srb
        /\ q.offset = ChunkOffset[q.hint] /\ q.length = ChunkLength(q.hint)
        /\ q.hint # e
    BY <2>1, <1>3, OwedUnique
  <2>3. q.hint \in Ext \ {e}
    BY <2>2, <1>1
  <2>4. ChunkLength(q.hint)' = ChunkLength(q.hint)
    BY <2>3, <1>2, <1>6 DEF ChunkLength
  <2>5. QED
    BY <2>2, <2>3, <2>4, <1>3, <1>6
<1>13. ASSUME NEW s \in Srb, srbStatus'[s] = "SUCCESS", ~Tainted(srbExt[s])
       PROVE  acked'[s] = 0 .. (srbLength[s] - 1)
  <2>1. CASE s = d
    <3>1. Advance(r) /\ Done(e) /\ ~Tainted(e)
      BY <2>1, <1>2, <1>3, <1>4, <1>13
    <3>2. /\ acked'[s] = 0 .. (ChunkOffset'[e] - 1)
          /\ ChunkOffset'[e] = ChunkOffset[e] + ChunkLength(e)
      BY <2>1, <3>1, <1>2, <1>3, AdvanceAcked
    <3>3. ChunkOffset'[e] = SystemDataLength[e]
      <4>1. /\ ChunkOffset[e] + ChunkLength(e) <= SystemDataLength[e]
            /\ ChunkOffset[e] \in Nat /\ ChunkLength(e) \in Nat
            /\ SystemDataLength[e] \in Nat
        BY <1>1, ChunkFits DEF IInv, TypeOK
      <4>2. QED
        BY <4>1, <3>1, <3>2 DEF Done
    <3>4. SystemDataLength[e] = srbLength[s]
      BY <2>1, <1>3 DEF TransferInv, LengthKept
    <3>5. QED
      BY <3>2, <3>3, <3>4
  <2>2. CASE s # d
    <3>1. srbStatus[s] = "SUCCESS" /\ acked[s] = 0 .. (srbLength[s] - 1)
      BY <2>2, <1>4, <1>13 DEF TransferInv, SuccessCoversTransfer
    <3>2. s # r.srb
      <4>1. SUFFICES ASSUME s = r.srb PROVE FALSE
        OBVIOUS
      <4>2. ~Tainted(e)
        BY <4>1, <1>1, <1>13
      <4>3. ExtSrb[e] = r.srb
        BY <4>2, <1>3, OwedUnique
      <4>4. QED
        BY <4>1, <4>3, <2>2 DEF d
    <3>3. QED
      BY <3>1, <3>2, <1>7
  <2>3. QED
    BY <2>1, <2>2
<1>14. SuccessCoversTransfer'
  BY <1>2, <1>5, <1>12, <1>13 DEF SuccessCoversTransfer
<1>15. QED
  BY <1>9, <1>10, <1>11, <1>14 DEF TransferInv

\* A response that is followed by another chunk.
LEMMA TransferRepost ==
  ASSUME IInv, TransferInv, NEW r \in owed, owed' = owed \ {r}, EndRepost(r)
  PROVE  TransferInv'
<1> DEFINE e == r.hint
<1>1. /\ r.hint \in Ext /\ r.srb \in Srb /\ srbExt[r.srb] = e
      /\ \A q \in owed : q.hint \in Ext /\ q.srb \in Srb
  BY DEF IInv, TypeOK, Request, TransferInv, OwedNamesItsSrb
<1>2. /\ Unlink(e) /\ Advance(r)
      /\ UNCHANGED <<Stopped, ExtSrb, SystemDataLength, srbVars>>
  BY DEF EndRepost
<1>3. ProcessList' = ProcessList \ {e} /\ ~Stopped
  BY <1>2 DEF Unlink
<1>4. \A f : Tainted(f)' = Tainted(f)
  BY <1>2 DEF Tainted, srbVars
<1>5. \A f \in Ext \ {e} : ChunkOffset'[f] = ChunkOffset[f]
  BY <1>1, <1>2 DEF Advance, IInv, TypeOK
<1>6. \A s \in Srb \ {r.srb} : acked'[s] = acked[s]
  BY <1>1, <1>2 DEF Advance, IInv, TypeOK
<1>7. LengthKept' /\ OwedNamesItsSrb'
  BY <1>2 DEF TransferInv, LengthKept, OwedNamesItsSrb, srbVars
<1>8. AckedSoFar'
  <2>1. ASSUME NEW s \in Srb, srbStatus[s] = "idle"
        PROVE  acked'[s] = {}
    BY <2>1, <1>6 DEF TransferInv, AckedSoFar, OwedNamesItsSrb
  <2>2. ASSUME NEW s \in Srb, srbStatus[s] = "pending", ~Tainted(srbExt[s])
        PROVE  acked'[s] = 0 .. (ChunkOffset'[srbExt[s]] - 1)
    BY <2>2, <1>2, AdvanceAcked
  <2>3. QED
    BY <1>2, <1>4, <2>1, <2>2 DEF AckedSoFar, srbVars
<1>9. OwedIsCurrent'
  <2>1. SUFFICES ASSUME NEW q \in owed \ {r}, ~Tainted(q.hint)
                 PROVE  /\ q.hint \in ProcessList'
                        /\ ExtSrb[q.hint] = q.srb
                        /\ q.offset = ChunkOffset'[q.hint]
                        /\ q.length = ChunkLength(q.hint)'
    BY <1>2, <1>4 DEF OwedIsCurrent
  <2>2. /\ q.hint \in ProcessList /\ ExtSrb[q.hint] = q.srb
        /\ q.offset = ChunkOffset[q.hint] /\ q.length = ChunkLength(q.hint)
        /\ q.hint # e
    BY <2>1, <1>3, OwedUnique
  <2>3. q.hint \in Ext \ {e}
    BY <2>2, <1>1
  <2>4. ChunkLength(q.hint)' = ChunkLength(q.hint)
    BY <2>3, <1>2, <1>5 DEF ChunkLength
  <2>5. QED
    BY <2>2, <2>3, <2>4, <1>3, <1>5
<1>10. ASSUME NEW s \in Srb, srbStatus[s] = "SUCCESS", ~Tainted(srbExt[s])
       PROVE  acked'[s] = 0 .. (srbLength[s] - 1)
  <2>1. acked[s] = 0 .. (srbLength[s] - 1)
    BY <1>10 DEF TransferInv, SuccessCoversTransfer
  <2>2. s # r.srb
    <3>1. SUFFICES ASSUME s = r.srb PROVE FALSE
      OBVIOUS
    <3>2. ~Tainted(e)
      BY <3>1, <1>1, <1>10
    <3>3. ExtSrb[e] = r.srb
      BY <3>2, <1>3, OwedUnique
    <3>4. srbStatus[ExtSrb[e]] = "pending"
      BY <1>1, <1>2, UnlinkEffect
    <3>5. QED
      BY <3>1, <3>3, <3>4, <1>10
  <2>3. QED
    BY <2>1, <2>2, <1>6
<1>11. SuccessCoversTransfer'
  BY <1>2, <1>4, <1>9, <1>10 DEF SuccessCoversTransfer, srbVars
<1>12. QED
  BY <1>7, <1>8, <1>11 DEF TransferInv

\* SpdIoqEndProcessingSrb.
LEMMA TransferResponse ==
  ASSUME IInv, TransferInv, NEW r \in owed, EndProcessingSrb(r)
  PROVE  TransferInv'
<1>1. owed' = owed \ {r}
  BY DEF EndProcessingSrb
<1>2. CASE EndIgnored(r)
  <2>1. UNCHANGED <<Stopped, ProcessList, ExtSrb, SystemDataLength,
                    ChunkOffset, srbVars, acked>>
    BY <1>2 DEF EndIgnored, ioqVars, extVars
  <2>2. owed' \subseteq owed
    BY <1>1
  <2>3. QED
    BY <2>1, <2>2, TransferFrame
<1>3. CASE EndError(r) \/ EndSuccess(r)
  BY <1>1, <1>3, TransferFinal
<1>4. CASE EndRepost(r)
  BY <1>1, <1>4, TransferRepost
<1>5. QED
  BY <1>2, <1>3, <1>4 DEF EndProcessingSrb

\* Every step keeps what is known of split transfers.
LEMMA NextTransfer == IInv /\ TransferInv /\ [Next]_vars => TransferInv'
<1> SUFFICES ASSUME IInv, TransferInv, [Next]_vars PROVE TransferInv'
  OBVIOUS
<1>1. CASE StartIo
  <2>1. PICK s \in Srb, e \in Ext, len \in DataLength :
          \/ PostSrb(s, e, len)
          \/ PostSrbStopped(s, e, len)
          \/ PostSrbNoAddress(s, e, len)
    BY <1>1 DEF StartIo
  <2>2. len \in Nat /\ 0 \in Nat
    BY ConstantAssumption
  <2>3. /\ \A f \in Ext \ {e} : ExtSrb'[f] = ExtSrb[f]
        /\ UNCHANGED <<Stopped, ProcessList, owed, acked>>
    BY <2>1 DEF PostSrb, PostSrbStopped, PostSrbNoAddress, SetSrb, ioqVars, userVars,
                IInv, TypeOK
  <2>4. \A how : Complete({s}, how) => srbStatus' = [srbStatus EXCEPT ![s] = how]
    BY DEF Complete, IInv, TypeOK
  <2>5. CASE PostSrb(s, e, len)
    <3>1. ZeroExtension(s, e, len) /\ srbStatus' = [srbStatus EXCEPT ![s] = "pending"]
      BY <2>5 DEF PostSrb
    <3>2. QED
      BY <3>1, <2>2, <2>3, TransferNew
  <2>6. CASE PostSrbStopped(s, e, len)
    <3>1. ZeroExtension(s, e, len) /\ srbStatus' = [srbStatus EXCEPT ![s] = "ABORTED"]
      BY <2>4, <2>6 DEF PostSrbStopped
    <3>2. QED
      BY <3>1, <2>2, <2>3, TransferNew
  <2>7. CASE PostSrbNoAddress(s, e, len)
    <3>1. ZeroExtension(s, e, 0) /\ srbStatus' = [srbStatus EXCEPT ![s] = "ERROR"]
      BY <2>4, <2>7 DEF PostSrbNoAddress
    <3>2. QED
      BY <3>1, <2>2, <2>3, TransferNew
  <2>8. QED
    BY <2>1, <2>5, <2>6, <2>7
<1>2. ASSUME NEW t \in Thread,
             Wake(t) \/ CancelWait(t) \/ KernelThread(t) \/ UserThread(t)
      PROVE  TransferInv'
  <2>1. CASE StartProcessingSrb(t)
    BY <2>1, TransferStart
  <2>2. ASSUME NEW r \in owed, TransactResponse(t, r)
        PROVE  TransferInv'
    BY <2>2, TransferResponse DEF TransactResponse
  <2>3. CASE \/ Wake(t) \/ CancelWait(t) \/ StartProcessingEmpty(t)
             \/ StartProcessingStopped(t) \/ CheckStopped(t)
             \/ TransactRequest(t) \/ ExitThread(t)
    <3>1. /\ UNCHANGED <<Stopped, ProcessList, ExtSrb, SystemDataLength,
                         ChunkOffset, srbVars, acked>>
          /\ owed' \subseteq owed
      BY <2>3 DEF Wake, CancelWait, StartProcessingEmpty, StartProcessingStopped,
                  CheckStopped, TransactRequest, ExitThread, ioqVars, extVars
    <3>2. QED
      BY <3>1, TransferFrame
  <2>4. QED
    BY <1>2, <2>1, <2>2, <2>3 DEF KernelThread, UserThread
<1>3. ASSUME NEW r \in owed, SendResponse(r)
      PROVE  TransferInv'
  BY <1>3, TransferResponse DEF SendResponse
<1>4. CASE Abort
  BY <1>4, TransferAbortCommand
<1>5. CASE Reset \/ Stop
  <2>1. /\ Complete({ExtSrb[e] : e \in Queued}, "ABORTED")
        /\ ProcessList' = {} /\ (Stopped => Stopped')
        /\ UNCHANGED <<ExtSrb, SystemDataLength, ChunkOffset, srbLength, srbExt,
                       owed, acked>>
    BY <1>5 DEF Reset, Stop, AbortQueued, Aborted, extVars, userVars
  <2>2. PICK S \in SUBSET Srb : S = {ExtSrb[e] : e \in Queued}
    BY DEF IInv, QueuedExactlyPending
  <2>3. \A x \in S : srbStatus[x] = "pending" /\ ExtSrb[srbExt[x]] = x
    BY <2>2 DEF IInv, QueuedExactlyPending
  <2>4. \A f \in ProcessList \ ProcessList' : f \in {srbExt[x] : x \in S}
    BY <2>2 DEF IInv, QueuedExactlyPending, Queued
  <2>5. QED
    BY <2>1, <2>2, <2>3, <2>4, TransferAbort
<1>6. CASE UNCHANGED vars
  <2>1. /\ UNCHANGED <<Stopped, ProcessList, ExtSrb, SystemDataLength,
                       ChunkOffset, srbVars, acked>>
        /\ owed' \subseteq owed
    BY <1>6 DEF vars, ioqVars, extVars, userVars
  <2>2. QED
    BY <2>1, TransferFrame
<1>7. QED
  BY <1>1, <1>2, <1>3, <1>4, <1>5, <1>6 DEF Next

\* A split transfer that SpdSrbExecuteScsiComplete reports as good has had
\* every block served by a response to that very SRB, and a request in user
\* mode asks for the chunk that is due, however requests, responses and the
\* reuse of extensions interleave, as long as no abort tainted the extension.
THEOREM AlwaysSuccessCoversTransfer == Spec => []SuccessCoversTransfer
<1>1. Init => TransferInv
  BY DEF Init, TransferInv, LengthKept, AckedSoFar, OwedNamesItsSrb,
         SuccessCoversTransfer, OwedIsCurrent
<1>2. TransferInv => SuccessCoversTransfer
  BY DEF TransferInv
<1>3. QED
  BY <1>1, <1>2, NextTransfer, Invariance, PTL DEF Spec

-----------------------------------------------------------------------------
(***************************************************************************)
(* Order of service.                                                       *)
(***************************************************************************)

\* What is in both lists is in the same order in both.
KeepsOrder(s, w) ==
  \A i, j \in DOMAIN s :
    i < j /\ s[i] \in ToSet(w) /\ s[j] \in ToSet(w) =>
      Position(w, s[i]) < Position(w, s[j])

\* StartedFirst for a list w and chunk offsets o.
StartedBefore(w, o) ==
  \A i, j \in DOMAIN w : i < j /\ o[w[j]] > 0 => o[w[i]] > 0

LEMMA PositionOf ==
  ASSUME NEW S, NEW w \in Seq(S), IsInjective(w), NEW k \in DOMAIN w
  PROVE  Position(w, w[k]) = k
<1>1. \A i \in DOMAIN w : w[i] = w[k] => i = k
  BY DEF IsInjective
<1>2. QED
  BY <1>1 DEF Position

\* To compare two lists it is enough to compare indices.
LEMMA IndexOrder ==
  ASSUME NEW S, NEW s \in Seq(S), NEW w \in Seq(S), IsInjective(w),
         \A i, j \in DOMAIN s, k, l \in DOMAIN w :
           i < j /\ w[k] = s[i] /\ w[l] = s[j] => k < l
  PROVE  KeepsOrder(s, w)
<1>1. SUFFICES ASSUME NEW i \in DOMAIN s, NEW j \in DOMAIN s, i < j,
                      s[i] \in ToSet(w), s[j] \in ToSet(w)
               PROVE  Position(w, s[i]) < Position(w, s[j])
  BY DEF KeepsOrder
<1>2. PICK k \in DOMAIN w : w[k] = s[i]
  BY <1>1 DEF ToSet
<1>3. PICK l \in DOMAIN w : w[l] = s[j]
  BY <1>1 DEF ToSet
<1>4. Position(w, s[i]) = k /\ Position(w, s[j]) = l
  BY <1>2, <1>3, PositionOf
<1>5. QED
  BY <1>1, <1>2, <1>3, <1>4

\* InsertTailList puts the new entry behind all others.
LEMMA AppendOrder ==
  ASSUME NEW S, NEW s \in Seq(S), IsInjective(s), NEW e \in S \ ToSet(s)
  PROVE  /\ KeepsOrder(s, Append(s, e))
         /\ \A i \in DOMAIN s :
              Position(Append(s, e), s[i]) < Position(Append(s, e), e)
<1>1. PICK w : w = Append(s, e)
  OBVIOUS
<1>2. PICK n \in Nat : n = Len(s)
  OBVIOUS
<1>3. /\ w \in Seq(S) /\ DOMAIN s = 1 .. n /\ DOMAIN w = 1 .. (n + 1)
      /\ w[n + 1] = e /\ \A i \in 1 .. n : w[i] = s[i]
  BY <1>1, <1>2
<1>4. IsInjective(w)
  BY <1>1, AppendElements
<1>5. \A i \in 1 .. (n + 1) : Position(w, w[i]) = i
  BY <1>3, <1>4, PositionOf
<1>6. \A i \in 1 .. n : Position(w, s[i]) = i
  BY <1>3, <1>5
<1>7. Position(w, e) = n + 1
  BY <1>3, <1>5
<1>8. QED
  BY <1>1, <1>3, <1>6, <1>7 DEF KeepsOrder

\* InsertHeadList leaves the order of the others alone.
LEMMA ConsOrder ==
  ASSUME NEW S, NEW s \in Seq(S), IsInjective(s), NEW e \in S \ ToSet(s)
  PROVE  KeepsOrder(s, Cons(e, s))
<1>1. PICK w : w = Cons(e, s)
  OBVIOUS
<1>2. PICK n \in Nat : n = Len(s)
  OBVIOUS
<1>3. /\ w \in Seq(S) /\ DOMAIN s = 1 .. n /\ DOMAIN w = 1 .. (n + 1)
      /\ \A i \in 1 .. n : w[i + 1] = s[i]
  BY <1>1, <1>2 DEF Cons
<1>4. IsInjective(w)
  BY <1>1, ConsElements
<1>5. \A i \in 1 .. (n + 1) : Position(w, w[i]) = i
  BY <1>3, <1>4, PositionOf
<1>6. \A i \in 1 .. n : Position(w, s[i]) = i + 1
  BY <1>3, <1>5
<1>7. QED
  BY <1>1, <1>3, <1>6 DEF KeepsOrder

\* Removing an entry, the first or any other, leaves the order of the rest
\* alone: k is where it was.
LEMMA RemoveOrder ==
  ASSUME NEW S, NEW s \in Seq(S), IsInjective(s), NEW w \in Seq(S),
         IsInjective(w), NEW k \in Nat, NEW n \in Nat,
         DOMAIN s = 1 .. n, DOMAIN w = 1 .. (n - 1),
         \A i \in 1 .. (n - 1) : w[i] = IF i < k THEN s[i] ELSE s[i + 1]
  PROVE  /\ KeepsOrder(s, w)
         /\ \A o : StartedBefore(s, o) => StartedBefore(w, o)
<1>1. \A i, j \in 1 .. n : s[i] = s[j] => i = j
  BY DEF IsInjective
<1>2. ASSUME NEW i \in 1 .. n, NEW p \in 1 .. (n - 1), w[p] = s[i]
      PROVE  i = IF p < k THEN p ELSE p + 1
  <2>1. p \in 1 .. n /\ p + 1 \in 1 .. n
    OBVIOUS
  <2>2. CASE p < k
    BY <2>1, <2>2, <1>1, <1>2
  <2>3. CASE ~(p < k)
    BY <2>1, <2>3, <1>1, <1>2
  <2>4. QED
    BY <2>2, <2>3
<1>3. \A i, j \in 1 .. n, p, q \in 1 .. (n - 1) :
        i < j /\ w[p] = s[i] /\ w[q] = s[j] => p < q
  BY <1>2
<1>4. KeepsOrder(s, w)
  BY <1>3, IndexOrder
<1>5. ASSUME NEW o, StartedBefore(s, o),
             NEW i \in 1 .. (n - 1), NEW j \in 1 .. (n - 1), i < j, o[w[j]] > 0
      PROVE  o[w[i]] > 0
  <2>1. PICK a \in 1 .. n : a = IF i < k THEN i ELSE i + 1
    OBVIOUS
  <2>2. PICK b \in 1 .. n : b = IF j < k THEN j ELSE j + 1
    OBVIOUS
  <2>3. w[i] = s[a] /\ w[j] = s[b] /\ a < b
    BY <2>1, <2>2, <1>5
  <2>4. QED
    BY <2>3, <1>5 DEF StartedBefore
<1>6. QED
  BY <1>4, <1>5 DEF StartedBefore

LEMMA TailOrder ==
  ASSUME NEW S, NEW s \in Seq(S), IsInjective(s), s # <<>>
  PROVE  /\ KeepsOrder(s, Tail(s))
         /\ \A o : StartedBefore(s, o) => StartedBefore(Tail(s), o)
<1>1. PICK w : w = Tail(s)
  OBVIOUS
<1>2. PICK n \in Nat : n = Len(s)
  OBVIOUS
<1>3. /\ w \in Seq(S) /\ DOMAIN s = 1 .. n /\ DOMAIN w = 1 .. (n - 1)
      /\ \A i \in 1 .. (n - 1) : w[i] = IF i < 1 THEN s[i] ELSE s[i + 1]
  BY <1>1, <1>2
<1>4. IsInjective(w)
  BY <1>1, TailElements
<1>5. 1 \in Nat
  OBVIOUS
<1>6. QED
  BY ONLY <1>1, <1>3, <1>4, <1>5, RemoveOrder, s \in Seq(S), IsInjective(s), n \in Nat

LEMMA SameOrder ==
  ASSUME NEW S, NEW s \in Seq(S), IsInjective(s)
  PROVE  KeepsOrder(s, s)
<1>1. \A i \in DOMAIN s : Position(s, s[i]) = i
  BY PositionOf
<1>2. QED
  BY <1>1 DEF KeepsOrder

\* What NoOvertaking says of one step, in terms of the two lists.
InOrder ==
  /\ StartedFirst'
  /\ KeepsOrder(PendingList, PendingList')
  /\ \A i, j \in DOMAIN PendingList :
       i < j /\ PendingList[i] \in ToSet(PendingList') =>
         PendingList[j] \notin ProcessList'
  /\ \A b \in ToSet(PendingList') \ ToSet(PendingList) :
       ChunkOffset'[b] = 0 =>
         \A i \in DOMAIN PendingList : PendingList[i] \in ToSet(PendingList') =>
           Position(PendingList', PendingList[i]) < Position(PendingList', b)

\* A step that leaves PendingList alone and starts nothing on it.
LEMMA SameListInOrder ==
  ASSUME IInv, StartedFirst, PendingList' = PendingList,
         ProcessList' \subseteq ProcessList,
         \A e \in ToSet(PendingList) : ChunkOffset'[e] = ChunkOffset[e]
  PROVE  InOrder
<1>1. PendingList \in Seq(Ext) /\ IsInjective(PendingList)
  BY DEF IInv, TypeOK, QueuedExactlyPending
<1>2. KeepsOrder(PendingList, PendingList')
  BY <1>1, SameOrder
<1>3. \A i \in DOMAIN PendingList : PendingList[i] \in ToSet(PendingList)
  BY DEF ToSet
<1>4. StartedFirst'
  BY <1>3 DEF StartedFirst
<1>5. \A j \in DOMAIN PendingList : PendingList[j] \notin ProcessList'
  BY <1>3 DEF IInv, QueuedExactlyPending
<1>6. QED
  BY <1>2, <1>4, <1>5 DEF InOrder

\* A new SRB goes to the tail, not started.
LEMMA PostInOrder ==
  ASSUME IInv, StartedFirst, NEW s \in Srb, NEW e \in Ext, NEW len \in DataLength,
         PostSrb(s, e, len)
  PROVE  InOrder
<1>1. PendingList \in Seq(Ext) /\ IsInjective(PendingList)
  BY DEF IInv, TypeOK, QueuedExactlyPending
<1>2. e \notin ToSet(PendingList)
  BY FreeExtNotQueued DEF PostSrb, ZeroExtension, Queued
<1>3. /\ PendingList' = Append(PendingList, e) /\ ProcessList' = ProcessList
      /\ ChunkOffset' = [ChunkOffset EXCEPT ![e] = 0]
  BY DEF PostSrb, InsertTail, ZeroExtension, ZeroOffset
<1>4. /\ KeepsOrder(PendingList, PendingList')
      /\ \A i \in DOMAIN PendingList :
           Position(PendingList', PendingList[i]) < Position(PendingList', e)
  BY <1>1, <1>2, <1>3, AppendOrder
<1>5. ToSet(PendingList') = ToSet(PendingList) \cup {e}
  BY <1>1, <1>3, AppendElements
<1>6. \A j \in DOMAIN PendingList : PendingList[j] \notin ProcessList'
  BY <1>3 DEF IInv, QueuedExactlyPending, ToSet
<1>7. StartedFirst'
  <2>1. PICK n \in Nat : n = Len(PendingList)
    BY <1>1
  <2>2. /\ DOMAIN PendingList = 1 .. n /\ DOMAIN PendingList' = 1 .. (n + 1)
        /\ PendingList'[n + 1] = e
        /\ \A i \in 1 .. n : PendingList'[i] = PendingList[i]
    BY <1>1, <1>3, <2>1
  <2>3. \A i \in 1 .. n : PendingList[i] \in Ext \ {e}
    <3>1. \A i \in 1 .. n : PendingList[i] \in ToSet(PendingList)
      BY <2>2 DEF ToSet
    <3>2. \A i \in 1 .. n : PendingList[i] \in Ext
      BY <1>1, <2>2
    <3>3. QED
      BY <1>2, <3>1, <3>2
  <2>4. /\ ChunkOffset'[e] = 0
        /\ \A i \in 1 .. n : ChunkOffset'[PendingList[i]] = ChunkOffset[PendingList[i]]
    BY <1>3, <2>3 DEF IInv, TypeOK
  <2>5. ASSUME NEW i \in 1 .. (n + 1), NEW j \in 1 .. (n + 1), i < j,
               ChunkOffset'[PendingList'[j]] > 0
        PROVE  ChunkOffset'[PendingList'[i]] > 0
    <3>1. j # n + 1
      BY <2>2, <2>4, <2>5
    <3>2. i \in 1 .. n /\ j \in 1 .. n
      BY <2>5, <3>1
    <3>3. QED
      BY <2>2, <2>4, <2>5, <3>2 DEF StartedFirst
  <2>6. QED
    BY <2>2, <2>5 DEF StartedFirst
<1>8. QED
  BY <1>4, <1>5, <1>6, <1>7 DEF InOrder

\* The SRB that is started is the first one.
LEMMA StartInOrder ==
  ASSUME IInv, StartedFirst, NEW t \in Thread, StartProcessingSrb(t)
  PROVE  InOrder
<1>1. PendingList \in Seq(Ext) /\ IsInjective(PendingList) /\ PendingList # <<>>
  BY DEF IInv, TypeOK, QueuedExactlyPending, StartProcessingSrb
<1>2. /\ PendingList' = Tail(PendingList) /\ ChunkOffset' = ChunkOffset
      /\ ProcessList' = ProcessList \cup {Head(PendingList)}
  BY DEF StartProcessingSrb
<1>3. /\ KeepsOrder(PendingList, PendingList')
      /\ \A o : StartedBefore(PendingList, o) => StartedBefore(PendingList', o)
  BY <1>1, <1>2, TailOrder
<1>4. StartedFirst'
  BY <1>2, <1>3 DEF StartedFirst, StartedBefore
<1>5. ToSet(PendingList') \subseteq ToSet(PendingList)
  BY <1>1, <1>2, TailElements
<1>6. \A i, j \in DOMAIN PendingList : i < j => PendingList[j] \notin ProcessList'
  <2>1. SUFFICES ASSUME NEW i \in DOMAIN PendingList, NEW j \in DOMAIN PendingList, i < j
                 PROVE  PendingList[j] \notin ProcessList'
    OBVIOUS
  <2>2. PendingList[j] \notin ProcessList
    BY DEF IInv, QueuedExactlyPending, ToSet
  <2>3. 1 \in DOMAIN PendingList /\ j # 1 /\ Head(PendingList) = PendingList[1]
    BY <1>1, <2>1
  <2>4. PendingList[j] # PendingList[1]
    BY <1>1, <2>3 DEF IsInjective
  <2>5. QED
    BY <1>2, <2>2, <2>3, <2>4
<1>7. QED
  BY <1>3, <1>4, <1>5, <1>6 DEF InOrder

\* An SRB with chunks left goes to the head, and it has been started.
LEMMA RepostInOrder ==
  ASSUME IInv, StartedFirst, NEW r \in owed, EndRepost(r)
  PROVE  InOrder
<1>1. PendingList \in Seq(Ext) /\ IsInjective(PendingList)
  BY DEF IInv, TypeOK, QueuedExactlyPending
<1>2. PICK e \in Ext : e = r.hint
  BY DEF IInv, TypeOK, Request
<1>3. e \notin ToSet(PendingList)
  BY <1>2, UnlinkEffect DEF EndRepost
<1>4. /\ PendingList' = Cons(e, PendingList) /\ ProcessList' \subseteq ProcessList
      /\ ChunkOffset' = [ChunkOffset EXCEPT ![e] = @ + ChunkLength(e)]
      /\ ~Done(e)
  BY <1>2 DEF EndRepost, InsertHead, Advance, Unlink
<1>5. KeepsOrder(PendingList, PendingList')
  BY <1>1, <1>3, <1>4, ConsOrder
<1>6. ToSet(PendingList') = ToSet(PendingList) \cup {e}
  <2>1. PICK l : l = PendingList
    OBVIOUS
  <2>2. l \in Seq(Ext) /\ e \in Ext
    BY <1>1, <2>1
  <2>3. ToSet(Cons(e, l)) = ToSet(l) \cup {e}
    BY ONLY <2>2, ConsElements
  <2>4. QED
    BY <1>4, <2>1, <2>3
<1>7. \A j \in DOMAIN PendingList : PendingList[j] \notin ProcessList'
  BY <1>4 DEF IInv, QueuedExactlyPending, ToSet
<1>8. ChunkOffset'[e] > 0
  <2>1. ChunkOffset[e] \in Nat /\ SystemDataLength[e] \in Nat /\ ChunkLength(e) \in Nat
    BY ChunkFits DEF IInv, TypeOK
  <2>2. ChunkLength(e) > 0
    BY <1>4, <2>1, ConstantAssumption DEF Done, ChunkLength
  <2>3. ChunkOffset'[e] = ChunkOffset[e] + ChunkLength(e)
    BY <1>4 DEF IInv, TypeOK
  <2>4. QED
    BY <2>1, <2>2, <2>3
<1>9. StartedFirst'
  <2>1. PICK n \in Nat : n = Len(PendingList)
    BY <1>1
  <2>2. /\ DOMAIN PendingList = 1 .. n /\ DOMAIN PendingList' = 1 .. (n + 1)
        /\ PendingList'[1] = e
        /\ \A i \in 2 .. (n + 1) : PendingList'[i] = PendingList[i - 1]
    <3>1. PICK l : l = PendingList
      OBVIOUS
    <3>2. l \in Seq(Ext) /\ n = Len(l)
      BY <1>1, <2>1, <3>1
    <3>3. PICK m : m = Cons(e, l)
      OBVIOUS
    <3>4. /\ DOMAIN l = 1 .. n /\ DOMAIN m = 1 .. (n + 1) /\ m[1] = e
          /\ \A i \in 2 .. (n + 1) : m[i] = l[i - 1]
      BY ONLY <3>2, <3>3, e \in Ext, n \in Nat DEF Cons
    <3>5. QED
      BY <1>4, <3>1, <3>3, <3>4
  <2>3. \A i \in 1 .. n : PendingList[i] \in Ext \ {e}
    <3>1. \A i \in 1 .. n : PendingList[i] \in ToSet(PendingList)
      BY <2>2 DEF ToSet
    <3>2. \A i \in 1 .. n : PendingList[i] \in Ext
      BY <1>1, <2>2
    <3>3. QED
      BY <1>3, <3>1, <3>2
  <2>4. \A i \in 1 .. n : ChunkOffset'[PendingList[i]] = ChunkOffset[PendingList[i]]
    BY <1>4, <2>3 DEF IInv, TypeOK
  <2>5. ASSUME NEW i \in 1 .. (n + 1), NEW j \in 1 .. (n + 1), i < j,
               ChunkOffset'[PendingList'[j]] > 0
        PROVE  ChunkOffset'[PendingList'[i]] > 0
    <3>1. CASE i = 1
      BY <1>8, <2>2, <3>1
    <3>2. CASE i # 1
      <4>1. PICK a \in 1 .. n : a = i - 1
        BY <3>2
      <4>2. PICK b \in 1 .. n : b = j - 1
        BY <2>5, <3>2
      <4>3. PendingList'[i] = PendingList[a] /\ PendingList'[j] = PendingList[b] /\ a < b
        BY <2>2, <2>5, <3>2, <4>1, <4>2
      <4>4. QED
        BY <2>2, <2>4, <2>5, <4>3 DEF StartedFirst
    <3>3. QED
      BY <3>1, <3>2
  <2>6. QED
    BY <2>2, <2>5 DEF StartedFirst
<1>10. QED
  BY <1>5, <1>6, <1>7, <1>8, <1>9 DEF InOrder

\* SpdIoqEndProcessingSrb.
LEMMA ResponseInOrder ==
  ASSUME IInv, StartedFirst, NEW r \in owed, EndProcessingSrb(r)
  PROVE  InOrder
<1>1. r.hint \in Ext
  BY DEF IInv, TypeOK, Request
<1>2. CASE EndIgnored(r) \/ EndError(r)
  <2>1. /\ PendingList' = PendingList /\ ProcessList' \subseteq ProcessList
        /\ ChunkOffset' = ChunkOffset
    BY <1>2 DEF EndIgnored, EndError, Unlink, ioqVars, extVars
  <2>2. QED
    BY <2>1, SameListInOrder
<1>3. CASE EndSuccess(r)
  <2>1. /\ PendingList' = PendingList /\ ProcessList' \subseteq ProcessList
        /\ r.hint \notin ToSet(PendingList)
    BY <1>1, <1>3, UnlinkEffect DEF EndSuccess
  <2>2. \A e \in Ext \ {r.hint} : ChunkOffset'[e] = ChunkOffset[e]
    BY <1>1, <1>3 DEF EndSuccess, Advance, IInv, TypeOK
  <2>3. \A e \in ToSet(PendingList) : ChunkOffset'[e] = ChunkOffset[e]
    BY <2>1, <2>2 DEF IInv, TypeOK, ToSet
  <2>4. QED
    BY <2>1, <2>3, SameListInOrder
<1>4. CASE EndRepost(r)
  BY <1>4, RepostInOrder
<1>5. QED
  BY <1>2, <1>3, <1>4 DEF EndProcessingSrb

LEMMA NextInOrder == IInv /\ StartedFirst /\ [Next]_vars => InOrder
<1> SUFFICES ASSUME IInv, StartedFirst, [Next]_vars PROVE InOrder
  OBVIOUS
<1>1. CASE StartIo
  <2>1. PICK s \in Srb, e \in Ext, len \in DataLength :
          \/ PostSrb(s, e, len)
          \/ PostSrbStopped(s, e, len)
          \/ PostSrbNoAddress(s, e, len)
    BY <1>1 DEF StartIo
  <2>2. CASE PostSrb(s, e, len)
    BY <2>2, PostInOrder
  <2>3. CASE PostSrbStopped(s, e, len) \/ PostSrbNoAddress(s, e, len)
    <3>1. /\ e \notin ExtInUse /\ ChunkOffset' = [ChunkOffset EXCEPT ![e] = 0]
          /\ PendingList' = PendingList /\ ProcessList' = ProcessList
      BY <2>3 DEF PostSrbStopped, PostSrbNoAddress, ZeroExtension, ZeroOffset, ioqVars
    <3>2. e \notin ToSet(PendingList)
      BY <3>1, FreeExtNotQueued DEF Queued
    <3>3. \A f \in ToSet(PendingList) : ChunkOffset'[f] = ChunkOffset[f]
      BY <3>1, <3>2 DEF IInv, TypeOK, ToSet
    <3>4. QED
      BY <3>1, <3>3, SameListInOrder
  <2>4. QED
    BY <2>1, <2>2, <2>3
<1>2. ASSUME NEW t \in Thread,
             Wake(t) \/ CancelWait(t) \/ KernelThread(t) \/ UserThread(t)
      PROVE  InOrder
  <2>1. CASE StartProcessingSrb(t)
    BY <2>1, StartInOrder
  <2>2. ASSUME NEW r \in owed, TransactResponse(t, r)
        PROVE  InOrder
    BY <2>2, ResponseInOrder DEF TransactResponse
  <2>3. CASE \/ Wake(t) \/ CancelWait(t) \/ StartProcessingEmpty(t)
             \/ StartProcessingStopped(t) \/ CheckStopped(t)
             \/ TransactRequest(t) \/ ExitThread(t)
    <3>1. PendingList' = PendingList /\ ProcessList' = ProcessList /\ ChunkOffset' = ChunkOffset
      BY <2>3 DEF Wake, CancelWait, StartProcessingEmpty, StartProcessingStopped,
                  CheckStopped, TransactRequest, ExitThread, ioqVars, extVars
    <3>2. QED
      BY <3>1, SameListInOrder
  <2>4. QED
    BY <1>2, <2>1, <2>2, <2>3 DEF KernelThread, UserThread
<1>3. ASSUME NEW r \in owed, SendResponse(r)
      PROVE  InOrder
  BY <1>3, ResponseInOrder DEF SendResponse
<1>4. CASE Abort
  BY <1>4, AbortCommandFrame, SameListInOrder
<1>5. CASE Reset \/ Stop
  <2>1. PendingList' = <<>> /\ ProcessList' = {}
    BY <1>5 DEF Reset, Stop, AbortQueued
  <2>2. ToSet(PendingList') = {} /\ DOMAIN PendingList' = {}
    BY <2>1 DEF ToSet
  <2>3. QED
    BY <2>1, <2>2 DEF InOrder, KeepsOrder, StartedFirst
<1>6. CASE UNCHANGED vars
  <2>1. PendingList' = PendingList /\ ProcessList' = ProcessList /\ ChunkOffset' = ChunkOffset
    BY <1>6 DEF vars, ioqVars, extVars
  <2>2. QED
    BY <2>1, SameListInOrder
<1>7. QED
  BY <1>1, <1>2, <1>3, <1>4, <1>5, <1>6 DEF Next

\* SRB's are served first come, first served, and the chunks of a split SRB
\* are not interleaved with new work: SpdIoqPostSrb inserts at the tail,
\* SpdIoqStartProcessingSrb takes the head, SpdIoqEndProcessingSrb reposts at
\* the head, and no reset or abort command reorders what it leaves.
THEOREM FirstComeFirstServed == Spec => NoOvertaking
<1>1. Init => StartedFirst
  BY DEF Init, StartedFirst
<1>2. InOrder => StartedFirst'
  BY DEF InOrder
<1>3. IInv /\ StartedFirst /\ [Next]_vars => StartedFirst'
  BY <1>2, NextInOrder
<1>4. IInv /\ StartedFirst /\ [Next]_vars =>
        [StartedFirst' /\ \A i \in DOMAIN PendingList :
           LET a == PendingList[i]
               Behind(b) == Position(PendingList', a) < Position(PendingList', b)
               New == ToSet(PendingList') \ ToSet(PendingList)
           IN  a \in ToSet(PendingList') =>
                 /\ \A j \in DOMAIN PendingList : i < j =>
                      /\ PendingList[j] \notin ProcessList'
                      /\ PendingList[j] \in ToSet(PendingList') =>
                           Behind(PendingList[j])
                 /\ \A b \in New : ChunkOffset'[b] = 0 => Behind(b)]_vars
  BY NextInOrder DEF InOrder, KeepsOrder
<1>5. QED
  BY <1>1, <1>3, <1>4, Invariance, PTL DEF Spec, NoOvertaking
=============================================================================
