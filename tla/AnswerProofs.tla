---------------------------- MODULE AnswerProofs ----------------------------
(***************************************************************************)
(* Theorems about what a prompt prints and about the answers that are      *)
(* kept.                                                                   *)
(*                                                                         *)
(* The response cache: for any workspaces, prompts, files, capacity and    *)
(* lifetime and any number of requests that wait together.                 *)
(*                                                                         *)
(* The credit packer: for any pool of bundles, tokens, profiles, budget    *)
(* and shares.  Sums of tokens come first, then what the operators of the  *)
(* packer return, the types of its state together with the tokens spent,   *)
(* and an invariant for each of the other properties.                      *)
(***************************************************************************)
EXTENDS ResponseCache, CreditBudget, SequenceTheorems, FiniteSetTheorems,
        WellFoundedInduction, TLAPS

-----------------------------------------------------------------------------
(* The LRU order: a sequence of keys without repetition *)

\* Induction over the naturals, of a set: it needs no operator for the
\* induction hypothesis.
LEMMA InductiveSet ==
    ASSUME NEW P, 0 \in P, \A n \in Nat : n \in P => n + 1 \in P
    PROVE  Nat \subseteq P
<1>1. SUFFICES ASSUME Nat \ P # {} PROVE FALSE
  OBVIOUS
<1>2. PICK n \in Nat \ P : \A m \in Nat \ P : ~(<<m, n>> \in OpToRel(<, Nat))
  BY <1>1, NatLessThanWellFounded, WFMin, Zenon
<1>3. \A m \in Nat \ P : ~(m < n)
  BY <1>2, Zenon DEF OpToRel
<1>4. n # 0 /\ n - 1 \in Nat /\ n - 1 < n /\ (n - 1) + 1 = n
  OBVIOUS
<1>5. n - 1 \in P
  BY <1>3, <1>4
<1> QED  BY <1>4, <1>5

\* A sequence without repetition is as long as its set of elements is large.
LEMMA DistinctCounts ==
    ASSUME NEW S, NEW s \in Seq(S), IsInjective(s)
    PROVE  Cardinality(ToSet(s)) = Len(s)
<1>1. Len(s) \in Nat /\ DOMAIN s = 1 .. Len(s) /\ s \in [1 .. Len(s) -> S]
  BY LenProperties
<1>2. s \in Bijection(1 .. Len(s), ToSet(s))
  BY <1>1 DEF Bijection, Injection, Surjection, IsInjective, ToSet
<1>3. ExistsBijection(1 .. Len(s), ToSet(s))
  BY <1>2 DEF ExistsBijection
<1> QED  BY <1>1, <1>3, FS_CountingElements

\* A key that is not in the order goes to its end.
LEMMA AppendKeeps ==
    ASSUME NEW S, NEW s \in Seq(S), IsInjective(s), NEW k \in S, k \notin ToSet(s)
    PROVE  /\ Append(s, k) \in Seq(S) /\ IsInjective(Append(s, k))
           /\ Len(Append(s, k)) = Len(s) + 1
           /\ ToSet(Append(s, k)) = ToSet(s) \cup {k}
           /\ Append(s, k)[Len(s) + 1] = k
<1> DEFINE t == Append(s, k)
<1>1. /\ t \in Seq(S) /\ Len(t) = Len(s) + 1 /\ t[Len(s) + 1] = k
      /\ \A i \in 1 .. Len(s) : t[i] = s[i]
  BY AppendProperties
<1>2. Len(s) \in Nat /\ DOMAIN s = 1 .. Len(s) /\ DOMAIN t = 1 .. Len(s) + 1
  BY <1>1, LenProperties
<1> HIDE DEF t
<1>3. IsInjective(t)
  BY <1>1, <1>2 DEF IsInjective, ToSet
<1>4. ToSet(t) = ToSet(s) \cup {k}
  <2>1. \A i \in DOMAIN t : t[i] \in ToSet(s) \cup {k}
    BY <1>1, <1>2 DEF ToSet
  <2>2. \A i \in DOMAIN s : s[i] \in ToSet(t)
    BY <1>1, <1>2 DEF ToSet
  <2>3. k \in ToSet(t)
    BY <1>1, <1>2 DEF ToSet
  <2> QED  BY <2>1, <2>2, <2>3 DEF ToSet
<1> QED  BY <1>1, <1>3, <1>4 DEF t

\* What is left when one place is taken out.
LEMMA RemoveAtLeaves ==
    ASSUME NEW S, NEW s \in Seq(S), IsInjective(s), NEW i \in 1 .. Len(s)
    PROVE  /\ RemoveAt(s, i) \in Seq(S) /\ IsInjective(RemoveAt(s, i))
           /\ Len(RemoveAt(s, i)) = Len(s) - 1
           /\ ToSet(RemoveAt(s, i)) = ToSet(s) \ {s[i]}
<1> DEFINE before == SubSeq(s, 1, i - 1)
           after  == SubSeq(s, i + 1, Len(s))
           t      == RemoveAt(s, i)
<1>0. Len(s) \in Nat /\ DOMAIN s = 1 .. Len(s) /\ \A j \in 1 .. Len(s) : s[j] \in S
  BY LenProperties, ElementOfSeq
<1>1. /\ before \in Seq(S) /\ Len(before) = i - 1
      /\ \A j \in 1 .. i - 1 : before[j] = s[j]
  BY SubSeqProperties
<1>2. /\ after \in Seq(S) /\ Len(after) = Len(s) - i
      /\ \A j \in 1 .. Len(s) - i : after[j] = s[i + j]
  BY SubSeqProperties
<1>3. t = before \o after
  BY DEF RemoveAt
<1> HIDE DEF before, after
<1> HIDE DEF t
<1>4. /\ t \in Seq(S) /\ Len(t) = Len(s) - 1
      /\ \A j \in 1 .. Len(s) - 1 :
            t[j] = IF j <= i - 1 THEN before[j] ELSE after[j - (i - 1)]
  <2>1. /\ before \o after \in Seq(S)
        /\ Len(before \o after) = Len(before) + Len(after)
        /\ \A j \in 1 .. Len(before) + Len(after) : (before \o after)[j] =
              IF j <= Len(before) THEN before[j] ELSE after[j - Len(before)]
    BY <1>1, <1>2, ConcatProperties
  <2>2. Len(before) + Len(after) = Len(s) - 1
    BY <1>0, <1>1, <1>2
  <2> QED  BY <1>1, <1>3, <2>1, <2>2
<1>5. \A j \in 1 .. Len(s) - 1 : t[j] = IF j < i THEN s[j] ELSE s[j + 1]
  <2> TAKE j \in 1 .. Len(s) - 1
  <2>1. CASE j < i
    BY <1>0, <1>1, <1>4, <2>1
  <2>2. CASE ~(j < i)
    <3>1. j - (i - 1) \in 1 .. Len(s) - i /\ i + (j - (i - 1)) = j + 1
      BY <1>0, <2>2
    <3> QED  BY <1>0, <1>2, <1>4, <2>2, <3>1
  <2> QED  BY <2>1, <2>2
<1>6. DOMAIN t = 1 .. Len(s) - 1
  BY <1>4, LenProperties
<1> DEFINE from(j) == IF j < i THEN j ELSE j + 1
<1>7. \A j \in DOMAIN t : from(j) \in DOMAIN s /\ from(j) # i /\ t[j] = s[from(j)]
  BY <1>0, <1>5, <1>6
<1>8. \A j, m \in DOMAIN t : from(j) = from(m) => j = m
  BY <1>0, <1>6
<1> HIDE DEF from
<1>9. IsInjective(t)
  BY <1>7, <1>8 DEF IsInjective
<1>10. ToSet(t) = ToSet(s) \ {s[i]}
  <2>1. \A j \in DOMAIN t : t[j] \in ToSet(s) \ {s[i]}
    BY <1>0, <1>7 DEF IsInjective, ToSet
  <2>2. ASSUME NEW j \in DOMAIN s, s[j] # s[i]
        PROVE  s[j] \in ToSet(t)
    <3>1. CASE j < i
      BY <1>0, <1>5, <1>6, <3>1 DEF ToSet
    <3>2. CASE j > i
      <4>1. j - 1 \in DOMAIN t /\ t[j - 1] = s[j]
        BY <1>0, <1>5, <1>6, <3>2
      <4> QED  BY <4>1 DEF ToSet
    <3> QED  BY <1>0, <2>2, <3>1, <3>2
  <2> QED  BY <2>1, <2>2 DEF ToSet
<1> QED  BY <1>4, <1>9, <1>10 DEF t

\* What is left when the oldest goes.
LEMMA TailLeaves ==
    ASSUME NEW S, NEW s \in Seq(S), IsInjective(s), s # <<>>
    PROVE  /\ Tail(s) \in Seq(S) /\ IsInjective(Tail(s))
           /\ Len(Tail(s)) = Len(s) - 1
           /\ ToSet(Tail(s)) = ToSet(s) \ {Head(s)}
<1>1. Len(s) \in Nat \ {0} /\ DOMAIN s = 1 .. Len(s) /\ Head(s) = s[1]
  BY EmptySeq, LenProperties
<1>2. /\ Tail(s) \in Seq(S) /\ Len(Tail(s)) = Len(s) - 1
      /\ \A i \in 1 .. Len(s) - 1 : Tail(s)[i] = s[i + 1]
      /\ DOMAIN Tail(s) = 1 .. Len(s) - 1
  BY HeadTailProperties, LenProperties
<1>3. IsInjective(Tail(s))
  BY <1>1, <1>2 DEF IsInjective
<1>4. ToSet(Tail(s)) = ToSet(s) \ {Head(s)}
  <2>1. \A i \in DOMAIN Tail(s) : Tail(s)[i] \in ToSet(s) \ {Head(s)}
    BY <1>1, <1>2 DEF IsInjective, ToSet
  <2>2. ASSUME NEW j \in DOMAIN s, s[j] # Head(s)
        PROVE  s[j] \in ToSet(Tail(s))
    <3>1. j - 1 \in DOMAIN Tail(s) /\ Tail(s)[j - 1] = s[j]
      BY <1>1, <1>2, <2>2
    <3> QED  BY <3>1 DEF ToSet
  <2> QED  BY <2>1, <2>2 DEF ToSet
<1> QED  BY <1>2, <1>3, <1>4

\* The first place of a key is where it is, and the key goes to the end.
LEMMA UsedOrder ==
    ASSUME items \in Seq(Key), IsInjective(items), NEW k \in Key
    PROVE  /\ Used(k) \in Seq(Key) /\ IsInjective(Used(k))
           /\ ToSet(Used(k)) = Held \cup {k}
           /\ Len(Used(k)) = IF k \in Held THEN Len(items) ELSE Len(items) + 1
           /\ Used(k)[Len(Used(k))] = k
           /\ k \notin Held => Used(k) = Append(items, k)
<1>1. Len(items) \in Nat /\ DOMAIN items = 1 .. Len(items)
  BY LenProperties
<1>2. CASE k \notin Held
  <2>1. RemoveFirst(items, k) = items
    BY <1>1, <1>2 DEF RemoveFirst, Held, ToSet
  <2> QED  BY <1>1, <1>2, <2>1, AppendKeeps DEF Used, Held
<1>3. CASE k \in Held
  <2>1. PICK i \in 1 .. Len(items) : items[i] = k
    BY <1>1, <1>3 DEF Held, ToSet
  <2> DEFINE I == {j \in 1 .. Len(items) : items[j] = k}
  <2>2. I = {i}
    BY <1>1, <2>1 DEF IsInjective
  <2>3. Min(I) = i
    BY <2>2 DEF Min
  <2>4. SelectInSeq(items, LAMBDA v : v = k) = Min(I)
    BY <2>2 DEF SelectInSeq
  <2>5. RemoveFirst(items, k) = RemoveAt(items, i)
    BY <2>1, <2>3, <2>4 DEF RemoveFirst
  <2> DEFINE rest == RemoveAt(items, i)
  <2>6. /\ rest \in Seq(Key) /\ IsInjective(rest)
        /\ Len(rest) = Len(items) - 1 /\ ToSet(rest) = Held \ {k}
    BY <2>1, RemoveAtLeaves DEF Held
  <2> HIDE DEF rest, I
  <2>7. Used(k) = Append(rest, k)
    BY <2>5 DEF Used, rest
  <2>8. /\ Append(rest, k) \in Seq(Key) /\ IsInjective(Append(rest, k))
        /\ Len(Append(rest, k)) = Len(rest) + 1
        /\ ToSet(Append(rest, k)) = ToSet(rest) \cup {k}
        /\ Append(rest, k)[Len(rest) + 1] = k
    BY <2>6, AppendKeeps
  <2> QED  BY <1>1, <1>3, <2>6, <2>7, <2>8
<1> QED  BY <1>2, <1>3

\* What the recursion of Without says of the first l places.
Leaves(f, K, l) ==
    f = [n \in 0 .. l |-> IF n = 0 THEN <<>>
                          ELSE IF items[n] \in K THEN f[n - 1]
                          ELSE Append(f[n - 1], items[n])]

\* The recursion of Without has a solution on every prefix of the order.
LEMMA WithoutExists ==
    ASSUME NEW K, NEW l \in Nat
    PROVE  \E f : Leaves(f, K, l)
<1> DEFINE step(f, n) == IF n = 0 THEN <<>>
                         ELSE IF items[n] \in K THEN f[n - 1]
                         ELSE Append(f[n - 1], items[n])
           P == {m \in Nat : \E f : f = [n \in 0 .. m |-> step(f, n)]}
<1>1. 0 \in P
  <2> DEFINE f == [n \in 0 .. 0 |-> <<>>]
  <2>1. f = [n \in 0 .. 0 |-> step(f, n)]
    OBVIOUS
  <2> QED  BY <2>1
<1>2. ASSUME NEW m \in Nat, m \in P
      PROVE  m + 1 \in P
  <2>1. PICK f : f = [n \in 0 .. m |-> step(f, n)]
    BY <1>2
  <2> DEFINE g == [n \in 0 .. m + 1 |-> IF n = m + 1 THEN step(f, n) ELSE f[n]]
  <2>2. ASSUME NEW n \in 0 .. m + 1
        PROVE  g[n] = step(g, n)
    <3>0. \A i \in 0 .. m : f[i] = step(f, i)
      BY <2>1
    <3>1. g[n] = step(f, n)
      <4>1. CASE n = m + 1
        BY <4>1
      <4>2. CASE n # m + 1
        <5>1. n \in 0 .. m /\ g[n] = f[n]
          BY <4>2
        <5> QED  BY <3>0, <5>1
      <4> QED  BY <4>1, <4>2
    <3>2. n # 0 => n - 1 \in 0 .. m /\ g[n - 1] = f[n - 1]
      OBVIOUS
    <3> QED  BY <3>1, <3>2
  <2>3. g = [n \in 0 .. m + 1 |-> step(g, n)]
    <3> DEFINE h == [n \in 0 .. m + 1 |-> step(g, n)]
    <3>1. \A n \in 0 .. m + 1 : g[n] = h[n]
      BY <2>2
    <3> QED  BY <3>1
  <2> HIDE DEF g
  <2>4. \E f2 : f2 = [n \in 0 .. m + 1 |-> step(f2, n)]
    BY <2>3
  <2> QED  BY <2>4
<1>3. Nat \subseteq P
  <2> HIDE DEF P
  <2> QED  BY <1>1, <1>2, InductiveSet
<1> QED  BY <1>3 DEF Leaves

\* Dropping keys from the order leaves the others, each in one place.
LEMMA WithoutOrder ==
    ASSUME items \in Seq(Key), IsInjective(items), NEW K
    PROVE  /\ Without(K) \in Seq(Key) /\ IsInjective(Without(K))
           /\ ToSet(Without(K)) = Held \ K
           /\ Len(Without(K)) <= Len(items)
<1> DEFINE l == Len(items)
           left == CHOOSE f : Leaves(f, K, l)
           First(n) == {items[i] : i \in 1 .. n}
           Good(r, n) == /\ r \in Seq(Key) /\ IsInjective(r) /\ Len(r) <= n
                         /\ ToSet(r) = First(n) \ K
           P == {n \in Nat : n <= l => Good(left[n], n)}
<1>1. l \in Nat /\ DOMAIN items = 1 .. l /\ \A n \in 1 .. l : items[n] \in Key
  BY LenProperties, ElementOfSeq
<1>2. Without(K) = left[l]
  BY DEF Without, Leaves
<1> HIDE DEF l
<1>3. Leaves(left, K, l)
  BY <1>1, WithoutExists
<1> HIDE DEF left
<1>4. 0 \in P
  <2>1. left[0] = <<>>
    BY <1>1, <1>3 DEF Leaves
  <2>2. <<>> \in Seq(Key) /\ IsInjective(<<>>) /\ Len(<<>>) <= 0
    BY EmptySeq DEF IsInjective
  <2>3. ToSet(<<>>) = {} /\ First(0) = {}
    BY DEF ToSet
  <2> QED  BY <2>1, <2>2, <2>3
<1>5. ASSUME NEW n \in Nat, n \in P
      PROVE  n + 1 \in P
  <2> SUFFICES ASSUME n + 1 <= l PROVE Good(left[n + 1], n + 1)
    OBVIOUS
  <2>1. n \in 0 .. l /\ n + 1 \in 1 .. l /\ n + 1 \in 0 .. l /\ n <= l
        /\ n + 1 # 0 /\ (n + 1) - 1 = n
    BY <1>1
  <2>2. left[n + 1] = IF items[n + 1] \in K THEN left[n]
                      ELSE Append(left[n], items[n + 1])
    BY <1>3, <2>1 DEF Leaves
  <2>3. Good(left[n], n)
    BY <1>5, <2>1
  <2>4. First(n + 1) = First(n) \cup {items[n + 1]}
    OBVIOUS
  <2>5. items[n + 1] \notin First(n)
    BY <1>1, <2>1 DEF IsInjective
  <2>6. Len(left[n]) \in Nat
    BY <2>3, LenProperties
  <2> HIDE DEF First
  <2>7. CASE items[n + 1] \in K
    BY <2>2, <2>3, <2>4, <2>6, <2>7
  <2>8. CASE items[n + 1] \notin K
    <3>1. items[n + 1] \in Key /\ items[n + 1] \notin ToSet(left[n])
      BY <1>1, <2>1, <2>3, <2>5
    <3>2. /\ Append(left[n], items[n + 1]) \in Seq(Key)
          /\ IsInjective(Append(left[n], items[n + 1]))
          /\ Len(Append(left[n], items[n + 1])) = Len(left[n]) + 1
          /\ ToSet(Append(left[n], items[n + 1])) =
                 ToSet(left[n]) \cup {items[n + 1]}
      BY <2>3, <3>1, AppendKeeps
    <3> QED  BY <2>2, <2>3, <2>4, <2>6, <2>8, <3>2
  <2> QED  BY <2>7, <2>8
<1>6. Good(left[l], l)
  <2> HIDE DEF Good
  <2>1. P \subseteq Nat /\ \A n \in P : n <= l => Good(left[n], n)
    OBVIOUS
  <2> HIDE DEF P
  <2>2. l \in P
    BY <1>1, <1>4, <1>5, InductiveSet
  <2> QED  BY <1>1, <2>1, <2>2
<1>7. First(l) = Held
  BY <1>1 DEF Held, ToSet
<1> QED  BY <1>2, <1>6, <1>7 DEF l

-----------------------------------------------------------------------------
(* The inductive invariant *)

\* The states of a request.
Asking == [at: {"idle", "waiting", "told"}, of: Key \cup {None},
           paths: SUBSET Path, told: Answer \cup {None}]

Types ==
    /\ items \in Seq(Key)
    /\ entry \in [Key -> Entry \cup {None}]
    /\ keyPaths \in [Held -> SUBSET Path]
    /\ fileIndex \in [Path -> SUBSET Key]
    /\ listed \in [Key -> SUBSET Path] /\ due \subseteq Key
    /\ now \in Nat
    /\ requests \in [Request -> Asking]
    /\ \A r \in Request : requests[r].at = "waiting" => requests[r].of \in Key

\* The order, the entries and the two indexes describe the same keys, and the
\* history of what they were put with is what the index of a key says.
SameKeys ==
    /\ IsInjective(items) /\ Len(items) <= Capacity
    /\ \A k \in Key : entry[k] # None <=> k \in Held
    /\ \A p \in Path : fileIndex[p] = {k \in Held : p \in keyPaths[k]}
    /\ \A k \in Held : listed[k] = keyPaths[k]

\* An entry is the whole answer to the question it is filed under.
OwnAnswers == \A k \in Held : entry[k].answer = [of |-> k, whole |-> TRUE]

CacheInv == Types /\ SameKeys /\ OwnAnswers /\ InvalidatedAnswersGo

\* The cache starts empty.
LEMMA InitInv == Init => CacheInv
<1> SUFFICES ASSUME Init PROVE CacheInv
  OBVIOUS
<1>1. Held = {} /\ IsInjective(items)
  BY DEF Init, Held, ToSet, IsInjective
<1>2. Types
  BY <1>1, EmptySeq DEF Init, Types, Unused, Asking
<1>3. SameKeys
  BY <1>1, EmptySeq, CacheConstants DEF Init, SameKeys, CacheConstants
<1> QED  BY <1>1, <1>2, <1>3 DEF CacheInv, OwnAnswers, InvalidatedAnswersGo

-----------------------------------------------------------------------------
(* Putting an entry *)

\* The order after a put: the new key is last, and only what was displaced
\* for it is gone.
LEMMA PutOrder ==
    ASSUME items \in Seq(Key), IsInjective(items), Len(items) <= Capacity,
           NEW k \in Key
    PROVE  /\ Kept(Used(k)) \in Seq(Key) /\ IsInjective(Kept(Used(k)))
           /\ Len(Kept(Used(k))) <= Capacity
           /\ ToSet(Kept(Used(k))) = (Held \ Displaced(k)) \cup {k}
           /\ Last(Kept(Used(k))) = k
           /\ Displaced(k) \subseteq Held
           /\ k \notin Held /\ Displaced(k) # {} =>
                 Len(items) = Capacity /\ Displaced(k) = {Head(items)}
<1> DEFINE order == Used(k)
<1>1. /\ order \in Seq(Key) /\ IsInjective(order)
      /\ ToSet(order) = Held \cup {k}
      /\ Len(order) = IF k \in Held THEN Len(items) ELSE Len(items) + 1
      /\ order[Len(order)] = k
      /\ k \notin Held => order = Append(items, k)
  BY UsedOrder
<1>2. Len(items) \in Nat /\ DOMAIN items = 1 .. Len(items) /\ Capacity \in Nat \ {0}
  BY LenProperties, CacheConstants DEF CacheConstants
<1> HIDE DEF order
<1>3. CASE Len(order) <= Capacity
  <2>1. Kept(order) = order
    BY <1>1, <1>2, <1>3 DEF Kept
  <2>2. Displaced(k) \subseteq {k} /\ (k \in Displaced(k) => k \in Held)
        /\ (k \notin Held => Displaced(k) = {})
    BY <1>1, <1>2, <1>3 DEF Displaced
  <2> QED  BY <1>1, <1>3, <2>1, <2>2 DEF Last, order
<1>4. CASE ~(Len(order) <= Capacity)
  <2>1. /\ k \notin Held /\ Len(items) = Capacity
        /\ order = Append(items, k) /\ items # <<>>
    <3>1. k \notin Held
      BY <1>1, <1>4
    <3>2. Len(items) + 1 > Capacity
      BY <1>1, <1>2, <1>4, <3>1
    <3>3. Len(items) = Capacity /\ Len(items) # 0
      <4> DEFINE n == Len(items)
      <4>1. n \in Nat /\ Capacity \in Nat \ {0} /\ n <= Capacity /\ n + 1 > Capacity
        BY <1>2, <3>2
      <4> HIDE DEF n
      <4>2. n = Capacity /\ n # 0
        BY <4>1
      <4> QED  BY <4>2 DEF n
    <3>4. items # <<>>
      BY <3>3, EmptySeq
    <3> QED  BY <1>1, <3>1, <3>3, <3>4
  <2>2. Displaced(k) = {Head(items)}
    BY <1>2, <2>1 DEF Displaced
  <2>3. Head(items) \in Held /\ Head(items) = items[1]
    BY <1>2, <2>1 DEF Held, ToSet
  <2>4. Kept(order) = Tail(order)
    BY <1>1, <1>2, <1>4 DEF Kept
  <2>5. order # <<>> /\ Head(order) = order[1] /\ order[1] = items[1]
    BY <1>1, <1>2, <2>1, AppendProperties
  <2>6. /\ Tail(order) \in Seq(Key) /\ IsInjective(Tail(order))
        /\ Len(Tail(order)) = Len(order) - 1
        /\ ToSet(Tail(order)) = ToSet(order) \ {Head(order)}
    BY <1>1, <2>5, TailLeaves
  <2>7. Tail(order)[Len(Tail(order))] = k
    BY <1>1, <1>2, <2>1, <2>5, <2>6, HeadTailProperties
  <2>8. ToSet(Tail(order)) = (Held \ {Head(items)}) \cup {k}
    BY <1>1, <2>1, <2>3, <2>5, <2>6
  <2> QED  BY <1>1, <1>2, <2>1, <2>2, <2>3, <2>4, <2>6, <2>7, <2>8 DEF Last, order
<1> QED  BY <1>3, <1>4

\* A put keeps the invariant, and says where the entries went.
LEMMA PutKeeps ==
    ASSUME CacheInv, NEW k \in Key, NEW paths \in SUBSET Path, UNCHANGED now,
           Put(k, [of |-> k, whole |-> TRUE], paths),
           requests' \in [Request -> Asking],
           \A r \in Request : requests'[r].at = "waiting" => requests'[r].of \in Key
    PROVE  CacheInv'
<1> USE DEF CacheInv, Types, SameKeys
<1> DEFINE kept == Kept(Used(k))
           gone == Displaced(k)
           new  == [answer |-> [of |-> k, whole |-> TRUE], expires |-> now + Ttl]
<1>1. /\ kept \in Seq(Key) /\ IsInjective(kept) /\ Len(kept) <= Capacity
      /\ ToSet(kept) = (Held \ gone) \cup {k} /\ gone \subseteq Held
  BY PutOrder
<1>2. /\ items' = kept
      /\ entry' = [j \in Key |-> IF j = k THEN new
                                 ELSE IF j \in ToSet(kept) THEN entry[j] ELSE None]
      /\ due' = due \ {k}
      /\ listed' = [j \in Key |-> IF j = k THEN paths
                                  ELSE IF j \in ToSet(kept) THEN listed[j] ELSE {}]
  BY DEF Put
<1>3. /\ keyPaths' = [j \in (DOMAIN keyPaths \ gone) \cup {k} |->
                        IF j = k THEN paths ELSE keyPaths[j]]
      /\ fileIndex' = [p \in Path |->
                         (fileIndex[p] \ {j \in gone \cap DOMAIN keyPaths :
                                            p \in keyPaths[j]})
                         \cup (IF p \in paths THEN {k} ELSE {})]
  BY DEF Put, Reindexed
<1> HIDE DEF kept, gone, new
<1>4. Held' = (Held \ gone) \cup {k} /\ Held' = ToSet(kept) /\ Held \subseteq Key
  <2>1. Held' = ToSet(items')
    BY DEF Held
  <2>2. Held \subseteq Key
    BY LenProperties, ElementOfSeq DEF Held, ToSet
  <2> QED  BY <1>1, <1>2, <2>1, <2>2
<1>5. new \in Entry /\ new # None /\ new.answer = [of |-> k, whole |-> TRUE]
  <2>1. [of |-> k, whole |-> TRUE] \in Answer /\ now + Ttl \in Nat
    BY CacheConstants DEF Answer, CacheConstants
  <2>2. new \in Entry /\ new.answer = [of |-> k, whole |-> TRUE]
    BY <2>1 DEF new, Entry
  <2> QED  BY <2>2, NoneIsNoEntry
<1>6. Types'
  <2>1. items' \in Seq(Key) /\ entry' \in [Key -> Entry \cup {None}] /\ now' \in Nat
    BY <1>1, <1>2, <1>5
  <2>2. keyPaths' \in [Held' -> SUBSET Path]
    BY <1>3, <1>4
  <2>3. fileIndex' \in [Path -> SUBSET Key]
    BY <1>3
  <2>4. listed' \in [Key -> SUBSET Path] /\ due' \subseteq Key
    BY <1>2
  <2> QED  BY <2>1, <2>2, <2>3, <2>4
<1>7. SameKeys'
  <2>1. IsInjective(items') /\ Len(items') <= Capacity
    BY <1>1, <1>2
  <2>2. \A j \in Key : entry'[j] # None <=> j \in Held'
    BY <1>1, <1>2, <1>4, <1>5
  <2>3. ASSUME NEW p \in Path
        PROVE  fileIndex'[p] = {j \in Held' : p \in keyPaths'[j]}
    <3>1. /\ DOMAIN keyPaths = Held /\ k \in Held => k \in gone
          /\ fileIndex[p] = {j \in Held : p \in keyPaths[j]}
      BY DEF gone, Displaced
    <3>2. fileIndex'[p] = {j \in Held \ gone : p \in keyPaths[j]}
                            \cup (IF p \in paths THEN {k} ELSE {})
      BY <1>3, <3>1
    <3>3. \A j \in Held' : keyPaths'[j] = IF j = k THEN paths ELSE keyPaths[j]
      BY <1>3, <1>4, <3>1
    <3>4. k \notin Held \ gone
      BY <3>1
    <3> QED  BY <1>4, <3>2, <3>3, <3>4
  <2>4. \A j \in Held' : listed'[j] = keyPaths'[j]
    BY <1>2, <1>3, <1>4
  <2> QED  BY <2>1, <2>2, <2>3, <2>4
<1>8. OwnAnswers'
  BY <1>2, <1>4, <1>5 DEF OwnAnswers
<1>9. InvalidatedAnswersGo'
  BY <1>2, <1>4 DEF InvalidatedAnswersGo
<1> QED  BY <1>6, <1>7, <1>8, <1>9

-----------------------------------------------------------------------------
(* The steps *)

\* A step that stores nothing and drops nothing.
LEMMA SameEntriesKeep ==
    ASSUME CacheInv, UNCHANGED <<entry, fileIndex, keyPaths, due, listed>>,
           items' \in Seq(Key), IsInjective(items'), Len(items') <= Capacity,
           Held' = Held, now' \in Nat,
           requests' \in [Request -> Asking],
           \A r \in Request : requests'[r].at = "waiting" => requests'[r].of \in Key
    PROVE  CacheInv'
<1>1. Types'
  BY DEF CacheInv, Types
<1>2. SameKeys'
  BY DEF CacheInv, SameKeys
<1>3. OwnAnswers' /\ InvalidatedAnswersGo'
  BY DEF CacheInv, OwnAnswers, InvalidatedAnswersGo
<1> QED  BY <1>1, <1>2, <1>3 DEF CacheInv

\* A look moves an entry to the end of the order, and a valid one is told.
LEMMA LookUpStep ==
    ASSUME CacheInv, NEW r \in Request, NEW w \in Workspace, NEW p \in Prompt,
           NEW paths \in SUBSET Path, LookUp(r, w, p, paths)
    PROVE  CacheInv' /\ Held' = Held
<1> DEFINE k == KeyOf(w, p)
<1>1. k \in Key /\ k = <<w, p>>
  BY DEF Key, KeyOf
<1>2. items \in Seq(Key) /\ IsInjective(items) /\ Len(items) <= Capacity
  BY DEF CacheInv, Types, SameKeys
<1>3. items' = IF k \in Held THEN Used(k) ELSE items
  BY DEF LookUp
<1> HIDE DEF k
<1>4. /\ items' \in Seq(Key) /\ IsInjective(items') /\ Len(items') <= Capacity
      /\ ToSet(items') = Held
  BY <1>1, <1>2, <1>3, UsedOrder DEF Held
<1>5. Held' = Held
  BY <1>4 DEF Held
<1>6. /\ requests' \in [Request -> Asking]
      /\ \A q \in Request : requests'[q].at = "waiting" => requests'[q].of \in Key
  <2>1. PICK a \in {"waiting", "told"}, t \in Answer \cup {None} :
          requests' = [requests EXCEPT
             ![r] = [at |-> a, of |-> <<w, p>>, paths |-> paths, told |-> t]]
    <3>1. Valid(k) => entry[k].answer \in Answer
      <4>1. k \in Held => entry[k] \in Entry
        BY <1>1 DEF CacheInv, Types, SameKeys
      <4> QED  BY <4>1 DEF Valid, Entry
    <3> QED  BY <3>1 DEF LookUp, k
  <2>2. [at |-> a, of |-> <<w, p>>, paths |-> paths, told |-> t] \in Asking
    BY <1>1 DEF Asking
  <2> QED  BY <1>1, <2>1, <2>2 DEF CacheInv, Types
<1>7. CacheInv'
  BY <1>4, <1>5, <1>6, SameEntriesKeep
    DEF LookUp, indexVars, histVars, CacheInv, Types
<1> QED  BY <1>5, <1>7

\* The entry that is put is the request's, with the answer to its question.
LEMMA AnswerStep ==
    ASSUME CacheInv, NEW r \in Request, ModelAnswers(r)
    PROVE  /\ CacheInv'
           /\ \E k \in Key, paths \in SUBSET Path :
                 Put(k, [of |-> k, whole |-> TRUE], paths)
<1> DEFINE q == requests[r].of
           answer == [of |-> q, whole |-> TRUE]
<1>1. q \in Key /\ requests[r] \in Asking /\ requests[r].paths \in SUBSET Path
  BY DEF ModelAnswers, CacheInv, Types, Asking
<1>2. KeyOf(q[1], q[2]) = q
  BY <1>1 DEF KeyOf, Key
<1>3. Put(q, answer, requests[r].paths)
  BY <1>2 DEF ModelAnswers
<1>4. /\ requests' = [requests EXCEPT ![r].at = "told", ![r].told = answer]
      /\ UNCHANGED now
  BY DEF ModelAnswers
<1>5. answer \in Answer
  BY <1>1 DEF Answer
<1>6. /\ requests' \in [Request -> Asking]
      /\ \A j \in Request : requests'[j].at = "waiting" => requests'[j].of \in Key
  BY <1>1, <1>4, <1>5 DEF CacheInv, Types, Asking
<1> HIDE DEF q
<1> QED  BY <1>1, <1>3, <1>4, <1>6, PutKeeps

\* A request that ends, and time that passes, leave the cache alone.
LEMMA QuietStep ==
    ASSUME CacheInv, (\E r \in Request : ModelFails(r) \/ Finish(r)) \/ Tick
    PROVE  CacheInv' /\ UNCHANGED items
<1>1. UNCHANGED <<items, entry, fileIndex, keyPaths, due, listed>> /\ now' \in Nat
  BY DEF ModelFails, Finish, Tick, indexVars, histVars, CacheInv, Types
<1>2. /\ requests' \in [Request -> Asking]
      /\ \A j \in Request : requests'[j].at = "waiting" => requests'[j].of \in Key
  <2>1. Unused \in Asking /\ Unused.at # "waiting"
    BY DEF Unused, Asking
  <2>2. CASE Tick
    BY <2>2 DEF Tick, CacheInv, Types
  <2>3. ASSUME NEW r \in Request, ModelFails(r) \/ Finish(r)
        PROVE  requests' = [requests EXCEPT ![r] = Unused]
    BY <2>3 DEF ModelFails, Finish
  <2> QED  BY <2>1, <2>2, <2>3 DEF CacheInv, Types
<1>3. Held' = Held
  BY <1>1 DEF Held
<1>4. items' \in Seq(Key) /\ IsInjective(items') /\ Len(items') <= Capacity
  BY <1>1 DEF CacheInv, Types, SameKeys
<1> QED  BY <1>1, <1>2, <1>3, <1>4, SameEntriesKeep

\* An invalidation takes the entries that list one of the files, and the
\* indexes forget them and nothing else.
LEMMA InvalidateStep ==
    ASSUME CacheInv, NEW w \in Workspace, NEW files \in SUBSET Path,
           InvalidateFiles(w, files)
    PROVE  CacheInv' /\ Held \ Held' \subseteq due'
<1> USE DEF CacheInv, Types, SameKeys
<1> DEFINE drop == Dropped(w, files)
<1>1. /\ items' = Without(drop)
      /\ entry' = [k \in Key |-> IF k \in drop THEN None ELSE entry[k]]
      /\ keyPaths' = [k \in DOMAIN keyPaths \ drop |-> keyPaths[k]]
      /\ fileIndex' = [p \in Path |-> fileIndex[p] \ drop]
      /\ due' = (due \cap Held)
                \cup {k \in Held : k[1] = w /\ listed[k] \cap files # {}}
      /\ listed' = [k \in Key |-> IF k \in ToSet(items') THEN listed[k] ELSE {}]
      /\ UNCHANGED <<now, requests>>
  BY DEF InvalidateFiles
<1>2. Held \subseteq Key
  BY LenProperties, ElementOfSeq DEF Held, ToSet
<1>3. drop = {k \in Held : k[1] = w /\ listed[k] \cap files # {}}
  <2>1. \A p \in files : fileIndex[p] = {k \in Held : p \in listed[k]}
    OBVIOUS
  <2> QED  BY <2>1 DEF Dropped
<1> HIDE DEF drop
<1>4. /\ items' \in Seq(Key) /\ IsInjective(items')
      /\ ToSet(items') = Held \ drop /\ Len(items') <= Len(items)
  BY <1>1, WithoutOrder
<1>5. Held' = Held \ drop /\ DOMAIN keyPaths = Held
  BY <1>4 DEF Held
<1>6. Len(items') <= Capacity
  BY <1>4, LenProperties, CacheConstants DEF CacheConstants
<1>7. Types'
  <2>1. keyPaths' \in [Held' -> SUBSET Path]
    BY <1>1, <1>5
  <2>2. /\ entry' \in [Key -> Entry \cup {None}]
        /\ fileIndex' \in [Path -> SUBSET Key]
    BY <1>1
  <2>3. listed' \in [Key -> SUBSET Path] /\ due' \subseteq Key
    BY <1>1, <1>2
  <2> QED  BY <1>1, <1>4, <2>1, <2>2, <2>3
<1>8. SameKeys'
  <2>1. \A k \in Key : entry'[k] # None <=> k \in Held'
    BY <1>1, <1>5
  <2>2. \A p \in Path : fileIndex'[p] = {k \in Held' : p \in keyPaths'[k]}
    BY <1>1, <1>5
  <2>3. \A k \in Held' : listed'[k] = keyPaths'[k]
    BY <1>1, <1>2, <1>4, <1>5
  <2> QED  BY <1>4, <1>6, <2>1, <2>2, <2>3
<1>9. OwnAnswers'
  BY <1>1, <1>2, <1>5 DEF OwnAnswers
<1>10. InvalidatedAnswersGo'
  BY <1>1, <1>3, <1>5 DEF InvalidatedAnswersGo
<1>11. Held \ Held' \subseteq due'
  BY <1>1, <1>3, <1>5
<1> QED  BY <1>7, <1>8, <1>9, <1>10, <1>11

\* Every step keeps the invariant.
LEMMA CacheStep == CacheInv /\ [Next]_vars => CacheInv'
<1> SUFFICES ASSUME CacheInv, [Next]_vars PROVE CacheInv'
  OBVIOUS
<1>1. CASE Next
  BY <1>1, LookUpStep, AnswerStep, QuietStep, InvalidateStep DEF Next
<1>2. CASE UNCHANGED vars
  <2>1. Held' = Held
    BY <1>2 DEF vars, Held
  <2> QED  BY <1>2, <2>1, SameEntriesKeep
           DEF vars, indexVars, histVars, CacheInv, Types, SameKeys
<1> QED  BY <1>1, <1>2

\* Hence it always holds.
LEMMA CacheInvAlways == Spec => []CacheInv
  BY InitInv, CacheStep, PTL DEF Spec

\* The order, the files of each entry and the entries of each file tell the
\* same story, and the cache keeps to its capacity, after any sequence of
\* puts, looks, evictions, expiries and invalidations.
THEOREM CacheIndexesAgree == Spec => []IndexesAgree
<1>1. CacheInv => IndexesAgree
  <2> SUFFICES ASSUME CacheInv PROVE IndexesAgree
    OBVIOUS
  <2> USE DEF CacheInv, Types, SameKeys
  <2>1. Len(items) = Cardinality(Held) /\ Len(items) <= Capacity
    BY DistinctCounts DEF Held
  <2>2. Held \subseteq Key
    BY LenProperties, ElementOfSeq DEF Held, ToSet
  <2>3. Held = {k \in Key : entry[k] # None}
    BY <2>2
  <2>4. DOMAIN keyPaths = Held
    OBVIOUS
  <2> QED  BY <2>1, <2>3, <2>4 DEF IndexesAgree
<1> QED  BY <1>1, CacheInvAlways, PTL

\* What a batch invalidated is not in the cache until it is put in anew.
THEOREM CacheDropsInvalidated == Spec => []InvalidatedAnswersGo
<1>1. CacheInv => InvalidatedAnswersGo
  BY DEF CacheInv
<1> QED  BY <1>1, CacheInvAlways, PTL

\* An entry leaves only because its files changed, or as the oldest of a full
\* cache, for a key that was not in it.
THEOREM CacheKeepsOthers == Spec => OthersStay
<1> DEFINE Stays == \A k \in Held \ ToSet(items') :
                       \/ k \in due'
                       \/ /\ Len(items) = Capacity /\ k = Head(items)
                          /\ Last(items') \notin Held
<1>1. CacheInv /\ [Next]_vars => [Stays]_vars
  <2> SUFFICES ASSUME CacheInv, Next PROVE Stays
    OBVIOUS
  <2>0. Held' = ToSet(items')
    BY DEF Held
  <2>1. CASE Held' = Held
    BY <2>0, <2>1
  <2>2. ASSUME NEW k \in Key, NEW paths \in SUBSET Path,
               Put(k, [of |-> k, whole |-> TRUE], paths)
        PROVE  Stays
    <3>1. items' = Kept(Used(k))
      BY <2>2 DEF Put
    <3>2. items \in Seq(Key) /\ IsInjective(items) /\ Len(items) <= Capacity
      BY DEF CacheInv, Types, SameKeys
    <3>3. /\ ToSet(items') = (Held \ Displaced(k)) \cup {k} /\ Last(items') = k
          /\ k \notin Held /\ Displaced(k) # {} =>
                Len(items) = Capacity /\ Displaced(k) = {Head(items)}
      BY <3>1, <3>2, PutOrder
    <3>4. k \in Held => Displaced(k) = {k}
      BY DEF Displaced
    <3> QED  BY <3>3, <3>4
  <2>3. ASSUME NEW r \in Request, ModelAnswers(r)
        PROVE  Stays
    BY <2>2, <2>3, AnswerStep
  <2>4. ASSUME NEW w \in Workspace, NEW files \in SUBSET Path,
               InvalidateFiles(w, files)
        PROVE  Stays
    BY <2>0, <2>4, InvalidateStep
  <2>5. CASE (\E r \in Request : ModelFails(r) \/ Finish(r)) \/ Tick
    <3>1. Held' = Held
      BY <2>5, QuietStep DEF Held
    <3> QED  BY <2>1, <3>1
  <2>6. ASSUME NEW r \in Request, NEW w \in Workspace, NEW p \in Prompt,
               NEW paths \in SUBSET Path, LookUp(r, w, p, paths)
        PROVE  Stays
    BY <2>1, <2>6, LookUpStep
  <2> QED  BY <2>3, <2>4, <2>5, <2>6 DEF Next
<1> QED  BY <1>1, CacheInvAlways, PTL DEF Spec, OthersStay

\* A request is told a cached answer only if it is the whole answer to its
\* own question, in its own workspace, and has not expired.
THEOREM CacheServesFittingAnswers == Spec => ServedAnswersFit
<1> DEFINE Fits(r) == LET q == requests'[r].of IN
                      /\ requests'[r].told = [of |-> q, whole |-> TRUE]
                      /\ \E k \in Held : entry[k].answer.of = q
                                         /\ now <= entry[k].expires
           Served == \A r \in Request :
                        requests[r].at = "idle" /\ requests'[r].at = "told" => Fits(r)
<1>1. CacheInv /\ [Next]_vars => [Served]_vars
  <2> SUFFICES ASSUME CacheInv, Next, NEW r \in Request,
                      requests[r].at = "idle", requests'[r].at = "told"
               PROVE  Fits(r)
    OBVIOUS
  <2>1. PICK w \in Workspace, p \in Prompt, paths \in SUBSET Path :
          LookUp(r, w, p, paths)
    <3>1. ASSUME NEW j \in Request, ModelAnswers(j) \/ ModelFails(j) \/ Finish(j)
          PROVE  requests'[r].at = requests[r].at
      BY <3>1 DEF ModelAnswers, ModelFails, Finish, CacheInv, Types
    <3>2. ASSUME NEW w \in Workspace, NEW files \in SUBSET Path,
                 InvalidateFiles(w, files)
          PROVE  requests'[r].at = requests[r].at
      BY <3>2 DEF InvalidateFiles
    <3>3. CASE Tick
      BY <3>3 DEF Tick
    <3>4. ASSUME NEW j \in Request, NEW w \in Workspace, NEW p \in Prompt,
                 NEW paths \in SUBSET Path, LookUp(j, w, p, paths), j # r
          PROVE  requests'[r].at = requests[r].at
      BY <3>4 DEF LookUp, CacheInv, Types
    <3> QED  BY <3>1, <3>2, <3>3, <3>4 DEF Next
  <2> DEFINE k == KeyOf(w, p)
  <2>2. k \in Key /\ k = <<w, p>>
    BY DEF Key, KeyOf
  <2>3. /\ Valid(k)
        /\ requests'[r] = [at |-> "told", of |-> <<w, p>>, paths |-> paths,
                           told |-> entry[k].answer]
    BY <2>1 DEF LookUp, CacheInv, Types
  <2> HIDE DEF k
  <2>4. entry[k] \in Entry /\ entry[k].answer = [of |-> k, whole |-> TRUE]
    BY <2>2, <2>3 DEF Valid, CacheInv, Types, SameKeys, OwnAnswers
  <2>5. now <= entry[k].expires
    BY <2>3, <2>4 DEF Valid, Entry, CacheInv, Types
  <2>6. k \in Held
    BY <2>3 DEF Valid
  <2> QED  BY <2>2, <2>3, <2>4, <2>5, <2>6
<1> QED  BY <1>1, CacheInvAlways, PTL DEF Spec, ServedAnswersFit

-----------------------------------------------------------------------------
(* Sums over finite sets *)

\* g sums f over the subsets of S, taking the elements in the order of CHOOSE.
Sums(g, f, S) ==
    g = [T \in SUBSET S |->
            IF T = {} THEN 0
            ELSE LET x == CHOOSE x \in T : TRUE IN f[x] + g[T \ {x}]]

\* A sum is the one CHOOSE picks among the functions that sum.
LEMMA SumIs ==
    ASSUME NEW f, NEW S
    PROVE  SumFunctionOnSet(f, S) = (CHOOSE g : Sums(g, f, S))[S]
  BY DEF SumFunctionOnSet, FoldFunctionOnSet, MapThenFoldSet, Sums

\* Taking an element away from a finite set takes one from its cardinality.
LEMMA OneLess ==
    ASSUME NEW T, IsFiniteSet(T), NEW x \in T
    PROVE  /\ IsFiniteSet(T \ {x})
           /\ Cardinality(T) \in Nat /\ Cardinality(T \ {x}) = Cardinality(T) - 1
           /\ Cardinality(T) # 0
  BY FS_RemoveElement, FS_CardinalityType, FS_EmptySet

\* Two such functions agree where both are defined.
LEMMA SumsAgree ==
    ASSUME NEW f, NEW S, NEW R, NEW g, NEW h, Sums(g, f, S), Sums(h, f, R),
           NEW T, T \in SUBSET S, T \in SUBSET R, IsFiniteSet(T)
    PROVE  g[T] = h[T]
<1> DEFINE P == {n \in Nat : \A U \in SUBSET T : Cardinality(U) <= n => g[U] = h[U]}
<1>1. \A U \in SUBSET T : IsFiniteSet(U) /\ Cardinality(U) \in Nat
  BY FS_Subset, FS_CardinalityType
<1>2. g[{}] = h[{}]
  BY DEF Sums
<1>3. 0 \in P
  BY <1>1, <1>2, FS_EmptySet
<1>4. ASSUME NEW n \in Nat, n \in P PROVE n + 1 \in P
  <2> SUFFICES ASSUME NEW U \in SUBSET T, Cardinality(U) <= n + 1, U # {}
               PROVE  g[U] = h[U]
    BY <1>2
  <2> DEFINE x == CHOOSE x \in U : TRUE
  <2>1. x \in U
    OBVIOUS
  <2>2. U \ {x} \in SUBSET T /\ Cardinality(U \ {x}) <= n
    <3> HIDE DEF x
    <3>1. IsFiniteSet(U)
      BY <1>1
    <3> QED  BY <2>1, <3>1, OneLess
  <2>3. g[U \ {x}] = h[U \ {x}]
    BY <1>4, <2>2
  <2>4. g[U] = f[x] + g[U \ {x}] /\ h[U] = f[x] + h[U \ {x}]
    BY DEF Sums
  <2> QED  BY <2>3, <2>4
<1> HIDE DEF P
<1>5. Nat \subseteq P
  BY <1>3, <1>4, InductiveSet
<1> QED  BY <1>1, <1>5 DEF P

\* Over a finite set there is such a function.
LEMMA SumsExist ==
    ASSUME NEW f, NEW S, IsFiniteSet(S)
    PROVE  Sums(CHOOSE g : Sums(g, f, S), f, S)
<1> DEFINE Exists(T) == \E g : Sums(g, f, T)
           P == {n \in Nat : \A U \in SUBSET S : Cardinality(U) <= n => Exists(U)}
           Best(T) == CHOOSE g : Sums(g, f, T)
           c(T) == CHOOSE x \in T : TRUE
<1>1. \A U \in SUBSET S : IsFiniteSet(U) /\ Cardinality(U) \in Nat
  BY FS_Subset, FS_CardinalityType
<1>2. ASSUME NEW U \in SUBSET S, Exists(U) PROVE Sums(Best(U), f, U)
  BY <1>2
<1>3. Exists({})
  <2> DEFINE g == [T \in SUBSET {} |-> 0]
  <2>1. g = [T \in SUBSET {} |-> IF T = {} THEN 0
                ELSE LET x == CHOOSE x \in T : TRUE IN f[x] + g[T \ {x}]]
    OBVIOUS
  <2> QED  BY <2>1 DEF Sums
<1>4. 0 \in P
  <2>1. \A U \in SUBSET S : Cardinality(U) <= 0 => U = {}
    BY <1>1, FS_EmptySet
  <2> QED  BY <1>3, <2>1
<1>5. ASSUME NEW n \in Nat, n \in P PROVE n + 1 \in P
  <2> SUFFICES ASSUME NEW U \in SUBSET S, Cardinality(U) <= n + 1
               PROVE  Exists(U)
    OBVIOUS
  <2> DEFINE g == [T \in SUBSET U |-> IF T = {} THEN 0
                      ELSE f[c(T)] + Best(T \ {c(T)})[T \ {c(T)}]]
             h == [T \in SUBSET U |-> IF T = {} THEN 0
                      ELSE f[c(T)] + g[T \ {c(T)}]]
  <2>1. ASSUME NEW R \in SUBSET U, Cardinality(R) <= n PROVE Best(R)[R] = g[R]
    <3>1. Sums(Best(R), f, R)
      BY <1>2, <1>5, <2>1
    <3>2. CASE R = {}
      <4>1. Best(R)[R] = 0
        BY <3>1, <3>2 DEF Sums
      <4>2. g[R] = 0
        BY <3>2
      <4> QED  BY <4>1, <4>2
    <3>3. CASE R # {}
      <4> DEFINE Q == R \ {c(R)}
      <4>1. c(R) \in R
        BY <3>3
      <4>2. Q \in SUBSET S /\ Cardinality(Q) <= n
        <5> HIDE DEF c
        <5>1. IsFiniteSet(R)
          BY <1>1
        <5>2. /\ Cardinality(R) \in Nat
              /\ Cardinality(R \ {c(R)}) = Cardinality(R) - 1
          BY <4>1, <5>1, OneLess
        <5>3. R \ {c(R)} \in SUBSET S
          BY <2>1
        <5> QED  BY <2>1, <5>2, <5>3
      <4>3. Sums(Best(Q), f, Q)
        BY <1>2, <1>5, <4>2
      <4>4. Best(R)[Q] = Best(Q)[Q]
        <5> HIDE DEF Best, Q
        <5>1. Q \in SUBSET R /\ Q \in SUBSET Q
          BY DEF Q
        <5> QED  BY <1>1, <3>1, <4>2, <4>3, <5>1, SumsAgree
      <4>5. Best(R)[R] = f[c(R)] + Best(R)[Q]
        <5> HIDE DEF Best
        <5> QED  BY <3>1, <3>3 DEF Sums
      <4>6. g[R] = f[c(R)] + Best(Q)[Q]
        <5> HIDE DEF Best
        <5> QED  BY <3>3
      <4> QED  BY <4>4, <4>5, <4>6
    <3> QED  BY <3>2, <3>3
  <2>2. ASSUME NEW T \in SUBSET U PROVE g[T] = h[T]
    <3>1. CASE T = {}
      BY <3>1
    <3>2. CASE T # {}
      <4> DEFINE R == T \ {c(T)}
      <4>1. c(T) \in T
        BY <3>2
      <4>2. Cardinality(T) <= n + 1
        BY <1>1, FS_Subset
      <4>3. R \in SUBSET U /\ Cardinality(R) <= n
        <5> HIDE DEF c
        <5>1. IsFiniteSet(T)
          BY <1>1
        <5> QED  BY <4>1, <4>2, <5>1, OneLess
      <4>4. Best(R)[R] = g[R]
        BY <2>1, <4>3
      <4> HIDE DEF Best
      <4> QED  BY <3>2, <4>4
    <3> QED  BY <3>1, <3>2
  <2>3. g = h
    <3>1. DOMAIN g = SUBSET U /\ DOMAIN h = SUBSET U
      OBVIOUS
    <3> HIDE DEF Best, c
    <3> QED  BY <2>2
  <2> HIDE DEF Best
  <2>4. g = [T \in SUBSET U |-> IF T = {} THEN 0
                ELSE LET x == CHOOSE x \in T : TRUE IN f[x] + g[T \ {x}]]
    <3> HIDE DEF g
    <3> QED  BY <2>3
  <2> HIDE DEF g
  <2> QED  BY <2>4 DEF Sums
<1> HIDE DEF P
<1>6. Nat \subseteq P
  BY <1>4, <1>5, InductiveSet
<1>7. Exists(S)
  BY <1>1, <1>6 DEF P
<1> QED  BY <1>2, <1>7

\* A sum over no element, and the element a sum takes first.
LEMMA SumFirst ==
    ASSUME NEW f, NEW T, IsFiniteSet(T)
    PROVE  /\ T = {} => SumFunctionOnSet(f, T) = 0
           /\ T # {} => LET x == CHOOSE x \in T : TRUE
                       IN  SumFunctionOnSet(f, T)
                           = f[x] + SumFunctionOnSet(f, T \ {x})
<1> DEFINE g == CHOOSE g : Sums(g, f, T)
           x == CHOOSE x \in T : TRUE
           h == CHOOSE h : Sums(h, f, T \ {x})
<1>1. IsFiniteSet(T \ {x})
  BY FS_Subset
<1>2. Sums(g, f, T) /\ Sums(h, f, T \ {x})
  <2> HIDE DEF x
  <2> QED  BY <1>1, SumsExist
<1>3. SumFunctionOnSet(f, T) = g[T] /\ SumFunctionOnSet(f, T \ {x}) = h[T \ {x}]
  <2> HIDE DEF x
  <2> QED  BY SumIs
<1> HIDE DEF g, h
<1>4. g[T \ {x}] = h[T \ {x}]
  <2> HIDE DEF x
  <2> QED  BY <1>1, <1>2, SumsAgree
<1>5. /\ T = {} => g[T] = 0
      /\ T # {} => g[T] = f[x] + g[T \ {x}]
  BY <1>2 DEF Sums
<1> QED  BY <1>3, <1>4, <1>5

\* Sums are integers, natural numbers if what is summed is.
LEMMA SumType ==
    ASSUME NEW f, NEW T, IsFiniteSet(T), \A x \in T : f[x] \in Int
    PROVE  /\ SumFunctionOnSet(f, T) \in Int
           /\ (\A x \in T : f[x] >= 0) => SumFunctionOnSet(f, T) >= 0
<1> DEFINE Good(U) == /\ SumFunctionOnSet(f, U) \in Int
                      /\ (\A x \in T : f[x] >= 0) => SumFunctionOnSet(f, U) >= 0
           P == {n \in Nat : \A U \in SUBSET T : Cardinality(U) <= n => Good(U)}
<1>1. \A U \in SUBSET T : IsFiniteSet(U) /\ Cardinality(U) \in Nat
  BY FS_Subset, FS_CardinalityType
<1>2. Good({})
  <2>1. IsFiniteSet({})
    BY FS_EmptySet
  <2>2. SumFunctionOnSet(f, {}) = 0
    BY <2>1, SumFirst
  <2> QED  BY <2>2
<1>3. 0 \in P
  BY <1>1, <1>2, FS_EmptySet
<1>4. ASSUME NEW n \in Nat, n \in P PROVE n + 1 \in P
  <2> SUFFICES ASSUME NEW U \in SUBSET T, Cardinality(U) <= n + 1, U # {}
               PROVE  Good(U)
    BY <1>2
  <2> DEFINE x == CHOOSE x \in U : TRUE
  <2>1. x \in U /\ x \in T
    OBVIOUS
  <2>2. IsFiniteSet(U)
    BY <1>1
  <2>3. SumFunctionOnSet(f, U) = f[x] + SumFunctionOnSet(f, U \ {x})
    BY <2>2, SumFirst
  <2> HIDE DEF x
  <2>4. U \ {x} \in SUBSET T /\ Cardinality(U \ {x}) <= n
    BY <2>1, <2>2, OneLess
  <2>5. Good(U \ {x})
    BY <1>4, <2>4
  <2> QED  BY <2>1, <2>3, <2>5
<1> HIDE DEF P
<1>5. Nat \subseteq P
  BY <1>3, <1>4, InductiveSet
<1> QED  BY <1>1, <1>5 DEF P

\* Any element may be taken first.
LEMMA SumRemove ==
    ASSUME NEW f, NEW T, IsFiniteSet(T), \A x \in T : f[x] \in Int, NEW y \in T
    PROVE  SumFunctionOnSet(f, T) = f[y] + SumFunctionOnSet(f, T \ {y})
<1> DEFINE Good(U) == \A z \in U : SumFunctionOnSet(f, U)
                                     = f[z] + SumFunctionOnSet(f, U \ {z})
           P == {n \in Nat : \A U \in SUBSET T : Cardinality(U) <= n => Good(U)}
<1>1. \A U \in SUBSET T : IsFiniteSet(U) /\ Cardinality(U) \in Nat
  BY FS_Subset, FS_CardinalityType
<1>2. 0 \in P
  BY <1>1, FS_EmptySet
<1>3. ASSUME NEW n \in Nat, n \in P PROVE n + 1 \in P
  <2> SUFFICES ASSUME NEW U \in SUBSET T, Cardinality(U) <= n + 1, NEW z \in U
               PROVE  SumFunctionOnSet(f, U) = f[z] + SumFunctionOnSet(f, U \ {z})
    OBVIOUS
  <2> DEFINE x == CHOOSE x \in U : TRUE
             S(V) == SumFunctionOnSet(f, V)
  <2>1. x \in U /\ x \in T /\ z \in T
    OBVIOUS
  <2>2. IsFiniteSet(U) /\ IsFiniteSet(U \ {z}) /\ IsFiniteSet(U \ {x})
    BY <1>1
  <2>3. S(U) = f[x] + S(U \ {x})
    BY <2>2, SumFirst
  <2> HIDE DEF x
  <2>4. CASE z = x
    BY <2>3, <2>4
  <2>5. CASE z # x
    <3>1. /\ U \ {x} \in SUBSET T /\ Cardinality(U \ {x}) <= n
          /\ U \ {z} \in SUBSET T /\ Cardinality(U \ {z}) <= n
      BY <2>1, <2>2, OneLess
    <3>2. z \in U \ {x} /\ x \in U \ {z}
      BY <2>1, <2>5
    <3>3. S(U \ {x}) = f[z] + S((U \ {x}) \ {z})
      BY <1>3, <3>1, <3>2
    <3>4. S(U \ {z}) = f[x] + S((U \ {z}) \ {x})
      BY <1>3, <3>1, <3>2
    <3>5. (U \ {x}) \ {z} = (U \ {z}) \ {x}
      OBVIOUS
    <3> DEFINE A == U \ {x}
               B == U \ {z}
               C == A \ {z}
    <3>6. S(C) \in Int /\ f[x] \in Int /\ f[z] \in Int
      <4>1. IsFiniteSet(C)
        BY <1>1
      <4>2. \A v \in C : f[v] \in Int
        OBVIOUS
      <4> QED  BY <2>1, <4>1, <4>2, SumType
    <3>7. S(A) = f[z] + S(C) /\ S(B) = f[x] + S(C) /\ S(U) = f[x] + S(A)
      BY <2>3, <3>3, <3>4, <3>5, Zenon
    <3> HIDE DEF S, A, B, C
    <3>8. S(U) = f[z] + S(B)
      BY <3>6, <3>7
    <3> QED  BY <3>8 DEF S, B
  <2> QED  BY <2>4, <2>5
<1> HIDE DEF P
<1>4. Nat \subseteq P
  BY <1>2, <1>3, InductiveSet
<1> QED  BY <1>1, <1>4 DEF P

\* Sums over disjoint sets add up, and only what is summed matters.
LEMMA SumUnion ==
    ASSUME NEW f, NEW g, NEW S, NEW T, IsFiniteSet(S), IsFiniteSet(T), S \cap T = {},
           NEW h, \A x \in S : h[x] = f[x] /\ f[x] \in Int,
           \A x \in T : h[x] = g[x] /\ g[x] \in Int
    PROVE  SumFunctionOnSet(h, S \cup T)
           = SumFunctionOnSet(f, S) + SumFunctionOnSet(g, T)
<1> DEFINE F(V) == SumFunctionOnSet(f, V)
           G(V) == SumFunctionOnSet(g, V)
           H(V) == SumFunctionOnSet(h, V)
           P == {n \in Nat : \A U \in SUBSET S : \A V \in SUBSET T :
                   Cardinality(U \cup V) <= n => H(U \cup V) = F(U) + G(V)}
<1>1. IsFiniteSet(S \cup T) /\ \A U \in SUBSET (S \cup T) :
         IsFiniteSet(U) /\ Cardinality(U) \in Nat
  <2>1. IsFiniteSet(S \cup T)
    BY FS_Union
  <2> QED  BY <2>1, FS_Subset, FS_CardinalityType
<1>2. H({}) = 0 /\ F({}) = 0 /\ G({}) = 0
  BY FS_EmptySet, SumFirst
<1>3. \A x \in S \cup T : h[x] \in Int
  OBVIOUS
<1> HIDE DEF F, G, H
<1>4. 0 \in P
  <2> SUFFICES ASSUME NEW U \in SUBSET S, NEW V \in SUBSET T,
                      Cardinality(U \cup V) <= 0
               PROVE  H(U \cup V) = F(U) + G(V)
    OBVIOUS
  <2>1. U \cup V \in SUBSET (S \cup T)
    OBVIOUS
  <2>2. U \cup V = {}
    BY <1>1, <2>1, FS_EmptySet
  <2>3. U = {} /\ V = {}
    BY <2>2
  <2> QED  BY <1>2, <2>2, <2>3
<1>5. ASSUME NEW n \in Nat, n \in P PROVE n + 1 \in P
  <2> SUFFICES ASSUME NEW U \in SUBSET S, NEW V \in SUBSET T,
                      Cardinality(U \cup V) <= n + 1
               PROVE  H(U \cup V) = F(U) + G(V)
    OBVIOUS
  <2>1. IsFiniteSet(U \cup V) /\ IsFiniteSet(U) /\ IsFiniteSet(V)
    BY <1>1
  <2>2. CASE U \cup V = {}
    <3>1. U = {} /\ V = {}
      BY <2>2
    <3> QED  BY <1>2, <2>2, <3>1
  <2>3. ASSUME NEW x \in U PROVE H(U \cup V) = F(U) + G(V)
    <3>1. x \notin V /\ (U \cup V) \ {x} = (U \ {x}) \cup V
      OBVIOUS
    <3>2. Cardinality((U \ {x}) \cup V) <= n
      <4>1. x \in U \cup V
        OBVIOUS
      <4>2. /\ Cardinality(U \cup V) \in Nat
            /\ Cardinality((U \cup V) \ {x}) = Cardinality(U \cup V) - 1
        BY <2>1, <4>1, OneLess
      <4>3. Cardinality((U \ {x}) \cup V) = Cardinality((U \cup V) \ {x})
        BY <3>1, Zenon
      <4> QED  BY <4>2, <4>3
    <3>3. H((U \ {x}) \cup V) = F(U \ {x}) + G(V)
      <4>1. U \ {x} \in SUBSET S
        OBVIOUS
      <4> QED  BY <1>5, <3>2, <4>1
    <3>4. H(U \cup V) = h[x] + H((U \ {x}) \cup V)
      BY <1>3, <2>1, <3>1, SumRemove DEF H
    <3>5. F(U) = f[x] + F(U \ {x})
      BY <2>1, SumRemove DEF F
    <3>6. F(U \ {x}) \in Int /\ G(V) \in Int
      <4>1. IsFiniteSet(U \ {x}) /\ \A y \in U \ {x} : f[y] \in Int
        BY <2>1, OneLess
      <4>2. \A y \in V : g[y] \in Int
        OBVIOUS
      <4> QED  BY <2>1, <4>1, <4>2, SumType DEF F, G
    <3> QED  BY <3>3, <3>4, <3>5, <3>6
  <2>4. ASSUME NEW x \in V PROVE H(U \cup V) = F(U) + G(V)
    <3>1. x \notin U /\ (U \cup V) \ {x} = U \cup (V \ {x})
      OBVIOUS
    <3>2. Cardinality(U \cup (V \ {x})) <= n
      <4>1. x \in U \cup V
        OBVIOUS
      <4>2. /\ Cardinality(U \cup V) \in Nat
            /\ Cardinality((U \cup V) \ {x}) = Cardinality(U \cup V) - 1
        BY <2>1, <4>1, OneLess
      <4>3. Cardinality(U \cup (V \ {x})) = Cardinality((U \cup V) \ {x})
        BY <3>1, Zenon
      <4> QED  BY <4>2, <4>3
    <3>3. H(U \cup (V \ {x})) = F(U) + G(V \ {x})
      <4>1. V \ {x} \in SUBSET T
        OBVIOUS
      <4> QED  BY <1>5, <3>2, <4>1
    <3>4. H(U \cup V) = h[x] + H(U \cup (V \ {x}))
      BY <1>3, <2>1, <3>1, SumRemove DEF H
    <3>5. G(V) = g[x] + G(V \ {x})
      BY <2>1, SumRemove DEF G
    <3>6. F(U) \in Int /\ G(V \ {x}) \in Int
      <4>1. IsFiniteSet(V \ {x}) /\ \A y \in V \ {x} : g[y] \in Int
        BY <2>1, OneLess
      <4>2. \A y \in U : f[y] \in Int
        OBVIOUS
      <4> QED  BY <2>1, <4>1, <4>2, SumType DEF F, G
    <3> QED  BY <3>3, <3>4, <3>5, <3>6
  <2> QED  BY <2>2, <2>3, <2>4
<1> HIDE DEF P
<1>6. Nat \subseteq P
  BY <1>4, <1>5, InductiveSet
<1>7. S \cup T \in SUBSET (S \cup T) /\ S \in SUBSET S /\ T \in SUBSET T
  OBVIOUS
<1>8. H(S \cup T) = F(S) + G(T)
  BY <1>1, <1>6, <1>7 DEF P
<1> QED  BY <1>8 DEF F, G, H

-----------------------------------------------------------------------------
(* Numbers *)

\* A finite set of integers has a largest element.
LEMMA MaxExists ==
    ASSUME NEW S, IsFiniteSet(S), S # {}, \A x \in S : x \in Int
    PROVE  Max(S) \in S /\ \A y \in S : Max(S) >= y
<1> DEFINE Top(T) == \E x \in T : \A y \in T : x >= y
           P == {n \in Nat : \A T \in SUBSET S :
                    T # {} /\ Cardinality(T) <= n => Top(T)}
<1>1. \A T \in SUBSET S : IsFiniteSet(T) /\ Cardinality(T) \in Nat
  BY FS_Subset, FS_CardinalityType
<1>2. 0 \in P
  BY <1>1, FS_EmptySet
<1>3. ASSUME NEW n \in Nat, n \in P PROVE n + 1 \in P
  <2> SUFFICES ASSUME NEW T \in SUBSET S, T # {}, Cardinality(T) <= n + 1
               PROVE  Top(T)
    OBVIOUS
  <2>1. PICK x \in T : TRUE
    OBVIOUS
  <2>2. CASE T \ {x} = {}
    <3>1. T = {x}
      BY <2>1, <2>2
    <3>2. x \in Int
      OBVIOUS
    <3> QED  BY <3>1, <3>2
  <2>3. CASE T \ {x} # {}
    <3>1. IsFiniteSet(T)
      BY <1>1
    <3>2. Cardinality(T \ {x}) <= n
      BY <3>1, OneLess
    <3>3. PICK z \in T \ {x} : \A y \in T \ {x} : z >= y
      <4>1. T \ {x} \in SUBSET S
        OBVIOUS
      <4>2. Top(T \ {x})
        BY <1>3, <2>3, <3>2, <4>1
      <4> QED  BY <4>2
    <3>4. x \in Int /\ \A y \in T : y \in Int
      OBVIOUS
    <3>5. CASE z >= x
      BY <3>3, <3>5
    <3>6. CASE ~(z >= x)
      <4>1. \A y \in T : x >= y
        BY <3>3, <3>4, <3>6
      <4> QED  BY <4>1
    <3> QED  BY <3>5, <3>6
  <2> QED  BY <2>2, <2>3
<1> HIDE DEF P
<1>4. Nat \subseteq P
  BY <1>2, <1>3, InductiveSet
<1>5. Top(S)
  BY <1>1, <1>4 DEF P
<1> QED  BY <1>5 DEF Max

\* A set of natural numbers has a least element.
LEMMA MinExists ==
    ASSUME NEW S, S \subseteq Nat, S # {}
    PROVE  Min(S) \in S /\ \A y \in S : Min(S) <= y
<1>1. PICK x \in S : \A y \in S : ~(<<y, x>> \in OpToRel(<, Nat))
  BY NatLessThanWellFounded, WFMin, Zenon
<1>2. \A y \in S : ~(y < x)
  BY <1>1, Zenon DEF OpToRel
<1>3. \E z \in S : \A y \in S : z <= y
  BY <1>2
<1> QED  BY <1>3 DEF Min

\* The number with k numbers of the set up to it.
LEMMA NthExists ==
    ASSUME NEW S, S \subseteq Nat, IsFiniteSet(S), NEW k \in 1 .. Cardinality(S)
    PROVE  Nth(S, k) \in S
<1> DEFINE UpTo(i) == {j \in S : j <= i}
           Late == {i \in S : Cardinality(UpTo(i)) >= k}
           i == Min(Late)
<1>1. \A T \in SUBSET S : IsFiniteSet(T) /\ Cardinality(T) \in Nat
  BY FS_Subset, FS_CardinalityType
<1>2. S # {}
  BY FS_EmptySet
<1>3. Late # {}
  <2>1. Max(S) \in S /\ \A y \in S : Max(S) >= y
    <3>1. \A x \in S : x \in Int
      OBVIOUS
    <3> QED  BY <1>2, <3>1, MaxExists
  <2>2. UpTo(Max(S)) = S
    BY <2>1
  <2>3. k <= Cardinality(S)
    BY <1>1
  <2> QED  BY <1>1, <2>1, <2>2, <2>3
<1>4. i \in Late /\ \A y \in Late : i <= y
  <2> HIDE DEF Late
  <2>1. Late \subseteq Nat
    BY DEF Late
  <2> QED  BY <1>3, <2>1, MinExists
<1> HIDE DEF i
<1>5. i \in S /\ IsFiniteSet(UpTo(i)) /\ Cardinality(UpTo(i)) \in Nat
  BY <1>1, <1>4
<1>6. Cardinality(UpTo(i)) = k
  <2> SUFFICES ASSUME Cardinality(UpTo(i)) > k PROVE FALSE
    BY <1>4, <1>5
  <2> DEFINE T == UpTo(i) \ {i}
  <2>1. i \in UpTo(i)
    BY <1>5
  <2> HIDE DEF UpTo
  <2>2. IsFiniteSet(T) /\ Cardinality(T) = Cardinality(UpTo(i)) - 1
    BY <1>5, <2>1, OneLess
  <2>3. Cardinality(T) >= k
    BY <1>5, <2>2
  <2>4. T # {}
    BY <2>3, FS_EmptySet
  <2> HIDE DEF T
  <2>5. \A y \in T : y \in S /\ y < i
    BY <1>5 DEF T, UpTo
  <2>6. Max(T) \in T /\ \A y \in T : Max(T) >= y
    <3>1. ASSUME NEW x \in T PROVE x \in Int
      <4>1. x \in S
        BY <2>5
      <4> QED  BY <4>1
    <3> QED  BY <2>2, <2>4, <3>1, MaxExists
  <2> DEFINE m == Max(T)
  <2> HIDE DEF m
  <2>9. m \in T /\ (\A y \in T : m >= y) /\ m \in S /\ m \in Nat /\ m < i /\ i \in Nat
    BY <1>5, <2>5, <2>6 DEF m
  <2>7. UpTo(m) = T
    <3>1. ASSUME NEW y \in UpTo(m) PROVE y \in T
      <4>1. y \in S /\ y <= m /\ y \in Nat
        BY DEF UpTo
      <4>2. y # i /\ y <= i
        BY <2>9, <4>1
      <4> QED  BY <4>1, <4>2 DEF T, UpTo
    <3>2. ASSUME NEW y \in T PROVE y \in UpTo(m)
      BY <2>5, <2>9 DEF UpTo
    <3> QED  BY <3>1, <3>2
  <2>8. m \in Late
    BY <2>3, <2>7, <2>9
  <2> QED  BY <1>4, <2>8, <2>9
<1> QED  BY <1>5, <1>6 DEF Nth

-----------------------------------------------------------------------------
(* The pool *)

\* The constants that are numbers.
LEMMA NumbersAre ==
    /\ Len(Rows) \in Nat /\ Budget \in Nat /\ MinSteps \in Nat
    /\ HeadShare \in Nat /\ DecayRate \in Nat /\ SpanShare \in Nat
    /\ ReserveShare \in Nat
<1>1. /\ Len(Rows) \in Nat /\ Budget \in Nat /\ MinSteps \in Nat
      /\ {ReserveShare, SpanShare, MaxCoverage, HeadShare, DecayRate} \subseteq 0 .. 100
  BY CreditConstants DEF CreditConstants
<1>2. 0 .. 100 \subseteq Nat
  OBVIOUS
<1> QED  BY <1>1, <1>2

\* Tokens of some symbols, and renders.
Shows == UNION {[S -> Nat] : S \in SUBSET Uid}
Rendering == [mode: Mode \cup {"symbol"}, shows: Shows, cost: Nat]

\* What it takes to be tokens of some symbols.
LEMMA ShowsAre ==
    ASSUME NEW f
    PROVE  f \in Shows <=> /\ f = [u \in DOMAIN f |-> f[u]]
                           /\ DOMAIN f \subseteq Uid
                           /\ \A u \in DOMAIN f : f[u] \in Nat
<1>1. ASSUME f \in Shows
      PROVE  /\ f = [u \in DOMAIN f |-> f[u]]
             /\ DOMAIN f \subseteq Uid
             /\ \A u \in DOMAIN f : f[u] \in Nat
  <2>1. PICK S \in SUBSET Uid : f \in [S -> Nat]
    BY <1>1 DEF Shows
  <2> QED  BY <2>1
<1>2. ASSUME f = [u \in DOMAIN f |-> f[u]], DOMAIN f \subseteq Uid,
             \A u \in DOMAIN f : f[u] \in Nat
      PROVE  f \in Shows
  <2>1. f \in [DOMAIN f -> Nat]
    BY <1>2
  <2> QED  BY <1>2, <2>1 DEF Shows
<1> QED  BY <1>1, <1>2

\* What shows cost.
LEMMA CostIsNat ==
    ASSUME NEW f, f \in Shows
    PROVE  IsFiniteSet(DOMAIN f) /\ Cost(f) \in Nat
<1>1. IsFiniteSet(DOMAIN f)
  BY ShowsAre, CreditConstants, FS_Subset DEF CreditConstants
<1>2. \A u \in DOMAIN f : f[u] \in Int /\ f[u] >= 0
  BY ShowsAre
<1>3. SumFunctionOnSet(f, DOMAIN f) \in Int /\ SumFunctionOnSet(f, DOMAIN f) >= 0
  BY <1>1, <1>2, SumType
<1> QED  BY <1>1, <1>3 DEF Cost, SumFunction

\* A render of well-formed tokens is well formed.
LEMMA RenderedIsRender ==
    ASSUME NEW m \in Mode \cup {"symbol"}, NEW f, f \in Shows
    PROVE  Rendered(m, f) \in Rendering /\ Rendered(m, f).shows = f
  BY CostIsNat DEF Rendered, Rendering

\* The ladder.
LEMMA LadderIs ==
    /\ Len(Ladder) = 7 /\ DOMAIN Ladder = 1 .. 7
    /\ Ladder[1] = "impact_surface" /\ Ladder[2] = "signature_only"
    /\ Ladder[3] = "fold_compact" /\ Ladder[4] = "fold"
    /\ Ladder[5] = "hybrid_compact" /\ Ladder[6] = "hybrid" /\ Ladder[7] = "full"
    /\ \A k \in 1 .. 7 : Ladder[k] \in Mode
    /\ {"impact_surface", "signature_only", "fold_compact", "fold", "full"} \subseteq Mode
<1>1. /\ Len(Ladder) = 7 /\ DOMAIN Ladder = 1 .. 7
      /\ Ladder[1] = "impact_surface" /\ Ladder[2] = "signature_only"
      /\ Ladder[3] = "fold_compact" /\ Ladder[4] = "fold"
      /\ Ladder[5] = "hybrid_compact" /\ Ladder[6] = "hybrid" /\ Ladder[7] = "full"
  BY DEF Ladder
<1>2. \A k \in 1 .. 7 : Ladder[k] \in Mode
  BY <1>1 DEF Mode, ToSet
<1> QED  BY <1>1, <1>2

\* The rung of a mode is where it stands, 0 if it is not there.
LEMMA RungIs ==
    ASSUME NEW modes, NEW n \in Nat, DOMAIN modes = 1 .. n, NEW m
    PROVE  /\ RungOf(modes, m) \in 0 .. n
           /\ RungOf(modes, m) # 0 => modes[RungOf(modes, m)] = m
  BY DEF RungOf

\* The modes tried for a requested one end with one that always fits.
LEMMA ModesDownEnd ==
    ASSUME NEW m \in Mode
    PROVE  \E n \in Nat \ {0} :
              /\ DOMAIN ModesDown(m) = 1 .. n
              /\ \A k \in 1 .. n : ModesDown(m)[k] \in Mode
              /\ ModesDown(m)[n] \in {"impact_surface", "signature_only"}
<1> DEFINE r == RungOf(Ladder, m)
<1>1. r \in 0 .. 7
  BY LadderIs, RungIs
<1>2. CASE r = 0
  <2>1. ModesDown(m) = <<m, "fold", "signature_only">>
    BY <1>2 DEF ModesDown
  <2> QED  BY <2>1, LadderIs
<1>3. CASE r # 0
  <2> DEFINE s == SubSeq(Ladder, 1, r)
  <2>1. /\ Len(s) = r /\ DOMAIN s = 1 .. r
        /\ \A k \in 1 .. r : s[k] = Ladder[k]
    <3> HIDE DEF r
    <3>1. r \in Int /\ 1 <= r /\ r - 1 + 1 = r /\ \A k \in 1 .. r : 1 + k - 1 = k
      BY <1>1, <1>3
    <3>2. \A k \in 1 .. r : Ladder[k] \in Mode
      BY <1>1, LadderIs
    <3>3. /\ s \in Seq(Mode) /\ Len(s) = r
          /\ \A k \in 1 .. r : s[k] = Ladder[1 + k - 1]
      BY <3>1, <3>2, SubSeqProperties
    <3> HIDE DEF s
    <3> QED  BY <3>1, <3>3, LenProperties
  <2>2. ModesDown(m) = [k \in 1 .. r |-> Ladder[(r - k) + 1]]
    <3>1. ModesDown(m) = Reverse(s)
      BY <1>3 DEF ModesDown
    <3> HIDE DEF r, s
    <3>2. Reverse(s) = [k \in 1 .. r |-> s[(r - k) + 1]]
      <4>1. Reverse(s) = [k \in 1 .. Len(s) |-> s[(Len(s) - k) + 1]]
        BY DEF Reverse
      <4> QED  BY <2>1, <4>1
    <3>3. \A k \in 1 .. r : (r - k) + 1 \in 1 .. r
      BY <1>1
    <3> QED  BY <2>1, <3>1, <3>2, <3>3
  <2> HIDE DEF r
  <2>3. \A k \in 1 .. r : (r - k) + 1 \in 1 .. 7
    BY <1>1
  <2>4. r \in Nat \ {0} /\ (r - r) + 1 = 1 /\ r \in 1 .. r
    BY <1>1, <1>3
  <2> QED  BY <2>2, <2>3, <2>4, LadderIs
<1> QED  BY <1>2, <1>3

\* A render under a limit is that of some mode.
LEMMA LimitedIs ==
    ASSUME NEW b, NEW m \in Mode, NEW limit
    PROVE  \E n \in Mode : Limited(b, m, limit) = Render(b, n)
<1> DEFINE down == ModesDown(m)
           fits == {k \in DOMAIN down : \/ Render(b, down[k]).cost <= limit
                                        \/ down[k] \in {"impact_surface", "signature_only"}}
<1>1. PICK n \in Nat \ {0} :
         /\ DOMAIN down = 1 .. n
         /\ \A k \in 1 .. n : down[k] \in Mode
         /\ down[n] \in {"impact_surface", "signature_only"}
  BY ModesDownEnd
<1>2. Limited(b, m, limit) = Render(b, down[Min(fits)])
  BY DEF Limited
<1> HIDE DEF down
<1>3. n \in fits /\ fits \subseteq Nat
  BY <1>1
<1>4. Min(fits) \in fits
  <2> HIDE DEF fits
  <2> QED  BY <1>3, MinExists
<1> QED  BY <1>1, <1>2, <1>4

\* A bundle of the pool: its renders, its seed and its lanes.
IsBundle(B) ==
    /\ B.seed \in Uid
    /\ \A m \in Mode : B.renders[m] \in Rendering
    /\ Len(B.lanes) \in Nat /\ DOMAIN B.lanes = 1 .. Len(B.lanes)
    /\ \A j \in DOMAIN B.lanes : B.lanes[j].target \in DOMAIN B.renders["full"].shows

\* The pool: one bundle per seed, each well formed.
LEMMA PoolIs ==
    /\ Cardinality(FirstOfSeed) \in 0 .. Len(Rows)
    /\ DOMAIN Pool = 1 .. Cardinality(FirstOfSeed)
    /\ \A b \in DOMAIN Pool : IsBundle(Pool[b])
<1>0. /\ Len(Rows) \in Nat /\ DOMAIN Rows = 1 .. Len(Rows)
      /\ \A i \in DOMAIN Rows :
            /\ Rows[i].seed \in Uid /\ Rows[i].utility \in Int
            /\ \A m \in Mode : AreTokens(Rows[i].text[m])
            /\ Len(Rows[i].lanes) \in Nat
            /\ DOMAIN Rows[i].lanes = 1 .. Len(Rows[i].lanes)
            /\ \A j \in DOMAIN Rows[i].lanes :
                  Rows[i].lanes[j].target \in DOMAIN Rows[i].text["full"]
  BY CreditConstants DEF CreditConstants
<1>1. /\ FirstOfSeed \subseteq 1 .. Len(Rows) /\ IsFiniteSet(FirstOfSeed)
      /\ FirstOfSeed \subseteq Nat /\ Cardinality(FirstOfSeed) \in 0 .. Len(Rows)
  <2>1. FirstOfSeed \subseteq 1 .. Len(Rows) /\ FirstOfSeed \subseteq Nat
    BY <1>0 DEF FirstOfSeed
  <2>2. IsFiniteSet(1 .. Len(Rows)) /\ Cardinality(1 .. Len(Rows)) = Len(Rows)
    <3> DEFINE n == Len(Rows)
    <3>1. n \in Nat
      BY <1>0
    <3> HIDE DEF n
    <3>2. IsFiniteSet(1 .. n) /\ Cardinality(1 .. n) = n
      BY <3>1, FS_Interval
    <3> QED  BY <3>2 DEF n
  <2>3. /\ IsFiniteSet(FirstOfSeed)
        /\ Cardinality(FirstOfSeed) <= Len(Rows)
    BY <2>1, <2>2, FS_Subset
  <2>4. Cardinality(FirstOfSeed) \in Nat
    BY <2>3, FS_CardinalityType
  <2> QED  BY <1>0, <2>1, <2>3, <2>4
<1>2. DOMAIN Pool = 1 .. Cardinality(FirstOfSeed)
  BY DEF Pool
<1>3. ASSUME NEW i \in DOMAIN Rows PROVE BestRow(i) \in DOMAIN Rows
  <2> DEFINE S == {j \in DOMAIN Rows : Rows[j].seed = Rows[i].seed}
             U == {Rows[j].utility : j \in S}
             T == {j \in S : Rows[j].utility = Max(U)}
  <2>1. IsFiniteSet(U) /\ U # {} /\ \A u \in U : u \in Int
    <3>1. IsFiniteSet(S)
      <4>1. IsFiniteSet(1 .. Len(Rows))
        BY <1>0, FS_Interval
      <4> QED  BY <1>0, <4>1, FS_Subset
    <3>2. i \in S
      OBVIOUS
    <3>3. \A u \in U : u \in Int
      BY <1>0
    <3>4. IsFiniteSet(U)
      <4> HIDE DEF S
      <4>1. [j \in S |-> Rows[j].utility] \in Surjection(S, U)
        BY DEF Surjection
      <4> QED  BY <3>1, <4>1, FS_Surjection
    <3> QED  BY <3>2, <3>3, <3>4
  <2>2. Max(U) \in U /\ \A u \in U : Max(U) >= u
    <3> HIDE DEF U
    <3> QED  BY <2>1, MaxExists
  <2>3. T # {} /\ T \subseteq Nat
    <3>1. PICK j \in S : Rows[j].utility = Max(U)
      BY <2>2
    <3>2. 1 .. Len(Rows) \subseteq Nat
      BY <1>0
    <3>3. T \subseteq DOMAIN Rows /\ j \in T
      BY <3>1
    <3> QED  BY <1>0, <3>2, <3>3
  <2>4. Min(T) \in T /\ \A j \in T : Min(T) <= j
    <3> HIDE DEF T
    <3> QED  BY <2>3, MinExists
  <2> DEFINE best == Min(T)
             top == Max(U)
  <2> HIDE DEF best, top
  <2>5. /\ best \in DOMAIN Rows /\ Rows[best].seed = Rows[i].seed
        /\ Rows[best].utility = top
        /\ \A j \in DOMAIN Rows : Rows[j].seed = Rows[i].seed /\ Rows[j].utility = top
              => best <= j
    BY <2>4 DEF best, top
  <2>6. \A j \in DOMAIN Rows : Rows[j].seed = Rows[i].seed => top >= Rows[j].utility
    BY <2>2 DEF top
  <2>7. top \in Int /\ \A j \in DOMAIN Rows : Rows[j].utility \in Int
    BY <1>0, <2>5
  <2>8. \A k \in DOMAIN Rows : Rows[k].seed = Rows[i].seed =>
           \/ Rows[k].utility < Rows[best].utility
           \/ Rows[k].utility = Rows[best].utility /\ best <= k
    BY <2>5, <2>6, <2>7
  <2>9. \E j \in DOMAIN Rows :
        /\ Rows[j].seed = Rows[i].seed
        /\ \A k \in DOMAIN Rows : Rows[k].seed = Rows[i].seed =>
              \/ Rows[k].utility < Rows[j].utility
              \/ Rows[k].utility = Rows[j].utility /\ j <= k
    BY <2>5, <2>8
  <2> QED  BY <2>9 DEF BestRow
<1>4. ASSUME NEW i \in DOMAIN Rows, NEW m \in Mode
      PROVE  /\ Frozen(Rows[i].text)[m] \in Shows
             /\ DOMAIN Frozen(Rows[i].text)[m] = DOMAIN Rows[i].text[m]
  <2> DEFINE text == Rows[i].text
             F == [u \in DOMAIN text[m] |->
                     IF /\ FileOf[u] \notin SeedFiles
                        /\ m # "impact_surface" /\ u \in DOMAIN text["signature_only"]
                     THEN text["signature_only"][u] ELSE text[m][u]]
  <2>1. Frozen(text)[m] = F
    BY DEF Frozen
  <2>2. AreTokens(text[m]) /\ AreTokens(text["signature_only"])
    BY <1>0, LadderIs
  <2> HIDE DEF text
  <2>3. F \in [DOMAIN text[m] -> Nat] /\ DOMAIN text[m] \in SUBSET Uid
    BY <2>2 DEF AreTokens
  <2> HIDE DEF F
  <2>4. F \in Shows /\ DOMAIN F = DOMAIN text[m]
    BY <2>3 DEF Shows
  <2>5. Frozen(text)[m] \in Shows /\ DOMAIN Frozen(text)[m] = DOMAIN text[m]
    BY <2>1, <2>4
  <2> QED  BY <2>5 DEF text
<1>5. ASSUME NEW i \in DOMAIN Rows, NEW m \in Mode
      PROVE  /\ Renders(Rows[i])[m] \in Rendering
             /\ m = "full" => DOMAIN Renders(Rows[i])[m].shows = DOMAIN Rows[i].text[m]
  <2> DEFINE mode == IF m \in {"fold", "fold_compact"} /\ ~Rows[i].folds THEN "full" ELSE m
  <2>1. mode \in Mode /\ (m = "full" => mode = m)
    BY LadderIs
  <2>2. Renders(Rows[i])[m] = Rendered(mode, Frozen(Rows[i].text)[mode])
    BY DEF Renders
  <2> HIDE DEF mode
  <2>3. /\ Frozen(Rows[i].text)[mode] \in Shows
        /\ DOMAIN Frozen(Rows[i].text)[mode] = DOMAIN Rows[i].text[mode]
    BY <1>4, <2>1
  <2> QED  BY <2>1, <2>2, <2>3, RenderedIsRender
<1>6. ASSUME NEW b \in DOMAIN Pool PROVE IsBundle(Pool[b])
  <2> DEFINE i == BestRow(Nth(FirstOfSeed, b))
  <2>1. Nth(FirstOfSeed, b) \in FirstOfSeed
    BY <1>1, <1>2, NthExists
  <2>2. i \in DOMAIN Rows
    BY <1>0, <1>1, <1>3, <2>1
  <2>3. /\ Pool[b].seed = Rows[i].seed /\ Pool[b].lanes = Rows[i].lanes
        /\ Pool[b].renders = Renders(Rows[i])
    BY <1>2 DEF Pool
  <2> HIDE DEF i
  <2>4. \A m \in Mode : Pool[b].renders[m] \in Rendering
    BY <1>5, <2>2, <2>3
  <2>5. DOMAIN Pool[b].renders["full"].shows = DOMAIN Rows[i].text["full"]
    BY <1>5, <2>2, <2>3, LadderIs
  <2> QED  BY <1>0, <2>2, <2>3, <2>4, <2>5 DEF IsBundle
<1> QED  BY <1>1, <1>2, <1>6

\* Rungs and the modes they stand for.
LEMMA RungsAre ==
    ASSUME profile \in Profile
    PROVE  /\ \E n \in 1 .. 7 : DOMAIN Rungs = 1 .. n /\ Len(Rungs) = n
           /\ \A k \in DOMAIN Rungs : Rungs[k] \in Mode
<1>1. CASE profile.mode = "impact_tiered"
  <2>1. Rungs = <<"impact_tiered", "hybrid", "full">>
    BY <1>1 DEF Rungs
  <2>2. {"impact_tiered", "hybrid", "full"} \subseteq Mode
    BY LadderIs DEF Mode
  <2> QED  BY <2>1, <2>2
<1>2. CASE profile.mode # "impact_tiered"
  <2>1. Rungs = Ladder
    BY <1>2 DEF Rungs
  <2> QED  BY <2>1, LadderIs
<1> QED  BY <1>1, <1>2

\* A cheap render of a bundle of the pool.
LEMMA InitialRenderIs ==
    ASSUME profile \in Profile, bundles = Pool, NEW b \in DOMAIN Pool
    PROVE  InitialRender(b) \in Rendering
<1>1. \A m \in Mode : Render(b, m) \in Rendering
  BY PoolIs DEF Render, IsBundle
<1>2. InitialMode \in Mode
  BY LadderIs DEF InitialMode, Profile
<1> QED  BY <1>1, <1>2, LadderIs DEF InitialRender

\* Decay is a fraction of natural numbers, and a credit is a natural number.
IsDecay(f, n) ==
    f = [k \in 0 .. n |->
            IF k = 0 THEN [of |-> 1, by |-> 1]
            ELSE [of |-> DecayRate * f[k - 1].of, by |-> 100 * f[k - 1].by]]

\* There is a decay of as many ranks as wanted.
LEMMA DecayExists ==
    ASSUME NEW n \in Nat
    PROVE  \E f : IsDecay(f, n)
<1> DEFINE P == {d \in Nat : \E f : IsDecay(f, d)}
<1>1. 0 \in P
  <2> DEFINE f == [k \in 0 .. 0 |-> [of |-> 1, by |-> 1]]
  <2>1. \A k \in 0 .. 0 : k = 0
    OBVIOUS
  <2>2. f = [k \in 0 .. 0 |->
            IF k = 0 THEN [of |-> 1, by |-> 1]
            ELSE [of |-> DecayRate * f[k - 1].of, by |-> 100 * f[k - 1].by]]
    BY <2>1
  <2> QED  BY <2>2 DEF IsDecay
<1>2. ASSUME NEW d \in Nat, d \in P PROVE d + 1 \in P
  <2>1. PICK f : IsDecay(f, d)
    BY <1>2
  <2> DEFINE next == [of |-> DecayRate * f[d].of, by |-> 100 * f[d].by]
             g == [k \in 0 .. d + 1 |-> IF k = d + 1 THEN next ELSE f[k]]
             h == [k \in 0 .. d + 1 |->
                     IF k = 0 THEN [of |-> 1, by |-> 1]
                     ELSE [of |-> DecayRate * g[k - 1].of, by |-> 100 * g[k - 1].by]]
  <2>2. ASSUME NEW k \in 0 .. d + 1 PROVE g[k] = h[k]
    <3>1. CASE k = d + 1
      <4>1. k # 0 /\ k - 1 = d /\ d \in 0 .. d + 1 /\ d # d + 1
        BY <3>1
      <4>2. g[k] = next /\ g[k - 1] = f[d]
        BY <3>1, <4>1
      <4> HIDE DEF g
      <4> QED  BY <4>1, <4>2
    <3>2. CASE k # d + 1
      <4>1. k \in 0 .. d
        BY <3>2
      <4>2. k # 0 => k - 1 \in 0 .. d /\ k - 1 \in 0 .. d + 1 /\ k - 1 # d + 1
        BY <4>1
      <4>3. g[k] = f[k] /\ (k # 0 => g[k - 1] = f[k - 1])
        BY <3>2, <4>2
      <4>4. f[k] = IF k = 0 THEN [of |-> 1, by |-> 1]
                   ELSE [of |-> DecayRate * f[k - 1].of, by |-> 100 * f[k - 1].by]
        BY <2>1, <4>1 DEF IsDecay
      <4> HIDE DEF g
      <4> QED  BY <4>3, <4>4
    <3> QED  BY <3>1, <3>2
  <2>3. g = h
    <3>1. DOMAIN g = 0 .. d + 1 /\ DOMAIN h = 0 .. d + 1
      OBVIOUS
    <3> HIDE DEF next
    <3> QED  BY <2>2
  <2> HIDE DEF g
  <2>4. IsDecay(g, d + 1)
    BY <2>3 DEF IsDecay
  <2> QED  BY <2>4
<1> HIDE DEF P
<1>3. Nat \subseteq P
  BY <1>1, <1>2, InductiveSet
<1> QED  BY <1>3 DEF P

\* The decay of a rank is a fraction.
LEMMA DecayIs ==
    ASSUME NEW b \in DOMAIN Pool
    PROVE  Decay[b - 1].of \in Nat /\ Decay[b - 1].by \in Nat \ {0}
<1> DEFINE n == Len(Rows)
           P == {d \in Nat : d <= n => Decay[d].of \in Nat /\ Decay[d].by \in Nat \ {0}}
<1>1. n \in Nat /\ DecayRate \in Nat
  BY NumbersAre
<1>2. IsDecay(Decay, n)
  <2>1. Decay = CHOOSE f : IsDecay(f, n)
    BY DEF Decay, IsDecay
  <2> QED  BY <1>1, <2>1, DecayExists
<1> HIDE DEF n
<1>3. 0 \in P
  BY <1>1, <1>2 DEF IsDecay
<1>4. ASSUME NEW d \in Nat, d \in P PROVE d + 1 \in P
  <2> SUFFICES ASSUME d + 1 <= n
               PROVE  Decay[d + 1].of \in Nat /\ Decay[d + 1].by \in Nat \ {0}
    OBVIOUS
  <2>1. d + 1 \in 0 .. n /\ d + 1 # 0 /\ (d + 1) - 1 = d /\ d <= n
    BY <1>1
  <2>2. Decay[d + 1] = [of |-> DecayRate * Decay[d].of, by |-> 100 * Decay[d].by]
    BY <1>2, <2>1 DEF IsDecay
  <2>3. Decay[d].of \in Nat /\ Decay[d].by \in Nat \ {0}
    BY <1>4, <2>1
  <2>4. \A x, y \in Nat : x * y \in Nat
    OBVIOUS
  <2> QED  BY <1>1, <2>2, <2>3, <2>4
<1> HIDE DEF P
<1>5. Nat \subseteq P
  BY <1>3, <1>4, InductiveSet
<1>6. b - 1 \in Nat /\ b - 1 <= n
  BY PoolIs DEF n
<1> QED  BY <1>5, <1>6 DEF P

\* A credit is a number of tokens.
LEMMA CreditIsNat ==
    ASSUME ceiling \in Nat, NEW b \in DOMAIN Pool
    PROVE  Credit(b) \in Nat
<1>1. \A x \in Nat : \A y \in Nat \ {0} : x \div y \in Nat
  OBVIOUS
<1>2. \A x, y \in Nat : x * y \in Nat
  OBVIOUS
<1>3. \A y \in Nat \ {0} : 100 * y \in Nat \ {0}
  OBVIOUS
<1>4. HeadShare \in Nat
  BY NumbersAre
<1>5. ceiling * HeadShare * Decay[b - 1].of \in Nat
  BY <1>2, <1>4, DecayIs
<1>6. 100 * Decay[b - 1].by \in Nat \ {0}
  BY <1>3, DecayIs
<1> DEFINE x == ceiling * HeadShare * Decay[b - 1].of
           y == 100 * Decay[b - 1].by
<1>7. Credit(b) = x \div y
  BY DEF Credit
<1> HIDE DEF x, y
<1> QED  BY <1>1, <1>5, <1>6, <1>7 DEF x, y

-----------------------------------------------------------------------------
(* What a selection prints *)

\* An entry of the selection.
PackEntry == [row: DOMAIN Pool, mode: Mode \cup {"symbol"}, shows: Shows, cost: Nat]

\* The first bundle that shows a symbol is one that shows it.
LEMMA FirstIs ==
    ASSUME NEW sel, sel \in Seq(PackEntry), NEW u \in Shown(sel)
    PROVE  /\ FirstShowing(sel, u) \in DOMAIN sel
           /\ u \in DOMAIN sel[FirstShowing(sel, u)].shows
           /\ \A i \in DOMAIN sel : u \in DOMAIN sel[i].shows
                                    => FirstShowing(sel, u) <= i
<1> DEFINE S == {i \in DOMAIN sel : u \in DOMAIN sel[i].shows}
<1>1. S \subseteq Nat /\ S # {}
  BY DEF Shown
<1>2. FirstShowing(sel, u) = Min(S)
  BY DEF FirstShowing
<1>3. Min(S) \in S /\ \A i \in S : Min(S) <= i
  <2> HIDE DEF S
  <2> QED  BY <1>1, MinExists
<1> QED  BY <1>2, <1>3

\* What is printed of a selection is tokens of the symbols it shows.
LEMMA PrintedIs ==
    ASSUME NEW sel, sel \in Seq(PackEntry)
    PROVE  /\ DOMAIN Printed(sel) = Shown(sel) /\ Printed(sel) \in Shows
           /\ PrintedTokens(sel) \in Nat
<1>1. ASSUME NEW i \in DOMAIN sel PROVE sel[i].shows \in Shows
  <2>1. sel[i] \in PackEntry
    OBVIOUS
  <2> QED  BY <2>1 DEF PackEntry
<1>2. DOMAIN Printed(sel) = Shown(sel)
  BY DEF Printed
<1>3. Printed(sel) = [u \in Shown(sel) |-> Printed(sel)[u]]
  BY DEF Printed
<1>4. Shown(sel) \subseteq Uid
  BY <1>1, ShowsAre DEF Shown
<1>5. ASSUME NEW u \in Shown(sel) PROVE Printed(sel)[u] \in Nat
  BY <1>1, FirstIs, ShowsAre DEF Printed
<1>6. Printed(sel) \in Shows
  BY <1>2, <1>3, <1>4, <1>5, ShowsAre
<1> QED  BY <1>2, <1>6, CostIsNat DEF PrintedTokens

\* Only what the bundles show matters.
LEMMA PrintedSame ==
    ASSUME NEW s, s \in Seq(PackEntry), NEW t, DOMAIN s = DOMAIN t,
           \A i \in DOMAIN s : s[i].shows = t[i].shows
    PROVE  PrintedTokens(s) = PrintedTokens(t)
<1>1. Shown(s) = Shown(t)
  BY DEF Shown
<1>2. ASSUME NEW u \in Shown(s) PROVE Printed(s)[u] = Printed(t)[u]
  <2>1. {i \in DOMAIN s : u \in DOMAIN s[i].shows} = {i \in DOMAIN t : u \in DOMAIN t[i].shows}
    OBVIOUS
  <2>2. FirstShowing(s, u) = FirstShowing(t, u)
    BY <2>1 DEF FirstShowing
  <2>3. FirstShowing(s, u) \in DOMAIN s
    BY FirstIs
  <2> QED  BY <1>1, <2>2, <2>3 DEF Printed
<1>3. Printed(s) = Printed(t)
  BY <1>1, <1>2 DEF Printed
<1> QED  BY <1>3 DEF PrintedTokens

\* A bundle put last shows for the first time what no other shows, and pays
\* for it.
LEMMA PrintedMore ==
    ASSUME selected \in Seq(PackEntry), NEW e \in PackEntry
    PROVE  PrintedTokens(Append(selected, e)) = PrintedTokens(selected) + Price(e.shows)
<1> DEFINE s == selected
           t == Append(selected, e)
           n == Len(selected)
           F == Fresh(e.shows)
<1>1. /\ n \in Nat /\ DOMAIN s = 1 .. n /\ DOMAIN t = 1 .. n + 1
      /\ t \in Seq(PackEntry) /\ t[n + 1] = e /\ \A i \in 1 .. n : t[i] = s[i]
  <2>1. /\ t \in Seq(PackEntry) /\ Len(t) = n + 1 /\ t[n + 1] = e
        /\ \A i \in 1 .. n : t[i] = s[i]
    BY AppendProperties
  <2> HIDE DEF t
  <2> QED  BY <2>1, LenProperties
<1> HIDE DEF n, t
<1>2. e.shows \in Shows
  BY DEF PackEntry
<1>3. Shown(t) = Shown(s) \cup F /\ Shown(s) \cap F = {}
  <2>1. Shown(t) = Shown(s) \cup DOMAIN e.shows
    <3>1. ASSUME NEW u \in Shown(t) PROVE u \in Shown(s) \cup DOMAIN e.shows
      <4>1. PICK i \in 1 .. n + 1 : u \in DOMAIN t[i].shows
        BY <1>1 DEF Shown
      <4>2. CASE i = n + 1
        BY <1>1, <4>1, <4>2
      <4>3. CASE i # n + 1
        <5>1. i \in 1 .. n
          BY <1>1, <4>3
        <5> QED  BY <1>1, <4>1, <5>1 DEF Shown
      <4> QED  BY <4>2, <4>3
    <3>2. ASSUME NEW u \in Shown(s) PROVE u \in Shown(t)
      <4>1. PICK i \in 1 .. n : u \in DOMAIN s[i].shows
        BY <1>1 DEF Shown
      <4>2. i \in 1 .. n + 1 /\ t[i] = s[i]
        BY <1>1
      <4> QED  BY <1>1, <4>1, <4>2 DEF Shown
    <3>3. ASSUME NEW u \in DOMAIN e.shows PROVE u \in Shown(t)
      <4>1. n + 1 \in 1 .. n + 1
        BY <1>1
      <4> QED  BY <1>1, <4>1 DEF Shown
    <3> QED  BY <3>1, <3>2, <3>3
  <2> QED  BY <2>1 DEF Fresh
<1>4. ASSUME NEW u \in Shown(s)
      PROVE  Printed(t)[u] = Printed(s)[u] /\ Printed(s)[u] \in Int
  <2> DEFINE i == FirstShowing(s, u)
             j == FirstShowing(t, u)
  <2>1. u \in Shown(t)
    BY <1>3
  <2>2. /\ i \in 1 .. n /\ u \in DOMAIN s[i].shows
        /\ \A k \in 1 .. n : u \in DOMAIN s[k].shows => i <= k
    BY <1>1, FirstIs
  <2>3. /\ j \in 1 .. n + 1 /\ u \in DOMAIN t[j].shows
        /\ \A k \in 1 .. n + 1 : u \in DOMAIN t[k].shows => j <= k
    BY <1>1, <2>1, FirstIs
  <2> HIDE DEF i, j
  <2>4. j <= i
    <3>1. i \in 1 .. n + 1 /\ u \in DOMAIN t[i].shows
      BY <1>1, <2>2
    <3> QED  BY <2>3, <3>1
  <2>5. j \in 1 .. n
    BY <1>1, <2>2, <2>3, <2>4
  <2>6. i <= j
    BY <1>1, <2>2, <2>3, <2>5
  <2>7. i = j
    BY <2>2, <2>4, <2>5, <2>6
  <2>8. Printed(t)[u] = t[j].shows[u] /\ Printed(s)[u] = s[i].shows[u]
    BY <2>1 DEF Printed, i, j
  <2>9. Printed(s)[u] \in Nat
    BY PrintedIs, ShowsAre
  <2> QED  BY <1>1, <2>5, <2>7, <2>8, <2>9
<1>5. ASSUME NEW u \in F
      PROVE  Printed(t)[u] = e.shows[u] /\ e.shows[u] \in Int
  <2> DEFINE j == FirstShowing(t, u)
  <2>1. u \in Shown(t) /\ u \notin Shown(s) /\ u \in DOMAIN e.shows
    BY <1>3 DEF Fresh
  <2>2. j \in 1 .. n + 1 /\ u \in DOMAIN t[j].shows
    BY <1>1, <2>1, FirstIs
  <2>3. Printed(t)[u] = t[j].shows[u]
    BY <2>1 DEF Printed
  <2> HIDE DEF j
  <2>4. j = n + 1
    <3> SUFFICES ASSUME j \in 1 .. n PROVE FALSE
      BY <1>1, <2>2
    <3> QED  BY <1>1, <2>1, <2>2 DEF Shown
  <2> QED  BY <1>1, <1>2, <2>1, <2>3, <2>4, ShowsAre
<1>6. IsFiniteSet(Shown(s)) /\ IsFiniteSet(F)
  <2>1. IsFiniteSet(Shown(s))
    BY PrintedIs, CostIsNat
  <2>2. IsFiniteSet(F)
    BY <1>2, CostIsNat, FS_Subset DEF Fresh
  <2> QED  BY <2>1, <2>2
<1> HIDE DEF F
<1>7. SumFunctionOnSet(Printed(t), Shown(s) \cup F)
      = SumFunctionOnSet(Printed(s), Shown(s)) + SumFunctionOnSet(e.shows, F)
  BY <1>3, <1>4, <1>5, <1>6, SumUnion
<1>8. /\ PrintedTokens(t) = SumFunctionOnSet(Printed(t), Shown(s) \cup F)
      /\ PrintedTokens(s) = SumFunctionOnSet(Printed(s), Shown(s))
      /\ Price(e.shows) = SumFunctionOnSet(e.shows, F)
  BY <1>1, <1>3, PrintedIs DEF PrintedTokens, Cost, SumFunction, Price, F
<1> QED  BY <1>7, <1>8 DEF t

-----------------------------------------------------------------------------
(* Types, and tokens spent *)

IsWave(w) == w = [name |-> w.name, limit |-> w.limit, ceiling |-> w.ceiling,
                  entries |-> w.entries, bypass |-> w.bypass, free |-> w.free]

LaneState == [at: Nat, rung: {"span", "body"}, ceiling: Int, bypass: Int,
          done: SUBSET Uid, reserved: SUBSET Uid]

SelectionTypes ==
    /\ heap \subseteq DOMAIN Pool
    /\ selected \in Seq(PackEntry)
    /\ \A i \in DOMAIN selected :
          /\ selected[i].row \notin heap
          /\ \A j \in DOMAIN selected : i # j => selected[i].row # selected[j].row
    /\ used \in Int /\ used = PrintedTokens(selected)

\* An entry is spending its credit.
InTurn == \/ phase = "walk" /\ wave.name = "rank"
          \/ phase = "lanes" /\ lane.at > 0

PackTypes ==
    /\ profile \in Profile /\ bundles = Pool
    /\ phase \in {"cover", "waves", "ranks", "walk", "reserve", "lanes", "packed"}
    /\ SelectionTypes
    /\ ceiling \in Nat /\ ceiling <= Budget /\ covered \in Int
    /\ IsWave(wave)
    /\ phase = "walk" => /\ wave.ceiling \in Int /\ wave.ceiling <= ceiling
                         /\ \A o \in upgrades : /\ o.entry \in DOMAIN selected
                                                /\ o.render \in Rendering
    /\ turn \in Nat /\ lane \in LaneState
    /\ phase # "cover" => turn \in 1 .. Len(selected) + 1
    /\ InTurn => turn <= Len(selected)
    /\ phase \in {"reserve", "lanes"} => lane.ceiling <= ceiling
    /\ phase = "reserve" => lane.at = 0

\* A bundle that is bought pays for what the prompt prints of it.
LEMMA BuyKeeps ==
    ASSUME profile \in Profile, bundles = Pool, SelectionTypes,
           NEW b \in DOMAIN Pool, Buy(b)
    PROVE  /\ SelectionTypes'
           /\ Len(selected') = Len(selected) + 1
<1> DEFINE r == InitialRender(b)
           e == Bought(b, r)
<1>1. r \in Rendering
  BY InitialRenderIs
<1> HIDE DEF r
<1>2. e \in PackEntry /\ e.row = b /\ e.shows = r.shows
  BY <1>1 DEF Bought, PackEntry, Rendering
<1>3. /\ selected' = Append(selected, e) /\ used' = used + Price(e.shows)
      /\ heap' = heap \ {b} /\ b \in heap
  BY <1>2 DEF Buy, r, Covering
<1> HIDE DEF e
<1>4. /\ selected' \in Seq(PackEntry) /\ Len(selected') = Len(selected) + 1
      /\ selected'[Len(selected) + 1] = e
      /\ \A i \in 1 .. Len(selected) : selected'[i] = selected[i]
  BY <1>2, <1>3, AppendProperties DEF SelectionTypes
<1>5. /\ Len(selected) \in Nat /\ DOMAIN selected = 1 .. Len(selected)
      /\ DOMAIN selected' = 1 .. Len(selected) + 1
  BY <1>4, LenProperties DEF SelectionTypes
<1>6. PrintedTokens(selected') = used'
  BY <1>2, <1>3, PrintedMore DEF SelectionTypes
<1>7. PrintedTokens(selected') \in Nat
  BY <1>4, PrintedIs
<1>8. ASSUME NEW i \in DOMAIN selected'
      PROVE  /\ selected'[i].row \notin heap'
             /\ \A j \in DOMAIN selected' : i # j => selected'[i].row # selected'[j].row
  <2>1. \A k \in DOMAIN selected' : k \in DOMAIN selected \/ k = Len(selected) + 1
    BY <1>5
  <2> QED  BY <1>2, <1>3, <1>4, <1>5, <2>1 DEF SelectionTypes
<1> QED  BY <1>3, <1>4, <1>6, <1>7, <1>8 DEF SelectionTypes

\* An upgrade pays exactly what it changes in the prompt.
LEMMA SwapKeeps ==
    ASSUME SelectionTypes, heap' = heap, NEW i \in DOMAIN selected,
           NEW r \in Rendering, NEW top \in Int, Swap(i, r, top)
    PROVE  /\ SelectionTypes'
           /\ Len(selected') = Len(selected) /\ DOMAIN selected' = DOMAIN selected
           /\ \A j \in DOMAIN selected : selected'[j].row = selected[j].row
           /\ \A j \in DOMAIN selected : j # i => selected'[j] = selected[j]
           /\ selected'[i] = Bought(selected[i].row, r)
           /\ used' <= top
<1> DEFINE e == Bought(selected[i].row, r)
           s == [selected EXCEPT ![i].shows = r.shows]
<1>1. selected[i] \in PackEntry /\ selected[i].row \in DOMAIN Pool
  <2>1. selected[i] \in PackEntry
    BY DEF SelectionTypes
  <2> QED  BY <2>1 DEF PackEntry
<1>2. e \in PackEntry /\ e.row = selected[i].row /\ e.shows = r.shows
  BY <1>1 DEF Bought, PackEntry, Rendering
<1>3. /\ selected' = [selected EXCEPT ![i] = e]
      /\ used + (PrintedTokens(s) - used) <= top
      /\ used' = used + (PrintedTokens(s) - used)
  BY DEF Swap, Delta
<1> HIDE DEF e
<1>4. /\ Len(selected) \in Nat /\ DOMAIN selected = 1 .. Len(selected)
      /\ selected \in Seq(PackEntry)
  BY LenProperties DEF SelectionTypes
<1>5. /\ selected' \in Seq(PackEntry) /\ Len(selected') = Len(selected)
      /\ DOMAIN selected' = DOMAIN selected /\ selected'[i] = e
      /\ \A j \in DOMAIN selected : j # i => selected'[j] = selected[j]
  <2>1. /\ selected' \in Seq(PackEntry) /\ Len(selected') = Len(selected)
        /\ \A j \in 1 .. Len(selected) :
              selected'[j] = IF j = i THEN e ELSE selected[j]
    BY <1>2, <1>3, <1>4, ExceptSeq
  <2> QED  BY <1>4, <2>1, LenProperties
<1>6. PrintedTokens(s) = PrintedTokens(selected')
  <2>1. DOMAIN s = DOMAIN selected /\ s[i].shows = r.shows
        /\ \A j \in DOMAIN selected : j # i => s[j] = selected[j]
    <3>1. s = [selected EXCEPT ![i] = [selected[i] EXCEPT !.shows = r.shows]]
      OBVIOUS
    <3>2. [selected[i] EXCEPT !.shows = r.shows].shows = r.shows
      BY <1>1 DEF PackEntry
    <3> QED  BY <1>4, <3>1, <3>2
  <2> HIDE DEF s
  <2>2. \A j \in DOMAIN selected' : selected'[j].shows = s[j].shows
    BY <1>2, <1>5, <2>1
  <2> QED  BY <1>5, <2>1, <2>2, PrintedSame
<1>7. PrintedTokens(selected') \in Nat /\ used \in Int
  BY <1>5, PrintedIs DEF SelectionTypes
<1>8. used' = PrintedTokens(selected') /\ used' <= top
  <2> DEFINE p == PrintedTokens(selected')
  <2>1. used + (p - used) <= top /\ used' = used + (p - used)
    BY <1>3, <1>6
  <2>2. p \in Int
    BY <1>7
  <2> HIDE DEF p
  <2> QED  BY <1>7, <2>1, <2>2 DEF p
<1>9. \A j \in DOMAIN selected : selected'[j].row = selected[j].row
  BY <1>2, <1>5
<1> QED  BY <1>2, <1>5, <1>7, <1>8, <1>9 DEF SelectionTypes, e

\* The smaller and the larger of two numbers.
LEMMA MinOfTwo ==
    ASSUME NEW x \in Int, NEW y \in Int
    PROVE  /\ Min({x, y}) \in {x, y} /\ Min({x, y}) <= x /\ Min({x, y}) <= y
           /\ Max({x, y}) \in {x, y} /\ Max({x, y}) >= x /\ Max({x, y}) >= y
<1>1. CASE x <= y
  <2>1. \E z \in {x, y} : \A w \in {x, y} : z <= w
    BY <1>1
  <2>2. \E z \in {x, y} : \A w \in {x, y} : z >= w
    BY <1>1
  <2> QED  BY <2>1, <2>2 DEF Min, Max
<1>2. CASE y <= x
  <2>1. \E z \in {x, y} : \A w \in {x, y} : z <= w
    BY <1>2
  <2>2. \E z \in {x, y} : \A w \in {x, y} : z >= w
    BY <1>2
  <2> QED  BY <2>1, <2>2 DEF Min, Max
<1> QED  BY <1>1, <1>2

\* A share of tokens is a number of tokens.
LEMMA ShareIsNat ==
    ASSUME NEW x \in Nat, NEW p \in Nat
    PROVE  Share(x, p) \in Nat
<1>1. x * p \in Nat
  OBVIOUS
<1>2. \A y \in Nat : y \div 100 \in Nat
  OBVIOUS
<1> QED  BY <1>1, <1>2 DEF Share

\* The rank of each entry has one row.
LEMMA RowAtIs ==
    ASSUME SelectionTypes, NEW t \in 1 .. Len(selected)
    PROVE  /\ RowAt(t) \in DOMAIN Pool
           /\ \E i \in DOMAIN selected : selected[i].row = RowAt(t)
<1> DEFINE n == Len(selected)
           S == {selected[i].row : i \in DOMAIN selected}
           f == [i \in 1 .. n |-> selected[i].row]
<1>1. n \in Nat /\ DOMAIN selected = 1 .. n
  BY LenProperties DEF SelectionTypes
<1> HIDE DEF n
<1>2. S \subseteq DOMAIN Pool /\ S \subseteq Nat
  <2>1. \A i \in DOMAIN selected : selected[i].row \in DOMAIN Pool
    <3>1. \A i \in DOMAIN selected : selected[i] \in PackEntry
      BY DEF SelectionTypes
    <3> QED  BY <3>1 DEF PackEntry
  <2>2. DOMAIN Pool \subseteq Nat
    BY PoolIs
  <2> QED  BY <2>1, <2>2
<1>3. f \in Bijection(1 .. n, S)
  <2>1. \A i, j \in 1 .. n : f[i] = f[j] => i = j
    BY <1>1 DEF SelectionTypes
  <2>2. f \in [1 .. n -> S] /\ \A x \in S : \E i \in 1 .. n : f[i] = x
    BY <1>1
  <2>3. DOMAIN f = 1 .. n
    OBVIOUS
  <2> HIDE DEF f, S
  <2> QED  BY <2>1, <2>2, <2>3 DEF Bijection, Injection, Surjection, IsInjective
<1>4. IsFiniteSet(S) /\ Cardinality(S) = n
  <2>1. ExistsBijection(1 .. n, S)
    BY <1>3 DEF ExistsBijection
  <2> HIDE DEF S, f
  <2>2. IsFiniteSet(S) /\ Cardinality(S) = n
    BY <1>1, <2>1, FS_CountingElements, FS_NatBijection
  <2> QED  BY <2>2
<1>5. Nth(S, t) \in S
  <2> HIDE DEF S
  <2>1. t \in 1 .. Cardinality(S)
    BY <1>4 DEF n
  <2> QED  BY <1>2, <1>4, <2>1, NthExists
<1>6. RowAt(t) = Nth(S, t)
  BY DEF RowAt
<1> QED  BY <1>2, <1>5, <1>6

\* A turn has its credit, as far as the ceiling goes.
LEMMA TurnIs ==
    ASSUME PackTypes, turn \in 1 .. Len(selected)
    PROVE  /\ Credit(RowAt(turn)) \in Nat
           /\ TurnCeiling \in Int /\ TurnCeiling <= ceiling
           /\ TurnCeiling <= used + Credit(RowAt(turn))
           /\ TurnBypass \in Int
<1>1. Credit(RowAt(turn)) \in Nat
  BY RowAtIs, CreditIsNat DEF PackTypes
<1>2. used + Credit(RowAt(turn)) \in Int /\ ceiling \in Int
  BY <1>1 DEF PackTypes, SelectionTypes
<1>3. TurnCeiling = Min({ceiling, used + Credit(RowAt(turn))})
  BY DEF TurnCeiling
<1> DEFINE x == used + Credit(RowAt(turn))
<1>4. Min({ceiling, x}) \in {ceiling, x} /\ Min({ceiling, x}) <= ceiling
      /\ Min({ceiling, x}) <= x
  <2> HIDE DEF x
  <2> QED  BY <1>2, MinOfTwo DEF x
<1>5. TurnBypass \in Int
  BY DEF TurnBypass
<1> QED  BY <1>1, <1>2, <1>3, <1>4, <1>5

\* What an entry offers is a richer render of it, and it offers one at most.
LEMMA OfferIs ==
    ASSUME profile \in Profile, bundles = Pool,
           NEW i, NEW e, e.row \in DOMAIN Pool, NEW w, NEW c, NEW o \in Offer(i, e, w, c)
    PROVE  /\ o.entry = i /\ o.render \in Rendering
           /\ RungOf(Rungs, o.render.mode) \in Above(e)
           /\ \A p \in Offer(i, e, w, c) : p = o
<1> DEFINE H == Higher(e, w, c)
           k == Min(H)
           r == Rung(e.row, Rungs[k], w, c)
<1>1. H # {} /\ o = [entry |-> i, expected |-> e.cost, render |-> r]
      /\ \A p \in Offer(i, e, w, c) : p = o
  BY DEF Offer
<1>2. PICK n \in 1 .. 7 : DOMAIN Rungs = 1 .. n /\ Len(Rungs) = n
  BY RungsAre
<1>3. Above(e) \subseteq DOMAIN Rungs
  <2>1. RungOf(Rungs, e.mode) \in 0 .. n
    BY <1>2, RungIs
  <2> QED  BY <1>2, <2>1 DEF Above
<1>4. H \subseteq Above(e) /\ H \subseteq Nat
  BY <1>2, <1>3 DEF Higher
<1>5. k \in H
  <2> HIDE DEF H
  <2> QED  BY <1>1, <1>4, MinExists
<1>6. Climbs(e, k, r)
  BY <1>5 DEF Higher
<1>7. RungOf(Rungs, r.mode) \in Above(e)
  BY <1>6 DEF Climbs
<1>8. Rungs[k] \in Mode
  BY <1>3, <1>4, <1>5, RungsAre
<1>9. r \in Rendering
  <2>1. PICK m \in Mode : r = Render(e.row, m)
    <3> HIDE DEF k
    <3> QED  BY <1>8, LimitedIs DEF Rung
  <2> HIDE DEF r
  <2> QED  BY <2>1, PoolIs DEF Render, IsBundle
<1> HIDE DEF r
<1> QED  BY <1>1, <1>7, <1>9

\* Nothing is bought or sold.
LEMMA SelectionStays ==
    ASSUME SelectionTypes, UNCHANGED <<selected, used>>, heap' \subseteq heap
    PROVE  SelectionTypes' /\ Len(selected') = Len(selected)
  BY DEF SelectionTypes

\* Coverage.
LEMMA CoverTypes ==
    ASSUME PackTypes, Cover
    PROVE  PackTypes'
<1>1. PICK b \in DOMAIN bundles : Requeue(b) \/ Thin(b) \/ TooDear(b) \/ Buy(b)
  BY DEF Cover
<1>2. /\ phase = "cover" /\ phase' = phase /\ profile' = profile /\ bundles' = bundles
      /\ UNCHANGED <<ceiling, wave, upgrades, turn, lane, covered>>
  BY <1>1 DEF Requeue, Thin, TooDear, Buy, Covering, request, AfterCoverage, waveVars,
              rankVars
<1>3. SelectionTypes'
  <2>1. CASE Buy(b)
    BY <2>1, BuyKeeps DEF PackTypes
  <2>2. CASE ~Buy(b)
    <3>1. UNCHANGED <<selected, used>> /\ heap' \subseteq heap
      BY <1>1, <2>2 DEF Requeue, Thin, TooDear
    <3> QED  BY <3>1, SelectionStays DEF PackTypes
  <2> QED  BY <2>1, <2>2
<1> QED  BY <1>2, <1>3 DEF PackTypes, IsWave, InTurn

\* The end of coverage fixes the ceiling of the upgrades.
LEMMA EndCoverageTypes ==
    ASSUME PackTypes, EndCoverage
    PROVE  PackTypes'
<1> DEFINE x == used + Share(Budget, ReserveShare)
           y == used + Share(UpgradeBudget, SpanShare)
<1>1. used \in Nat /\ Len(selected) \in Nat
  BY PrintedIs, LenProperties DEF PackTypes, SelectionTypes
<1>2. UpgradeBudget \in Nat /\ UpgradeBudget <= Budget
  <2>1. x \in Nat /\ Budget \in Nat
    <3>1. Share(Budget, ReserveShare) \in Nat /\ Budget \in Nat
      BY NumbersAre, ShareIsNat
    <3> QED  BY <1>1, <3>1
  <2>2. Min({Budget, x}) \in {Budget, x} /\ Min({Budget, x}) <= Budget
    <3> HIDE DEF x
    <3> QED  BY <2>1, MinOfTwo
  <2> QED  BY <2>1, <2>2 DEF UpgradeBudget
<1>3. y \in Int
  <2>1. Share(UpgradeBudget, SpanShare) \in Nat
    BY <1>2, NumbersAre, ShareIsNat
  <2> QED  BY <1>1, <2>1
<1>4. Min({UpgradeBudget, y}) \in Int /\ Min({UpgradeBudget, y}) <= UpgradeBudget
  <2> HIDE DEF y
  <2> QED  BY <1>2, <1>3, MinOfTwo
<1>5. /\ phase' \in {"waves", "ranks", "reserve"} /\ turn' = 1 /\ ceiling' = UpgradeBudget
      /\ lane' = [NoLane EXCEPT !.ceiling = Min({UpgradeBudget, y})]
      /\ covered' = used
      /\ UNCHANGED <<profile, bundles, heap, selected, used, wave>>
  BY DEF EndCoverage, request, coverVars, waveVars
<1>6. lane' \in LaneState /\ lane'.ceiling <= UpgradeBudget /\ lane'.at = 0
  BY <1>4, <1>5 DEF NoLane, LaneState
<1>7. SelectionTypes'
  BY <1>5, SelectionStays DEF PackTypes
<1> QED  BY <1>1, <1>2, <1>5, <1>6, <1>7 DEF PackTypes, IsWave, InTurn

\* A walk starts with what its entries offer.
LEMMA StartWaveTypes ==
    ASSUME PackTypes, NEW w, NEW c, StartWave(w, c), IsWave(w),
           w.ceiling \in Int, w.ceiling <= ceiling, w.entries \subseteq DOMAIN selected,
           w.name = "rank" => turn <= Len(selected), phase # "cover",
           UNCHANGED <<profile, bundles, heap, selected, used, ceiling, turn, lane, covered>>
    PROVE  PackTypes'
<1>1. /\ phase' = "walk" /\ wave' = w
      /\ upgrades' = UNION {Offer(i, selected[i], w, c) : i \in w.entries}
  BY DEF StartWave
<1>2. ASSUME NEW o \in upgrades' PROVE o.entry \in DOMAIN selected /\ o.render \in Rendering
  <2>1. PICK i \in w.entries : o \in Offer(i, selected[i], w, c)
    BY <1>1, <1>2
  <2>2. selected[i] \in PackEntry
    BY DEF PackTypes, SelectionTypes
  <2>3. selected[i].row \in DOMAIN Pool
    BY <2>2 DEF PackEntry
  <2> QED  BY <2>1, <2>3, OfferIs DEF PackTypes
<1>3. SelectionTypes'
  BY SelectionStays DEF PackTypes
<1> QED  BY <1>1, <1>2, <1>3 DEF PackTypes, IsWave, InTurn

\* A wave has the fields it was made with.
LEMMA WaveIs ==
    ASSUME PackTypes, NEW name, NEW limit, NEW E
    PROVE  LET w == Wave(name, limit, E, ceiling)
           IN  /\ IsWave(w) /\ w.ceiling \in Int /\ w.ceiling <= ceiling
               /\ w.entries = E /\ w.name = name /\ w.limit = limit
  BY DEF Wave, IsWave, PackTypes

\* Wave by wave, and rank by rank, a walk starts over.
LEMMA WaveStartTypes ==
    ASSUME PackTypes, StartCapped \/ EndWave \/ StartTurn
    PROVE  PackTypes'
<1>1. UNCHANGED <<profile, bundles, heap, selected, used, ceiling, turn, lane, covered>>
  BY DEF StartCapped, EndWave, StartTurn, request, coverVars, rankVars
<1>2. ASSUME phase' = "packed", UNCHANGED waveVars, phase # "cover" PROVE PackTypes'
  <2>1. SelectionTypes'
    BY <1>1, SelectionStays DEF PackTypes
  <2> QED  BY <1>1, <1>2, <2>1 DEF PackTypes, IsWave, waveVars, InTurn
<1>3. CASE StartCapped
  <2> DEFINE w == Wave("capped", LeaderLimit, DOMAIN selected, ceiling)
  <2>1. StartWave(w, <<>>) /\ phase = "waves"
    BY <1>3 DEF StartCapped
  <2>2. IsWave(w) /\ w.ceiling \in Int /\ w.ceiling <= ceiling
        /\ w.entries = DOMAIN selected /\ w.name = "capped"
    BY WaveIs
  <2> HIDE DEF w
  <2> QED  BY <1>1, <2>1, <2>2, StartWaveTypes
<1>4. CASE EndWave
  <2> DEFINE w1 == Wave("leaders", ceiling, LeaderEntries, ceiling)
             w2 == Wave("tail", ceiling, DOMAIN selected, ceiling)
  <2>1. /\ phase = "walk"
        /\ \/ phase' = "packed" /\ UNCHANGED waveVars
           \/ StartWave(w1, RelaxedCache)
           \/ \E c : StartWave(w2, c)
    BY <1>4 DEF EndWave
  <2>2. IsWave(w1) /\ w1.ceiling \in Int /\ w1.ceiling <= ceiling
        /\ w1.entries \subseteq DOMAIN selected /\ w1.name = "leaders"
    BY WaveIs DEF LeaderEntries
  <2>3. IsWave(w2) /\ w2.ceiling \in Int /\ w2.ceiling <= ceiling
        /\ w2.entries = DOMAIN selected /\ w2.name = "tail"
    BY WaveIs
  <2> HIDE DEF w1, w2
  <2> QED  BY <1>1, <1>2, <2>1, <2>2, <2>3, StartWaveTypes
<1>5. CASE StartTurn
  <2>1. phase = "ranks"
    BY <1>5 DEF StartTurn
  <2>2. CASE TurnsOver
    BY <1>2, <1>5, <2>1, <2>2 DEF StartTurn
  <2>3. CASE ~TurnsOver
    <3> DEFINE w == [name |-> "rank", limit |-> ceiling, ceiling |-> TurnCeiling,
                     entries |-> {i \in DOMAIN selected : selected[i].row = RowAt(turn)},
                     bypass |-> TurnBypass, free |-> TRUE]
    <3>1. StartWave(w, cache)
      BY <1>5, <2>3 DEF StartTurn
    <3>2. turn \in 1 .. Len(selected)
      BY <2>1, <2>3, LenProperties DEF TurnsOver, PackTypes, SelectionTypes
    <3>3. TurnCeiling \in Int /\ TurnCeiling <= ceiling
      BY <3>2, TurnIs
    <3>4. /\ IsWave(w) /\ w.name = "rank" /\ w.ceiling = TurnCeiling
          /\ w.entries \subseteq DOMAIN selected
      BY DEF IsWave
    <3> HIDE DEF w
    <3> QED  BY <1>1, <2>1, <3>1, <3>2, <3>3, <3>4, StartWaveTypes
  <2> QED  BY <2>2, <2>3
<1> QED  BY <1>3, <1>4, <1>5

\* The entries stay the same bundles, whatever they show.
SameRows ==
    /\ Len(selected') = Len(selected) /\ DOMAIN selected' = DOMAIN selected
    /\ \A j \in DOMAIN selected : selected'[j].row = selected[j].row

\* The entry that shows a symbol is one of the selection.
LEMMA EntryOfIs ==
    ASSUME SelectionTypes, NEW u, EntryOf(u) # 0
    PROVE  EntryOf(u) \in DOMAIN selected
<1>1. u \in Shown(selected)
  BY DEF EntryOf
<1>2. EntryOf(u) = FirstShowing(selected, u)
  BY <1>1 DEF EntryOf
<1> QED  BY <1>1, <1>2, FirstIs DEF SelectionTypes

\* An entry of the selection, and its bundle.
LEMMA EntryIs ==
    ASSUME SelectionTypes, NEW i \in DOMAIN selected
    PROVE  selected[i] \in PackEntry /\ selected[i].row \in DOMAIN Pool
<1>1. selected[i] \in PackEntry
  BY DEF SelectionTypes
<1> QED  BY <1>1 DEF PackEntry

\* A render with other tokens for one symbol is well formed.
LEMMA ShowingIs ==
    ASSUME SelectionTypes, NEW i \in DOMAIN selected, NEW u \in Uid, NEW tokens \in Nat
    PROVE  Rendered("symbol", Showing(i, u, tokens)) \in Rendering
           /\ Rendered("symbol", Showing(i, u, tokens)).shows = Showing(i, u, tokens)
<1> DEFINE shows == selected[i].shows
           f == Showing(i, u, tokens)
<1>1. shows \in Shows
  BY EntryIs DEF PackEntry
<1>2. f = [v \in DOMAIN shows \cup {u} |-> IF v = u THEN tokens ELSE shows[v]]
  BY DEF Showing
<1> HIDE DEF shows, f
<1>3. DOMAIN shows \subseteq Uid /\ \A v \in DOMAIN shows : shows[v] \in Nat
  BY <1>1, ShowsAre
<1>4. f \in [DOMAIN shows \cup {u} -> Nat] /\ DOMAIN shows \cup {u} \in SUBSET Uid
  BY <1>2, <1>3
<1>5. f \in Shows
  BY <1>4 DEF Shows
<1> QED  BY <1>5, RenderedIsRender DEF f

\* The walk of a heap.
LEMMA PopRefusedTypes ==
    ASSUME PackTypes, NEW o \in upgrades, PopRefused(o)
    PROVE  PackTypes' /\ SameRows
<1>1. /\ UNCHANGED <<profile, bundles, phase, heap, selected, used, ceiling, wave, turn,
                     lane, covered>>
      /\ upgrades' = upgrades \ {o}
  BY DEF PopRefused, request, coverVars, rankVars
<1>2. SelectionTypes'
  BY <1>1, SelectionStays DEF PackTypes
<1>3. SameRows
  BY <1>1 DEF SameRows
<1> QED  BY <1>1, <1>2, <1>3 DEF PackTypes, IsWave, InTurn

\* A pop that upgrades changes one entry, within the ceiling of its wave.
LEMMA PopUpgradeTypes ==
    ASSUME PackTypes, NEW o \in upgrades, PopUpgrade(o)
    PROVE  /\ PackTypes' /\ SameRows
           /\ used' <= wave.ceiling
           /\ \A j \in DOMAIN selected : j # o.entry => selected'[j] = selected[j]
           /\ selected'[o.entry] = Bought(selected[o.entry].row, o.render)
<1>1. /\ UNCHANGED <<profile, bundles, phase, heap, ceiling, turn, lane, covered>>
      /\ phase = "walk" /\ Swap(o.entry, o.render, wave.ceiling)
      /\ \E b : wave' = [wave EXCEPT !.bypass = b]
      /\ upgrades' = (upgrades \ {o})
                     \cup Offer(o.entry, selected'[o.entry], wave, cache)
  BY DEF PopUpgrade, request, coverVars, rankVars
<1>2. o.entry \in DOMAIN selected /\ o.render \in Rendering /\ wave.ceiling \in Int
  BY <1>1 DEF PackTypes
<1>3. /\ SelectionTypes' /\ SameRows /\ used' <= wave.ceiling
      /\ \A j \in DOMAIN selected : j # o.entry => selected'[j] = selected[j]
      /\ selected'[o.entry] = Bought(selected[o.entry].row, o.render)
  BY <1>1, <1>2, SwapKeeps DEF PackTypes, SameRows
<1>4. /\ IsWave(wave') /\ wave'.name = wave.name /\ wave'.ceiling = wave.ceiling
  <2>1. PICK b : wave' = [wave EXCEPT !.bypass = b]
    BY <1>1
  <2> QED  BY <2>1 DEF IsWave, PackTypes
<1>5. ASSUME NEW p \in upgrades'
      PROVE  p.entry \in DOMAIN selected /\ p.render \in Rendering
  <2>1. CASE p \in upgrades
    BY <1>1, <2>1 DEF PackTypes
  <2>2. CASE p \in Offer(o.entry, selected'[o.entry], wave, cache)
    <3>1. selected'[o.entry].row \in DOMAIN Pool
      BY <1>2, <1>3, EntryIs DEF SameRows, PackTypes
    <3> QED  BY <1>2, <2>2, <3>1, OfferIs DEF PackTypes
  <2> QED  BY <1>1, <1>5, <2>1, <2>2
<1>6. IsWave(wave)'
  BY <1>4 DEF IsWave
<1>7. PackTypes'
  BY <1>1, <1>3, <1>4, <1>5, <1>6 DEF PackTypes, InTurn, SameRows
<1> QED  BY <1>3, <1>7

\* The turn of the next entry.
LEMMA EndTurnTypes ==
    ASSUME PackTypes, EndTurn
    PROVE  PackTypes' /\ SameRows
<1>1. /\ UNCHANGED <<profile, bundles, heap, selected, used, ceiling, wave, lane, covered>>
      /\ phase = "walk" /\ wave.name = "rank" /\ phase' \in {"packed", "ranks"}
      /\ turn' = turn + 1
  BY DEF EndTurn, request, coverVars, waveVars
<1>2. SelectionTypes' /\ Len(selected) \in Nat
  BY <1>1, SelectionStays, LenProperties DEF PackTypes, SelectionTypes
<1>3. turn' \in Nat /\ turn' \in 1 .. Len(selected') + 1
  BY <1>1, <1>2 DEF PackTypes, InTurn
<1> QED  BY <1>1, <1>2, <1>3 DEF PackTypes, IsWave, InTurn, SameRows

\* An upgrade of one symbol.
LEMMA SymbolSwap ==
    ASSUME SelectionTypes, heap' = heap, NEW i \in DOMAIN selected, NEW u \in Uid,
           NEW tokens \in Nat, NEW top \in Int,
           Swap(i, Rendered("symbol", Showing(i, u, tokens)), top)
    PROVE  SelectionTypes' /\ SameRows /\ used' <= top
<1> DEFINE r == Rendered("symbol", Showing(i, u, tokens))
<1>1. r \in Rendering
  BY ShowingIs
<1> HIDE DEF r
<1>2. Swap(i, r, top)
  BY DEF r
<1> QED  BY <1>1, <1>2, SwapKeeps DEF SameRows

\* The end of the reserve of the windows.
LEMMA EndReserveTypes ==
    ASSUME PackTypes, EndReserve
    PROVE  PackTypes' /\ SameRows
<1>1. /\ UNCHANGED <<profile, bundles, heap, selected, used, ceiling, wave, lane, covered>>
      /\ phase = "reserve" /\ phase' = "lanes" /\ turn' = 1
  BY DEF EndReserve, request, coverVars, waveVars
<1>2. SelectionTypes' /\ Len(selected) \in Nat
  BY <1>1, SelectionStays, LenProperties DEF PackTypes, SelectionTypes
<1> QED  BY <1>1, <1>2 DEF PackTypes, IsWave, InTurn, SameRows

\* Windows out of the reserve stay within its ceiling.
LEMMA ReserveSpanTypes ==
    ASSUME PackTypes, ReserveSpan
    PROVE  PackTypes' /\ SameRows /\ (used' # used => used' <= lane.ceiling)
<1> DEFINE u == bundles[RowAt(turn)].seed
           i == EntryOf(u)
           s == Rendered("symbol", Showing(i, u, Spans[u]))
<1>1. /\ UNCHANGED <<profile, bundles, heap, ceiling, wave, covered>>
      /\ phase = "reserve" /\ turn <= Len(selected) /\ lane.ceiling \in Int
      /\ lane.ceiling <= ceiling /\ lane.at = 0
      /\ lane \in LaneState /\ Len(selected) \in Nat /\ turn \in 1 .. Len(selected)
  <2>1. phase = "reserve" /\ turn <= Len(selected)
        /\ UNCHANGED <<profile, bundles, heap, ceiling, wave, covered>>
    BY DEF ReserveSpan, request, coverVars, waveVars
  <2>2. Len(selected) \in Nat
    BY LenProperties DEF PackTypes, SelectionTypes
  <2> QED  BY <2>1, <2>2 DEF PackTypes, LaneState
<1>2. u \in Uid
  BY <1>1, RowAtIs, PoolIs DEF PackTypes, IsBundle
<1>3. /\ \/ UNCHANGED <<selected, used, lane>>
         \/ /\ u \in DOMAIN Spans /\ i # 0
            /\ Swap(i, s, lane.ceiling)
            /\ lane' = [lane EXCEPT !.reserved = @ \cup {u}]
      /\ \/ phase' = "lanes" /\ turn' = 1
         \/ phase' = "reserve" /\ turn' = turn + 1
  BY <1>1 DEF ReserveSpan
<1>4. CASE UNCHANGED <<selected, used, lane>>
  <2>1. SelectionTypes'
    BY <1>1, <1>4, SelectionStays DEF PackTypes
  <2> QED  BY <1>1, <1>3, <1>4, <2>1 DEF PackTypes, IsWave, InTurn, SameRows
<1>5. CASE /\ u \in DOMAIN Spans /\ i # 0
           /\ Swap(i, s, lane.ceiling)
           /\ lane' = [lane EXCEPT !.reserved = @ \cup {u}]
  <2>1. i \in DOMAIN selected
    BY <1>5, EntryOfIs DEF PackTypes
  <2>2. Spans[u] \in Nat
    BY <1>5, CreditConstants DEF CreditConstants, AreTokens
  <2> HIDE DEF u, i
  <2>3. SelectionTypes' /\ SameRows /\ used' <= lane.ceiling
    BY <1>1, <1>2, <1>5, <2>1, <2>2, SymbolSwap DEF PackTypes
  <2>4. lane' \in LaneState /\ lane'.ceiling = lane.ceiling /\ lane'.at = 0
    BY <1>1, <1>2, <1>5 DEF LaneState
  <2> QED  BY <1>1, <1>3, <2>3, <2>4 DEF PackTypes, IsWave, InTurn, SameRows
<1> QED  BY <1>3, <1>4, <1>5

\* The lanes of an entry start with its credit.
LEMMA StartLanesTypes ==
    ASSUME PackTypes, StartLanes
    PROVE  PackTypes' /\ SameRows
<1>1. /\ UNCHANGED <<profile, bundles, heap, selected, used, ceiling, wave, turn, covered>>
      /\ phase = "lanes" /\ lane.at = 0
  BY DEF StartLanes, OutsideLanes, spending, request, coverVars, waveVars
<1>2. SelectionTypes' /\ Len(selected) \in Nat
  BY <1>1, SelectionStays, LenProperties DEF PackTypes, SelectionTypes
<1>3. CASE TurnsOver
  <2>1. phase' = "packed" /\ lane' = lane
    BY <1>3 DEF StartLanes
  <2> QED  BY <1>1, <1>2, <2>1 DEF PackTypes, IsWave, InTurn, SameRows
<1>4. CASE ~TurnsOver
  <2>1. /\ phase' = phase
        /\ lane' = [lane EXCEPT !.at = 1, !.rung = "span",
                       !.ceiling = TurnCeiling, !.bypass = TurnBypass]
    BY <1>4 DEF StartLanes
  <2>2. turn \in 1 .. Len(selected)
    BY <1>1, <1>2, <1>4 DEF TurnsOver, PackTypes
  <2>3. TurnCeiling \in Int /\ TurnCeiling <= ceiling /\ TurnBypass \in Int
    BY <2>2, TurnIs
  <2>4. lane' \in LaneState /\ lane'.ceiling <= ceiling
    BY <2>1, <2>3 DEF LaneState, PackTypes
  <2> QED  BY <1>1, <1>2, <2>1, <2>2, <2>4 DEF PackTypes, IsWave, InTurn, SameRows
<1> QED  BY <1>3, <1>4

\* The lane an entry is in.
LEMMA LaneIs ==
    ASSUME PackTypes, InLane
    PROVE  /\ phase = "lanes" /\ lane.at \in Nat \ {0}
           /\ turn \in 1 .. Len(selected) /\ Len(selected) \in Nat
           /\ lane.ceiling \in Int /\ lane.ceiling <= ceiling
           /\ Target \in Uid /\ Target \in DOMAIN Render(RowAt(turn), "full").shows
<1>1. /\ phase = "lanes" /\ lane.at > 0 /\ lane.at <= Len(LanesOf) /\ lane.at \in Nat
      /\ lane.ceiling \in Int /\ lane.ceiling <= ceiling
  BY DEF InLane, PackTypes, LaneState
<1>2. Len(selected) \in Nat
  BY LenProperties DEF PackTypes, SelectionTypes
<1>3. turn \in 1 .. Len(selected)
  BY <1>1, <1>2 DEF PackTypes, InTurn
<1>4. RowAt(turn) \in DOMAIN Pool
  BY <1>3, RowAtIs DEF PackTypes
<1>5. IsBundle(bundles[RowAt(turn)])
  BY <1>4, PoolIs DEF PackTypes
<1>6. DOMAIN LanesOf = 1 .. Len(LanesOf)
  BY <1>5 DEF IsBundle, LanesOf
<1>7. lane.at \in DOMAIN LanesOf
  <2>1. Len(LanesOf) \in Nat
    BY <1>5 DEF IsBundle, LanesOf
  <2> QED  BY <1>1, <1>6, <2>1
<1>8. Target \in DOMAIN bundles[RowAt(turn)].renders["full"].shows
  BY <1>5, <1>7 DEF IsBundle, Target, LanesOf
<1>9. bundles[RowAt(turn)].renders["full"].shows \in Shows
  <2>1. bundles[RowAt(turn)].renders["full"] \in Rendering
    BY <1>5, LadderIs DEF IsBundle
  <2> QED  BY <2>1 DEF Rendering
<1>10. Target \in Uid
  BY <1>8, <1>9, ShowsAre
<1> QED  BY <1>1, <1>2, <1>3, <1>8, <1>10 DEF Render

\* The richest text of a symbol some entry has is a number of tokens.
LEMMA RichestIs ==
    ASSUME bundles = Pool, SelectionTypes, NEW u,
           NEW i \in DOMAIN selected, u \in DOMAIN Render(selected[i].row, "full").shows
    PROVE  RichestOf(u) \in Nat
<1> DEFINE n == Len(selected)
           texts == {Render(selected[j].row, "full").shows : j \in DOMAIN selected}
           with == {t \in texts : u \in DOMAIN t}
           S == {t[u] : t \in with}
<1>1. \A j \in DOMAIN selected : Render(selected[j].row, "full").shows \in Shows
  <2>1. \A j \in DOMAIN selected : Render(selected[j].row, "full") \in Rendering
    BY EntryIs, PoolIs, LadderIs DEF IsBundle, Render
  <2> QED  BY <2>1 DEF Rendering
<1>2. IsFiniteSet(texts)
  <2>1. n \in Nat /\ DOMAIN selected = 1 .. n
    BY LenProperties DEF SelectionTypes
  <2>2. IsFiniteSet(1 .. n)
    BY <2>1, FS_Interval
  <2> DEFINE f == [j \in 1 .. n |-> Render(selected[j].row, "full").shows]
  <2>3. f \in Surjection(1 .. n, texts)
    BY <2>1 DEF Surjection
  <2> HIDE DEF f, texts, n
  <2> QED  BY <2>2, <2>3, FS_Surjection
<1>3. \A t \in with : t[u] \in Nat
  BY <1>1, ShowsAre
<1>4. IsFiniteSet(S)
  <2> HIDE DEF texts
  <2>1. IsFiniteSet(with)
    BY <1>2, FS_Subset
  <2> HIDE DEF with
  <2>2. [t \in with |-> t[u]] \in Surjection(with, S)
    BY DEF Surjection
  <2> HIDE DEF S
  <2> QED  BY <2>1, <2>2, FS_Surjection
<1>5. S # {} /\ \A x \in S : x \in Nat /\ x \in Int
  <2>1. Render(selected[i].row, "full").shows \in with
    OBVIOUS
  <2> HIDE DEF with
  <2> QED  BY <1>3, <2>1
<1>6. Max(S) \in S
  <2> HIDE DEF S
  <2> QED  BY <1>4, <1>5, MaxExists
<1>7. RichestOf(u) = Max(S)
  BY DEF RichestOf
<1> HIDE DEF S
<1> QED  BY <1>5, <1>6, <1>7

\* What a lane asks for.
LEMMA WantedIs ==
    ASSUME PackTypes, InLane, ~Skipped, lane.rung = "span" => SpanWanted
    PROVE  /\ TargetEntry \in DOMAIN selected
           /\ \E tokens \in Nat : Wanted = Showing(TargetEntry, Target, tokens)
<1>1. TargetEntry \in DOMAIN selected
  <2>1. TargetEntry # 0
    BY DEF Skipped
  <2> QED  BY <2>1, EntryOfIs DEF TargetEntry, PackTypes
<1>2. CASE lane.rung = "span"
  <2>1. Target \in DOMAIN Spans
    BY <1>2 DEF SpanWanted
  <2>2. Spans[Target] \in Nat
    BY <2>1, CreditConstants DEF CreditConstants, AreTokens
  <2>3. Wanted = Showing(TargetEntry, Target, Spans[Target])
    BY <1>2 DEF Wanted
  <2> QED  BY <1>1, <2>2, <2>3
<1>3. CASE lane.rung # "span"
  <2>1. PICK i \in DOMAIN selected : selected[i].row = RowAt(turn)
    BY LaneIs, RowAtIs DEF PackTypes
  <2>2. Target \in DOMAIN Render(selected[i].row, "full").shows
    BY <2>1, LaneIs
  <2>3. RichestOf(Target) \in Nat
    BY <2>2, RichestIs DEF PackTypes
  <2>4. Wanted = Showing(TargetEntry, Target, RichestOf(Target))
    BY <1>3 DEF Wanted
  <2> QED  BY <1>1, <2>3, <2>4
<1> QED  BY <1>2, <1>3

\* The bypass of a lane stays a number.
LEMMA BypassIs ==
    ASSUME NEW bypass \in Int, NEW tokens, NEW left \in BypassAfter(bypass, tokens)
    PROVE  left \in Int
  BY DEF BypassAfter

\* How a lane moves.
LEMMA LaneMoves ==
    ASSUME lane \in LaneState, NEW u \in Uid, NEW b \in Int
    PROVE  \A l \in {[lane EXCEPT !.rung = "body", !.bypass = b],
                     [lane EXCEPT !.rung = "body"], [lane EXCEPT !.at = @ + 1],
                     [lane EXCEPT !.at = @ + 1, !.rung = "span",
                                  !.done = @ \cup {u}, !.bypass = b],
                     [lane EXCEPT !.at = @ + 1, !.rung = "span", !.done = @ \cup {u}]} :
               l \in LaneState /\ l.ceiling = lane.ceiling
<1> DEFINE x == lane.at + 1
           d == lane.done \cup {u}
<1>1. x \in Nat /\ d \in SUBSET Uid
  BY DEF LaneState
<1> HIDE DEF x, d
<1>2. ASSUME NEW l \in {[lane EXCEPT !.rung = "body", !.bypass = b],
                        [lane EXCEPT !.rung = "body"], [lane EXCEPT !.at = x]}
      PROVE  l \in LaneState /\ l.ceiling = lane.ceiling
  BY <1>1, <1>2 DEF LaneState
<1>3. ASSUME NEW l, l = [lane EXCEPT !.at = x, !.rung = "span", !.done = d, !.bypass = b]
      PROVE  l \in LaneState /\ l.ceiling = lane.ceiling
  BY <1>1, <1>3 DEF LaneState
<1>4. ASSUME NEW l, l = [lane EXCEPT !.at = x, !.rung = "span", !.done = d]
      PROVE  l \in LaneState /\ l.ceiling = lane.ceiling
  BY <1>1, <1>4 DEF LaneState
<1> QED  BY <1>2, <1>3, <1>4 DEF x, d

\* A lane buys within its ceiling.
LEMMA LaneBuysTypes ==
    ASSUME PackTypes, LaneBuys
    PROVE  PackTypes' /\ SameRows /\ used' <= lane.ceiling /\ lane'.ceiling = lane.ceiling
<1>1. InLane /\ ~Skipped /\ (lane.rung = "span" => SpanWanted)
      /\ Swap(TargetEntry, Rendered("symbol", Wanted), lane.ceiling)
  BY DEF LaneBuys
<1>2. /\ phase = "lanes" /\ lane.at \in Nat \ {0}
      /\ turn \in 1 .. Len(selected) /\ Len(selected) \in Nat
      /\ lane.ceiling \in Int /\ lane.ceiling <= ceiling /\ Target \in Uid
  BY <1>1, LaneIs
<1>3. UNCHANGED <<profile, bundles, heap, ceiling, wave, turn, covered>>
  BY DEF LaneBuys, OutsideLanes, request, coverVars, waveVars
<1>4. PICK tokens \in Nat : Wanted = Showing(TargetEntry, Target, tokens)
  BY <1>1, WantedIs
<1>5. TargetEntry \in DOMAIN selected
  BY <1>1, WantedIs
<1>6. SelectionTypes' /\ SameRows /\ used' <= lane.ceiling
  BY <1>1, <1>2, <1>3, <1>4, <1>5, SymbolSwap DEF PackTypes
<1>7. PICK left \in BypassAfter(LaneBypass, Delta(TargetEntry, Wanted)) :
        LET bypass == lane.bypass - (LaneBypass - left)
        IN  IF lane.rung = "span"
            THEN /\ lane' = [lane EXCEPT !.rung = "body", !.bypass = bypass]
                 /\ UNCHANGED phase
            ELSE /\ lane' = [lane EXCEPT !.at = @ + 1, !.rung = "span",
                                 !.done = @ \cup {Target}, !.bypass = bypass]
                 /\ phase' = IF used' >= ceiling THEN "packed" ELSE "lanes"
  BY DEF LaneBuys
<1> DEFINE bypass == lane.bypass - (LaneBypass - left)
<1>8. bypass \in Int
  <2>1. LaneBypass \in Int /\ lane.bypass \in Int
    BY DEF LaneBypass, PackTypes, LaneState
  <2>2. left \in Int
    BY <2>1, BypassIs
  <2> QED  BY <2>1, <2>2
<1>9. /\ phase' \in {"lanes", "packed"}
      /\ \/ lane' = [lane EXCEPT !.rung = "body", !.bypass = bypass]
         \/ lane' = [lane EXCEPT !.at = @ + 1, !.rung = "span",
                                 !.done = @ \cup {Target}, !.bypass = bypass]
  BY <1>2, <1>7
<1> HIDE DEF bypass
<1>10. lane' \in LaneState /\ lane'.ceiling = lane.ceiling
  <2>1. lane \in LaneState
    BY DEF PackTypes
  <2>2. lane' \in {[lane EXCEPT !.rung = "body", !.bypass = bypass],
                   [lane EXCEPT !.at = @ + 1, !.rung = "span",
                                !.done = @ \cup {Target}, !.bypass = bypass]}
    BY <1>9
  <2> HIDE <1>9
  <2> QED  BY <1>2, <1>8, <2>1, <2>2, LaneMoves
<1>11. PackTypes'
  BY <1>2, <1>3, <1>6, <1>9, <1>10 DEF PackTypes, IsWave, InTurn, SameRows
<1> QED  BY <1>6, <1>10, <1>11

\* A lane that buys nothing.
LEMMA LaneRestTypes ==
    ASSUME PackTypes, SkipLane \/ LeaveLanes \/ LaneRefused \/ NoSpan
    PROVE  PackTypes' /\ SameRows /\ UNCHANGED <<selected, used>>
           /\ lane'.ceiling = lane.ceiling
<1>1. /\ phase = "lanes" /\ lane.at > 0 /\ phase' \in {"lanes", "packed"}
      /\ UNCHANGED <<profile, bundles, heap, selected, used, ceiling, wave, covered>>
  BY DEF SkipLane, LeaveLanes, LaneRefused, NoSpan, InLane, FinishLane, OutsideLanes,
         spending, request, coverVars, waveVars
<1>2. SelectionTypes' /\ Len(selected) \in Nat
  BY <1>1, SelectionStays, LenProperties DEF PackTypes, SelectionTypes
<1>3. turn \in 1 .. Len(selected)
  BY <1>1, <1>2 DEF PackTypes, InTurn
<1>4. CASE LeaveLanes
  <2>1. turn' = turn + 1 /\ lane' = [lane EXCEPT !.at = 0]
    BY <1>4 DEF LeaveLanes
  <2>2. lane' \in LaneState /\ lane'.ceiling = lane.ceiling /\ lane'.at = 0
    BY <2>1 DEF PackTypes, LaneState
  <2> QED  BY <1>1, <1>2, <1>3, <2>1, <2>2 DEF PackTypes, IsWave, InTurn, SameRows
<1>5. CASE ~LeaveLanes
  <2>1. InLane /\ turn' = turn
    BY <1>5 DEF SkipLane, LaneRefused, NoSpan
  <2>2. Target \in Uid
    BY <2>1, LaneIs
  <2>3. \/ lane' = [lane EXCEPT !.at = @ + 1]
        \/ lane' = [lane EXCEPT !.at = @ + 1, !.rung = "span", !.done = @ \cup {Target}]
        \/ lane' = [lane EXCEPT !.rung = "body"]
    BY <1>5 DEF SkipLane, LaneRefused, NoSpan, FinishLane
  <2>4. lane' \in LaneState /\ lane'.ceiling = lane.ceiling
    BY <2>2, <2>3, LaneMoves DEF PackTypes
  <2> QED  BY <1>1, <1>2, <1>3, <2>1, <2>4 DEF PackTypes, IsWave, InTurn, SameRows
<1> QED  BY <1>4, <1>5

\* Every step keeps the types, and what is spent is what is printed.
THEOREM PackTypeCorrect == PackSpec => []PackTypes
<1>1. PackInit => PackTypes
  <2> SUFFICES ASSUME PackInit PROVE PackTypes
    OBVIOUS
  <2>1. SelectionTypes
    <3>1. selected = <<>> /\ selected \in Seq(PackEntry) /\ DOMAIN selected = {}
      BY DEF PackInit
    <3>2. PrintedTokens(selected) = 0
      <4>1. Shown(selected) = {}
        BY <3>1 DEF Shown
      <4>2. DOMAIN Printed(selected) = {}
        BY <4>1 DEF Printed
      <4> QED  BY <4>2, SumFirst, FS_EmptySet DEF PrintedTokens, Cost, SumFunction
    <3> QED  BY <3>1, <3>2 DEF SelectionTypes, PackInit
  <2>2. profile \in Profile
    BY CreditConstants DEF CreditConstants, PackInit
  <2>3. NoLane \in LaneState
    BY DEF NoLane, LaneState
  <2> QED  BY <2>1, <2>2, <2>3, NumbersAre
           DEF PackTypes, PackInit, NoWave, IsWave, InTurn
<1>2. PackTypes /\ [PackNext]_packVars => PackTypes'
  <2> SUFFICES ASSUME PackTypes, [PackNext]_packVars PROVE PackTypes'
    OBVIOUS
  <2>1. CASE PackNext
    BY <2>1, CoverTypes, EndCoverageTypes, WaveStartTypes, PopRefusedTypes,
       PopUpgradeTypes, EndTurnTypes, EndReserveTypes, ReserveSpanTypes, StartLanesTypes,
       LaneRestTypes, LaneBuysTypes DEF PackNext, Walk, Lanes
  <2>2. CASE UNCHANGED packVars
    <3>1. UNCHANGED <<profile, bundles, phase, heap, selected, used, ceiling, wave,
                      upgrades, turn, lane, covered>>
      BY <2>2 DEF packVars, coverVars, waveVars, rankVars
    <3>2. SelectionTypes'
      BY <3>1, SelectionStays DEF PackTypes
    <3> QED  BY <3>1, <3>2 DEF PackTypes, IsWave, InTurn
  <2> QED  BY <2>1, <2>2
<1> QED  BY <1>1, <1>2, PTL DEF PackSpec

\* "The ground truth used must track" (context_builder.py:2721).
THEOREM TokensUsedArePrinted == PackSpec => []UsedIsPrinted
<1>1. PackTypes => UsedIsPrinted
  BY DEF PackTypes, SelectionTypes, UsedIsPrinted
<1> QED  BY <1>1, PackTypeCorrect, PTL

-----------------------------------------------------------------------------
(* What the cache of a walk remembers *)

CacheRight ==
    /\ phase = "cover" => DOMAIN cache = {}
    /\ phase = "ranks" => \A k \in DOMAIN cache : cache[k] = ceiling
    /\ phase = "walk" => /\ \A k \in DOMAIN cache : cache[k] = wave.limit
                         /\ wave.name # "capped" => wave.limit = ceiling

\* A walk asks under its own limit.
LEMMA StartWaveCache ==
    ASSUME NEW w, NEW c, StartWave(w, c), \A k \in DOMAIN c : c[k] = w.limit,
           w.name # "capped" => w.limit = ceiling, ceiling' = ceiling
    PROVE  CacheRight'
<1>1. /\ phase' = "walk" /\ wave' = w
      /\ cache' = Remembered(UNION {Asked(selected[i], w, c) : i \in w.entries}, w, c)
  BY DEF StartWave
<1> DEFINE keys == UNION {Asked(selected[i], w, c) : i \in w.entries}
<1> HIDE DEF keys
<1>2. \A k \in DOMAIN cache' : cache'[k] = w.limit
  BY <1>1 DEF Remembered, keys
<1> QED  BY <1>1, <1>2 DEF CacheRight

\* Every step keeps what the cache remembers right.
LEMMA RememberStep ==
    ASSUME PackTypes, CacheRight, [PackNext]_packVars
    PROVE  CacheRight'
<1>1. CASE Cover
  <2>1. phase = "cover" /\ UNCHANGED <<phase, cache>>
    BY <1>1 DEF Cover, Requeue, Thin, TooDear, Buy, Covering, AfterCoverage, waveVars
  <2> QED  BY <2>1 DEF CacheRight
<1>2. CASE EndCoverage
  <2>1. phase = "cover" /\ phase' \in {"waves", "ranks", "reserve"} /\ cache' = cache
    BY <1>2 DEF EndCoverage, waveVars
  <2> QED  BY <2>1 DEF CacheRight
<1>3. CASE StartCapped
  <2> DEFINE w == Wave("capped", LeaderLimit, DOMAIN selected, ceiling)
  <2>1. StartWave(w, <<>>) /\ ceiling' = ceiling
    BY <1>3 DEF StartCapped
  <2>2. w.name = "capped"
    BY WaveIs
  <2>3. \A k \in DOMAIN <<>> : <<>>[k] = w.limit
    OBVIOUS
  <2> HIDE DEF w
  <2> QED  BY <2>1, <2>2, <2>3, StartWaveCache
<1>4. CASE EndWave
  <2> DEFINE w1 == Wave("leaders", ceiling, LeaderEntries, ceiling)
             w2 == Wave("tail", ceiling, DOMAIN selected, ceiling)
  <2>1. w1.limit = ceiling /\ w2.limit = ceiling
    BY WaveIs
  <2>2. \/ phase' = "packed" /\ UNCHANGED waveVars
        \/ StartWave(w1, <<>>)
        \/ StartWave(w2, <<>>)
        \/ wave.name # "capped" /\ StartWave(w2, cache)
    BY <1>4 DEF EndWave, RelaxedCache
  <2>3. phase = "walk" /\ ceiling' = ceiling
    BY <1>4 DEF EndWave
  <2>4. wave.name # "capped" => \A k \in DOMAIN cache : cache[k] = w2.limit
    BY <2>1, <2>3 DEF CacheRight
  <2>5. \A k \in DOMAIN <<>> : <<>>[k] = w1.limit /\ <<>>[k] = w2.limit
    OBVIOUS
  <2> HIDE DEF w1, w2
  <2>6. CASE StartWave(w1, <<>>)
    BY <2>1, <2>3, <2>5, <2>6, StartWaveCache
  <2>7. CASE StartWave(w2, <<>>)
    BY <2>1, <2>3, <2>5, <2>7, StartWaveCache
  <2>8. CASE wave.name # "capped" /\ StartWave(w2, cache)
    BY <2>1, <2>3, <2>4, <2>8, StartWaveCache
  <2>9. CASE phase' = "packed"
    BY <2>9 DEF CacheRight
  <2> QED  BY <2>2, <2>6, <2>7, <2>8, <2>9
<1>5. CASE StartTurn
  <2> DEFINE w == [name |-> "rank", limit |-> ceiling, ceiling |-> TurnCeiling,
                   entries |-> {i \in DOMAIN selected : selected[i].row = RowAt(turn)},
                   bypass |-> TurnBypass, free |-> TRUE]
  <2>1. phase = "ranks" /\ ceiling' = ceiling
        /\ (phase' = "packed" \/ StartWave(w, cache))
    BY <1>5 DEF StartTurn
  <2>2. w.limit = ceiling
    OBVIOUS
  <2>3. \A k \in DOMAIN cache : cache[k] = w.limit
    BY <2>1 DEF CacheRight
  <2> HIDE DEF w
  <2>4. CASE StartWave(w, cache)
    BY <2>1, <2>2, <2>3, <2>4, StartWaveCache
  <2>5. CASE phase' = "packed"
    BY <2>5 DEF CacheRight
  <2> QED  BY <2>1, <2>4, <2>5
<1>6. CASE EndTurn
  <2>1. /\ phase = "walk" /\ wave.name = "rank" /\ phase' \in {"packed", "ranks"}
        /\ UNCHANGED <<cache, ceiling>>
    BY <1>6 DEF EndTurn, waveVars
  <2> QED  BY <2>1 DEF CacheRight
<1>7. ASSUME NEW o \in upgrades, PopRefused(o) PROVE CacheRight'
  <2>1. UNCHANGED <<phase, wave, cache, ceiling>>
    BY <1>7 DEF PopRefused
  <2> QED  BY <2>1 DEF CacheRight
<1>8. ASSUME NEW o \in upgrades, PopUpgrade(o) PROVE CacheRight'
  <2>1. /\ phase = "walk" /\ UNCHANGED <<phase, ceiling>>
        /\ \E b : wave' = [wave EXCEPT !.bypass = b]
        /\ cache' = Remembered(Asked(selected'[o.entry], wave, cache), wave, cache)
    BY <1>8 DEF PopUpgrade
  <2>2. wave'.limit = wave.limit /\ wave'.name = wave.name
    BY <2>1 DEF PackTypes, IsWave
  <2> DEFINE keys == Asked(selected'[o.entry], wave, cache)
  <2> HIDE DEF keys
  <2>3. \A k \in DOMAIN cache' : cache'[k] = wave.limit
    BY <2>1 DEF Remembered, CacheRight, keys
  <2> QED  BY <2>1, <2>2, <2>3 DEF CacheRight
<1>9. CASE Lanes
  <2>1. phase' \notin {"cover", "ranks", "walk"}
    BY <1>9 DEF Lanes, EndReserve, ReserveSpan, StartLanes, SkipLane, LeaveLanes,
              LaneRefused, LaneBuys, NoSpan, InLane, FinishLane
  <2> QED  BY <2>1 DEF CacheRight
<1>10. CASE UNCHANGED packVars
  BY <1>10 DEF packVars, waveVars, CacheRight
<1> QED  BY <1>1, <1>2, <1>3, <1>4, <1>5, <1>6, <1>7, <1>8, <1>9, <1>10
         DEF PackNext, Walk

\* Waves of different limits do not see each other's renders.
THEOREM RendersRememberedFitTheLimit == PackSpec => []RemembersForThisLimit
<1>1. PackInit => CacheRight
  BY DEF PackInit, CacheRight
<1>2. PackTypes /\ CacheRight /\ [PackNext]_packVars => CacheRight'
  BY RememberStep
<1>3. CacheRight => RemembersForThisLimit
  BY DEF CacheRight, RemembersForThisLimit
<1> QED  BY <1>1, <1>2, <1>3, PackTypeCorrect, PTL DEF PackSpec

-----------------------------------------------------------------------------
(* The steps of a walk *)

\* The rungs the entries may still climb.
StepsLeft ==
    {s \in (1 .. Len(selected)) \X (1 .. 7) :
        \E o \in upgrades : o.entry = s[1] /\ RungOf(Rungs, o.render.mode) <= s[2]}

StepsBounded ==
    phase = "walk" =>
        /\ steps \in Nat
        /\ \A o \in upgrades :
              /\ RungOf(Rungs, o.render.mode) \in 1 .. 7
              /\ \A p \in upgrades : p.entry = o.entry => p = o
        /\ steps + Cardinality(StepsLeft) <= 7 * Len(selected)

\* There are at most seven steps per entry.
LEMMA PairsAre ==
    ASSUME NEW n \in Nat, NEW S, S \subseteq (1 .. n) \X (1 .. 7)
    PROVE  IsFiniteSet(S) /\ Cardinality(S) \in Nat /\ Cardinality(S) <= 7 * n
<1>1. IsFiniteSet(1 .. n) /\ Cardinality(1 .. n) = n
  BY FS_Interval
<1>2. IsFiniteSet(1 .. 7) /\ Cardinality(1 .. 7) = 7
  <2>1. 1 \in Int /\ 7 \in Int /\ ~(1 > 7) /\ (7 - 1) + 1 = 7
    OBVIOUS
  <2> QED  BY <2>1, FS_Interval
<1>3. /\ IsFiniteSet((1 .. n) \X (1 .. 7))
      /\ Cardinality((1 .. n) \X (1 .. 7)) = n * 7
  BY <1>1, <1>2, FS_Product
<1>4. IsFiniteSet(S) /\ Cardinality(S) <= n * 7
  BY <1>3, FS_Subset
<1>5. Cardinality(S) \in Nat
  BY <1>4, FS_CardinalityType
<1> QED  BY <1>4, <1>5

\* The rung offered is above the one the entry is at.
LEMMA OfferRung ==
    ASSUME profile \in Profile, bundles = Pool,
           NEW i, NEW e, e.row \in DOMAIN Pool, NEW w, NEW c, NEW o \in Offer(i, e, w, c)
    PROVE  /\ o.entry = i /\ RungOf(Rungs, o.render.mode) \in 1 .. 7
           /\ RungOf(Rungs, o.render.mode) > RungOf(Rungs, e.mode)
           /\ \A p \in Offer(i, e, w, c) : p = o
<1>1. PICK n \in 1 .. 7 : DOMAIN Rungs = 1 .. n /\ Len(Rungs) = n
  BY RungsAre
<1>2. RungOf(Rungs, e.mode) \in 0 .. n
  BY <1>1, RungIs
<1>3. RungOf(Rungs, o.render.mode) \in (RungOf(Rungs, e.mode) + 1) .. n
  BY <1>1, OfferIs DEF Above
<1> QED  BY <1>2, <1>3, OfferIs

\* A walk starts with no step taken and at most seven per entry left.
LEMMA StartWaveSteps ==
    ASSUME PackTypes, PackTypes', NEW w, NEW c, StartWave(w, c),
           w.entries \subseteq DOMAIN selected, profile' = profile, selected' = selected
    PROVE  StepsBounded'
<1>1. /\ phase' = "walk" /\ steps' = 0
      /\ upgrades' = UNION {Offer(i, selected[i], w, c) : i \in w.entries}
  BY DEF StartWave
<1>2. Rungs' = Rungs
  BY DEF Rungs
<1>3. ASSUME NEW o \in upgrades'
      PROVE  /\ RungOf(Rungs, o.render.mode) \in 1 .. 7
             /\ o.entry \in w.entries /\ o \in Offer(o.entry, selected[o.entry], w, c)
             /\ \A p \in Offer(o.entry, selected[o.entry], w, c) : p = o
  <2>1. PICK i \in w.entries : o \in Offer(i, selected[i], w, c)
    BY <1>1
  <2>2. selected[i].row \in DOMAIN Pool
    BY EntryIs DEF PackTypes
  <2> QED  BY <2>1, <2>2, OfferRung DEF PackTypes
<1>4. \A o, p \in upgrades' : p.entry = o.entry => p = o
  BY <1>3
<1>5. Cardinality(StepsLeft') <= 7 * Len(selected') /\ Cardinality(StepsLeft') \in Nat
  <2>1. Len(selected') \in Nat /\ DOMAIN selected' = 1 .. Len(selected')
    BY LenProperties DEF PackTypes, SelectionTypes
  <2>2. StepsLeft' \subseteq (1 .. Len(selected')) \X (1 .. 7)
    BY Zenon DEF StepsLeft
  <2> QED  BY <2>1, <2>2, PairsAre
<1> QED  BY <1>1, <1>2, <1>3, <1>4, <1>5 DEF StepsBounded, RungOf

\* A pop takes a step that is not left afterwards.
LEMMA PopSteps ==
    ASSUME PackTypes, StepsBounded, SameRows, NEW o \in upgrades, NEW R,
           phase = "walk", phase' = "walk", steps' = steps + 1, profile' = profile,
           upgrades' = (upgrades \ {o}) \cup R,
           \A p \in R : /\ p.entry = o.entry /\ RungOf(Rungs, p.render.mode) \in 1 .. 7
                       /\ RungOf(Rungs, p.render.mode) > RungOf(Rungs, o.render.mode)
                       /\ \A q \in R : q = p
    PROVE  StepsBounded'
<1> DEFINE rung(p) == RungOf(Rungs, p.render.mode)
           n == Len(selected)
           x == <<o.entry, rung(o)>>
<1>1. n \in Nat /\ DOMAIN selected = 1 .. n
  BY LenProperties DEF PackTypes, SelectionTypes
<1>2. /\ steps \in Nat /\ steps + Cardinality(StepsLeft) <= 7 * n
      /\ \A p \in upgrades : rung(p) \in 1 .. 7 /\ \A q \in upgrades : q.entry = p.entry => q = p
      /\ \A p \in upgrades : p.entry \in DOMAIN selected
  BY DEF StepsBounded, PackTypes
<1>3. Rungs' = Rungs
  BY DEF Rungs
<1>4. DOMAIN selected' = DOMAIN selected /\ Len(selected') = n
  BY DEF SameRows
<1>5. \A s : s \in StepsLeft' <=>
                /\ s \in (1 .. n) \X (1 .. 7)
                /\ \E p \in upgrades' : p.entry = s[1] /\ rung(p) <= s[2]
  BY <1>3, <1>4 DEF StepsLeft, RungOf
<1>6. \A s : s \in StepsLeft <=>
                /\ s \in (1 .. n) \X (1 .. 7)
                /\ \E p \in upgrades : p.entry = s[1] /\ rung(p) <= s[2]
  BY DEF StepsLeft
<1>7. \A p \in R : /\ p.entry = o.entry /\ rung(p) \in 1 .. 7 /\ rung(p) > rung(o)
                  /\ \A q \in R : q = p
  OBVIOUS
<1>12. (\A p \in upgrades' :
              /\ RungOf(Rungs', p.render.mode) \in 1 .. 7
              /\ \A q \in upgrades' : q.entry = p.entry => q = p)
  <2>1. \A p \in upgrades' : rung(p) \in 1 .. 7
    BY <1>2, <1>7
  <2>2. \A p, q \in upgrades' : q.entry = p.entry => q = p
    BY <1>2, <1>7
  <2> QED  BY <1>3, <2>1, <2>2
<1> HIDE DEF rung, n
<1>8. x \in StepsLeft
  BY <1>1, <1>2, <1>6
<1>9. StepsLeft' \subseteq StepsLeft \ {x}
  <2> SUFFICES ASSUME NEW s \in StepsLeft' PROVE s \in StepsLeft /\ s # x
    OBVIOUS
  <2>1. PICK p \in upgrades' : p.entry = s[1] /\ rung(p) <= s[2]
    BY <1>5
  <2>2. s \in (1 .. n) \X (1 .. 7)
    BY <1>5
  <2>5. s[2] \in 1 .. 7
    BY <2>2
  <2>3. CASE p \in upgrades
    <3>1. s \in StepsLeft
      BY <1>6, <2>1, <2>2, <2>3
    <3>2. CASE p # o
      BY <1>2, <2>1, <2>3, <3>1, <3>2
    <3>3. CASE p = o
      <4>1. o \in R
        BY <2>1, <3>3
      <4> QED  BY <1>2, <1>7, <4>1
    <3> QED  BY <3>2, <3>3
  <2>4. CASE p \in R
    <3>1. p.entry = o.entry /\ rung(p) > rung(o) /\ rung(p) \in Int /\ rung(o) \in Int
      BY <1>2, <1>7, <2>4
    <3>2. rung(o) < s[2] /\ o.entry = s[1]
      BY <2>1, <2>5, <3>1
    <3>3. s \in StepsLeft
      BY <1>6, <2>2, <3>1, <3>2
    <3> QED  BY <3>1, <3>2, <3>3
  <2> QED  BY <2>1, <2>3, <2>4
<1>10. IsFiniteSet(StepsLeft) /\ Cardinality(StepsLeft) \in Nat
  <2>1. StepsLeft \subseteq (1 .. n) \X (1 .. 7)
    BY <1>1, <1>6
  <2> QED  BY <1>1, <2>1, PairsAre
<1>11. Cardinality(StepsLeft') <= Cardinality(StepsLeft) - 1
       /\ Cardinality(StepsLeft') \in Nat
  <2> DEFINE S == StepsLeft
             T == StepsLeft'
  <2> HIDE DEF x, S, T
  <2>1. IsFiniteSet(S) /\ x \in S /\ T \subseteq S \ {x} /\ Cardinality(S) \in Nat
    BY <1>8, <1>9, <1>10 DEF S, T
  <2>2. IsFiniteSet(S \ {x}) /\ Cardinality(S \ {x}) = Cardinality(S) - 1
    BY <2>1, OneLess
  <2>3. IsFiniteSet(T) /\ Cardinality(T) <= Cardinality(S \ {x})
    BY <2>1, <2>2, FS_Subset
  <2>4. Cardinality(T) \in Nat
    BY <2>3, FS_CardinalityType
  <2> QED  BY <2>1, <2>2, <2>3, <2>4 DEF S, T
<1>13. steps' \in Nat /\ steps' + Cardinality(StepsLeft') <= 7 * Len(selected')
  BY <1>1, <1>2, <1>4, <1>10, <1>11
<1> QED  BY <1>12, <1>13 DEF StepsBounded, RungOf

\* Every step keeps the steps of a walk bounded.
LEMMA WalkStep ==
    ASSUME PackTypes, PackTypes', StepsBounded, [PackNext]_packVars
    PROVE  StepsBounded'
<1>1. CASE Cover \/ EndCoverage \/ EndTurn \/ Lanes
  <2>1. phase' # "walk"
    BY <1>1 DEF Cover, Requeue, Thin, TooDear, Buy, Covering, EndCoverage, EndTurn, Lanes,
              EndReserve, ReserveSpan, StartLanes, SkipLane, LeaveLanes, LaneRefused,
              LaneBuys, NoSpan, InLane, FinishLane
  <2> QED  BY <2>1 DEF StepsBounded
<1>2. CASE StartCapped
  <2> DEFINE w == Wave("capped", LeaderLimit, DOMAIN selected, ceiling)
  <2>1. StartWave(w, <<>>) /\ UNCHANGED <<profile, selected>>
    BY <1>2 DEF StartCapped, request
  <2>2. w.entries = DOMAIN selected
    BY WaveIs
  <2> HIDE DEF w
  <2> QED  BY <2>1, <2>2, StartWaveSteps
<1>3. CASE EndWave
  <2> DEFINE w1 == Wave("leaders", ceiling, LeaderEntries, ceiling)
             w2 == Wave("tail", ceiling, DOMAIN selected, ceiling)
  <2>1. /\ UNCHANGED <<profile, selected>>
        /\ \/ phase' = "packed"
           \/ StartWave(w1, RelaxedCache)
           \/ \E c : StartWave(w2, c)
    BY <1>3 DEF EndWave, request
  <2>2. w1.entries \subseteq DOMAIN selected /\ w2.entries = DOMAIN selected
    BY WaveIs DEF LeaderEntries
  <2> HIDE DEF w1, w2
  <2>3. CASE phase' = "packed"
    BY <2>3 DEF StepsBounded
  <2>4. CASE StartWave(w1, RelaxedCache)
    BY <2>1, <2>2, <2>4, StartWaveSteps
  <2>5. CASE \E c : StartWave(w2, c)
    BY <2>1, <2>2, <2>5, StartWaveSteps
  <2> QED  BY <2>1, <2>3, <2>4, <2>5
<1>4. CASE StartTurn
  <2> DEFINE w == [name |-> "rank", limit |-> ceiling, ceiling |-> TurnCeiling,
                   entries |-> {i \in DOMAIN selected : selected[i].row = RowAt(turn)},
                   bypass |-> TurnBypass, free |-> TRUE]
  <2>1. UNCHANGED <<profile, selected>> /\ (phase' = "packed" \/ StartWave(w, cache))
    BY <1>4 DEF StartTurn, request
  <2>2. w.entries \subseteq DOMAIN selected
    OBVIOUS
  <2> HIDE DEF w
  <2>3. CASE phase' = "packed"
    BY <2>3 DEF StepsBounded
  <2>4. CASE StartWave(w, cache)
    BY <2>1, <2>2, <2>4, StartWaveSteps
  <2> QED  BY <2>1, <2>3, <2>4
<1>5. ASSUME NEW o \in upgrades, PopRefused(o) PROVE StepsBounded'
  <2>1. /\ phase = "walk" /\ phase' = "walk" /\ steps' = steps + 1 /\ profile' = profile
        /\ upgrades' = upgrades \ {o}
    BY <1>5 DEF PopRefused, request
  <2>2. SameRows
    BY <1>5, PopRefusedTypes
  <2> DEFINE R == {}
  <2>3. upgrades' = (upgrades \ {o}) \cup R /\ \A p : p \notin R
    BY <2>1
  <2> HIDE DEF R
  <2> QED  BY <2>1, <2>2, <2>3, PopSteps
<1>6. ASSUME NEW o \in upgrades, PopUpgrade(o) PROVE StepsBounded'
  <2> DEFINE R == Offer(o.entry, selected'[o.entry], wave, cache)
  <2>1. /\ phase = "walk" /\ phase' = "walk" /\ steps' = steps + 1 /\ profile' = profile
        /\ upgrades' = (upgrades \ {o}) \cup R
    BY <1>6 DEF PopUpgrade, request
  <2>2. SameRows /\ selected'[o.entry] = Bought(selected[o.entry].row, o.render)
    BY <1>6, PopUpgradeTypes
  <2>3. o.entry \in DOMAIN selected
    BY <2>1 DEF PackTypes
  <2>4. selected'[o.entry].row \in DOMAIN Pool /\ selected'[o.entry].mode = o.render.mode
    BY <2>2, <2>3, EntryIs DEF Bought, PackTypes
  <2>5. \A p \in R : /\ p.entry = o.entry /\ RungOf(Rungs, p.render.mode) \in 1 .. 7
                     /\ RungOf(Rungs, p.render.mode) > RungOf(Rungs, o.render.mode)
                     /\ \A q \in R : q = p
    BY <2>4, OfferRung DEF PackTypes
  <2> HIDE DEF R
  <2> QED  BY <2>1, <2>2, <2>5, PopSteps
<1>7. CASE UNCHANGED packVars
  <2>1. UNCHANGED <<profile, phase, steps, upgrades, selected>>
    BY <1>7 DEF packVars, waveVars
  <2>2. Rungs' = Rungs
    BY <2>1 DEF Rungs
  <2>3. StepsLeft' = StepsLeft
    BY <2>1, <2>2 DEF StepsLeft, RungOf
  <2> QED  BY <2>1, <2>2, <2>3 DEF StepsBounded, RungOf
<1> QED  BY <1>1, <1>2, <1>3, <1>4, <1>5, <1>6, <1>7 DEF PackNext, Walk

\* The bound of a walk is above what its entries can take.
LEMMA BoundIsSlack ==
    ASSUME PackTypes, StepsBounded
    PROVE  StepBoundIsSlack
<1> SUFFICES ASSUME phase = "walk", steps = MaxSteps PROVE upgrades = {}
  BY DEF StepBoundIsSlack
<1> DEFINE n == Len(selected)
           C == Cardinality(StepsLeft)
<1>1. n \in Nat /\ DOMAIN selected = 1 .. n
  BY LenProperties DEF PackTypes, SelectionTypes
<1>2. StepsLeft \subseteq (1 .. n) \X (1 .. 7)
  BY DEF StepsLeft
<1>3. IsFiniteSet(StepsLeft) /\ C \in Nat
  BY <1>1, <1>2, PairsAre
<1>4. MaxSteps >= n * 28
  <2>1. MaxSteps = Max({MinSteps, n * 7 * 4})
    BY LadderIs DEF MaxSteps
  <2>2. MinSteps \in Int /\ n * 7 * 4 \in Int /\ n * 7 * 4 = n * 28
    BY <1>1, NumbersAre
  <2> HIDE DEF n
  <2> QED  BY <2>1, <2>2, MinOfTwo
<1>5. steps + C <= 7 * n /\ steps \in Nat
  BY DEF StepsBounded
<1>6. C = 0
  <2> HIDE DEF n, C
  <2> QED  BY <1>1, <1>3, <1>4, <1>5
<1>7. StepsLeft = {}
  BY <1>3, <1>6, FS_EmptySet
<1>8. ASSUME NEW o \in upgrades PROVE FALSE
  <2>1. o.entry \in 1 .. n
    BY <1>1 DEF PackTypes
  <2>2. RungOf(Rungs, o.render.mode) \in 1 .. 7
    BY DEF StepsBounded
  <2>3. <<o.entry, RungOf(Rungs, o.render.mode)>> \in StepsLeft
    BY <2>1, <2>2 DEF StepsLeft
  <2> QED  BY <1>7, <2>3
<1> QED  BY <1>8

\* A walk is never cut short by the bound on its pops
\* (context_builder.py:3078).
THEOREM WalksEndByThemselves == PackSpec => []StepBoundIsSlack
<1>1. PackInit => StepsBounded
  BY DEF PackInit, StepsBounded
<1>2. PackTypes /\ PackTypes' /\ StepsBounded /\ [PackNext]_packVars => StepsBounded'
  BY WalkStep
<1>3. PackTypes /\ StepsBounded => StepBoundIsSlack
  BY BoundIsSlack
<1> QED  BY <1>1, <1>2, <1>3, PackTypeCorrect, PTL DEF PackSpec

-----------------------------------------------------------------------------
(* Credits *)

\* The credits of the first n entries, and what coverage and the reserve of
\* the windows add to them.
CreditsTo(n) == SumFunctionOnSet([t \in 1 .. n |-> Credit(RowAt(t))], 1 .. n)
Base == covered + (IF profile.rank = "symbols" THEN Share(ceiling, SpanShare) ELSE 0)

\* The entries whose credit may have been spent.
Spending(n) ==
    n = IF phase = "reserve" THEN 0
        ELSE IF phase = "ranks" \/ (phase = "lanes" /\ lane.at = 0) THEN turn - 1
        ELSE IF turn <= Len(selected) THEN turn ELSE Len(selected)

Ranked == RankActive(covered)

WithinCredit ==
    /\ used > Budget => Len(selected) = 1
    /\ phase # "cover" => used <= covered \/ used <= ceiling
    /\ phase # "cover" /\ Ranked =>
          /\ phase # "waves" /\ (phase = "walk" => wave.name = "rank")
          /\ phase \in {"reserve", "lanes"} => profile.rank = "symbols"
          /\ phase = "reserve" => lane.ceiling <= Base
          /\ \A n \in 0 .. Len(selected) : Spending(n) =>
                /\ used <= Base + CreditsTo(n)
                /\ phase = "walk" => wave.ceiling <= Base + CreditsTo(n)
                /\ InTurn /\ phase = "lanes" => lane.ceiling <= Base + CreditsTo(n)

\* Each entry adds its credit to those before it.
LEMMA CreditsAre ==
    ASSUME PackTypes
    PROVE  /\ \A n \in 0 .. Len(selected) : CreditsTo(n) \in Nat
           /\ CreditsTo(0) = 0
           /\ \A n \in 1 .. Len(selected) :
                 CreditsTo(n) = CreditsTo(n - 1) + Credit(RowAt(n))
<1> DEFINE f(n) == [t \in 1 .. n |-> Credit(RowAt(t))]
<1>1. Len(selected) \in Nat
  BY LenProperties DEF PackTypes, SelectionTypes
<1>2. ASSUME NEW t \in 1 .. Len(selected)
      PROVE  Credit(RowAt(t)) \in Nat
  <2>1. RowAt(t) \in DOMAIN Pool
    BY RowAtIs DEF PackTypes
  <2> QED  BY <2>1, CreditIsNat DEF PackTypes
<1>3. ASSUME NEW n \in 0 .. Len(selected)
      PROVE  CreditsTo(n) \in Nat
  <2>1. IsFiniteSet(1 .. n)
    BY <1>1, FS_Interval
  <2>2. \A t \in 1 .. n : f(n)[t] \in Int /\ f(n)[t] >= 0
    BY <1>1, <1>2
  <2> HIDE DEF f
  <2>3. SumFunctionOnSet(f(n), 1 .. n) \in Int /\ SumFunctionOnSet(f(n), 1 .. n) >= 0
    BY <2>1, <2>2, SumType
  <2>4. CreditsTo(n) = SumFunctionOnSet(f(n), 1 .. n)
    BY DEF CreditsTo, f
  <2> QED  BY <2>3, <2>4
<1>4. CreditsTo(0) = 0
  <2>1. 1 .. 0 = {}
    OBVIOUS
  <2>2. SumFunctionOnSet(f(0), 1 .. 0) = 0
    <3> HIDE DEF f
    <3> QED  BY <2>1, SumFirst, FS_EmptySet
  <2> QED  BY <2>2 DEF CreditsTo
<1>5. ASSUME NEW n \in 1 .. Len(selected)
      PROVE  CreditsTo(n) = CreditsTo(n - 1) + Credit(RowAt(n))
  <2>1. 1 .. n = (1 .. n - 1) \cup {n} /\ (1 .. n - 1) \cap {n} = {}
    BY <1>1
  <2>2. IsFiniteSet(1 .. n - 1) /\ IsFiniteSet({n})
    <3>1. n - 1 \in Int /\ 1 \in Int
      BY <1>1
    <3>2. IsFiniteSet(1 .. n - 1)
      BY <3>1, FS_Interval
    <3> QED  BY <3>2, FS_Singleton
  <2>3. \A t \in 1 .. n - 1 : f(n)[t] = f(n - 1)[t] /\ f(n - 1)[t] \in Int
    BY <1>1, <1>2
  <2>4. \A t \in {n} : f(n)[t] = f(n)[t] /\ f(n)[t] \in Int
    BY <1>1, <1>2
  <2>5. f(n)[n] = Credit(RowAt(n))
    BY <1>1
  <2> HIDE DEF f
  <2>6. SumFunctionOnSet(f(n), (1 .. n - 1) \cup {n})
        = SumFunctionOnSet(f(n - 1), 1 .. n - 1) + SumFunctionOnSet(f(n), {n})
    BY <2>1, <2>2, <2>3, <2>4, SumUnion
  <2>7. SumFunctionOnSet(f(n), {n}) = f(n)[n]
    <3>1. (CHOOSE x \in {n} : TRUE) = n /\ {n} # {} /\ {n} \ {n} = {}
      OBVIOUS
    <3>2. SumFunctionOnSet(f(n), {n}) = f(n)[n] + SumFunctionOnSet(f(n), {})
      BY <2>2, <3>1, SumFirst
    <3>3. SumFunctionOnSet(f(n), {}) = 0
      BY SumFirst, FS_EmptySet
    <3>4. f(n)[n] \in Int
      BY <2>4
    <3> QED  BY <3>2, <3>3, <3>4
  <2>8. CreditsTo(n) = SumFunctionOnSet(f(n), 1 .. n)
        /\ CreditsTo(n - 1) = SumFunctionOnSet(f(n - 1), 1 .. n - 1)
    BY DEF CreditsTo, f
  <2> QED  BY <2>1, <2>5, <2>6, <2>7, <2>8
<1> QED  BY <1>3, <1>4, <1>5

\* Credits stay what they are while the entries stay the same bundles.
LEMMA CreditsStay ==
    ASSUME PackTypes, SameRows, ceiling' = ceiling
    PROVE  \A n \in Nat : CreditsTo(n)' = CreditsTo(n)
<1>1. {selected'[i].row : i \in DOMAIN selected'} = {selected[i].row : i \in DOMAIN selected}
  BY DEF SameRows
<1>2. \A t \in Nat : RowAt(t)' = RowAt(t)
  BY <1>1 DEF RowAt, Nth
<1>3. \A t \in Nat : Credit(RowAt(t))' = Credit(RowAt(t))
  BY <1>2 DEF Credit
<1> QED  BY <1>3 DEF CreditsTo

\* What the entries may spend is fixed once coverage has ended.
LEMMA CreditFrame ==
    ASSUME PackTypes, SameRows, UNCHANGED <<profile, ceiling, covered>>
    PROVE  /\ Base' = Base /\ Ranked' = Ranked /\ Base \in Int
           /\ \A n \in Nat : CreditsTo(n)' = CreditsTo(n)
<1>1. Share(ceiling, SpanShare) \in Nat
  BY NumbersAre, ShareIsNat DEF PackTypes
<1>2. Base \in Int
  BY <1>1 DEF Base, PackTypes
<1> QED  BY <1>2, CreditsStay DEF Base, Ranked, RankActive

\* A step of the upgrades.
LEMMA UpgradeStep ==
    ASSUME PackTypes, PackTypes', WithinCredit, SameRows,
           UNCHANGED <<profile, ceiling, covered>>, phase # "cover", phase' # "cover",
           used' = used \/ used' <= ceiling,
           Ranked =>
              /\ phase' # "waves" /\ (phase' = "walk" => wave'.name = "rank")
              /\ phase' \in {"reserve", "lanes"} => profile.rank = "symbols"
              /\ phase' = "reserve" => lane'.ceiling <= Base
              /\ \A n \in 0 .. Len(selected) : Spending(n)' =>
                    /\ used' <= Base + CreditsTo(n)
                    /\ phase' = "walk" => wave'.ceiling <= Base + CreditsTo(n)
                    /\ InTurn' /\ phase' = "lanes" => lane'.ceiling <= Base + CreditsTo(n)
    PROVE  WithinCredit'
<1>1. Base' = Base /\ Ranked' = Ranked /\ \A n \in Nat : CreditsTo(n)' = CreditsTo(n)
  BY CreditFrame
<1>2. /\ Len(selected') = Len(selected) /\ Len(selected) \in Nat
      /\ used \in Int /\ used' \in Int /\ ceiling \in Nat /\ ceiling <= Budget
      /\ Budget \in Nat
  BY LenProperties, NumbersAre DEF SameRows, PackTypes, SelectionTypes
<1>3. used' > Budget => Len(selected') = 1
  BY <1>2 DEF WithinCredit
<1>4. used' <= covered' \/ used' <= ceiling'
  BY <1>2 DEF WithinCredit
<1>5. \A n \in 0 .. Len(selected') : n \in Nat
  BY <1>2
<1>6. SUFFICES ASSUME Ranked
      PROVE /\ phase' # "waves" /\ (phase' = "walk" => wave'.name = "rank")
            /\ phase' \in {"reserve", "lanes"} => profile.rank = "symbols"
            /\ phase' = "reserve" => lane'.ceiling <= Base
            /\ \A n \in 0 .. Len(selected') : Spending(n)' =>
                  /\ used' <= Base + CreditsTo(n)'
                  /\ phase' = "walk" => wave'.ceiling <= Base + CreditsTo(n)'
                  /\ InTurn' /\ phase' = "lanes" => lane'.ceiling <= Base + CreditsTo(n)'
  BY <1>1, <1>3, <1>4 DEF WithinCredit
<1> QED  BY <1>1, <1>2, <1>5, <1>6

\* The numbers of a step.
LEMMA CreditNumbers ==
    ASSUME PackTypes
    PROVE  /\ Len(selected) \in Nat /\ used \in Int /\ ceiling \in Int /\ Base \in Int
           /\ turn \in Nat /\ lane.ceiling \in Int /\ lane.at \in Nat
           /\ phase # "cover" => turn \in 1 .. Len(selected) + 1
           /\ InTurn => turn \in 1 .. Len(selected)
           /\ \A n \in 0 .. Len(selected) : CreditsTo(n) \in Int
<1>1. /\ Len(selected) \in Nat /\ used \in Int /\ ceiling \in Int /\ turn \in Nat
      /\ lane.ceiling \in Int /\ lane.at \in Nat
  BY LenProperties DEF PackTypes, SelectionTypes, LaneState
<1>2. InTurn => turn \in 1 .. Len(selected)
  BY <1>1 DEF PackTypes, InTurn
<1>3. Share(ceiling, SpanShare) \in Nat
  BY NumbersAre, ShareIsNat DEF PackTypes
<1>4. Base \in Int
  BY <1>3 DEF Base, PackTypes
<1>5. phase # "cover" => turn \in 1 .. Len(selected) + 1
  BY DEF PackTypes
<1>6. \A n \in 0 .. Len(selected) : CreditsTo(n) \in Int
  BY CreditsAre
<1> QED  BY <1>1, <1>2, <1>4, <1>5, <1>6

\* An entry whose turn comes adds its credit.
LEMMA NextCredit ==
    ASSUME PackTypes, turn \in 1 .. Len(selected)
    PROVE  /\ CreditsTo(turn) = CreditsTo(turn - 1) + Credit(RowAt(turn))
           /\ CreditsTo(turn - 1) \in Int /\ CreditsTo(turn) \in Int
           /\ Credit(RowAt(turn)) \in Nat
           /\ CreditsTo(turn - 1) <= CreditsTo(turn)
<1>1. turn \in Nat /\ Len(selected) \in Nat /\ turn - 1 \in 0 .. Len(selected)
      /\ turn \in 0 .. Len(selected)
  BY CreditNumbers
<1>2. /\ CreditsTo(turn) = CreditsTo(turn - 1) + Credit(RowAt(turn))
      /\ CreditsTo(turn - 1) \in Int /\ CreditsTo(turn) \in Int
  BY <1>1, CreditsAre, CreditNumbers
<1>3. Credit(RowAt(turn)) \in Nat
  BY TurnIs
<1> QED  BY <1>2, <1>3

\* Coverage keeps to the budget, or buys one bundle.
LEMMA CoverCredit ==
    ASSUME PackTypes, PackTypes', WithinCredit, Cover
    PROVE  WithinCredit'
<1>1. PICK b \in DOMAIN bundles : Requeue(b) \/ Thin(b) \/ TooDear(b) \/ Buy(b)
  BY DEF Cover
<1>2. phase = "cover" /\ phase' = "cover"
  BY <1>1 DEF Requeue, Thin, TooDear, Buy, Covering
<1>3. CASE ~Buy(b)
  <2>1. UNCHANGED <<selected, used>>
    BY <1>1, <1>3 DEF Requeue, Thin, TooDear
  <2> QED  BY <1>2, <2>1 DEF WithinCredit
<1>4. CASE Buy(b)
  <2>1. Len(selected') = Len(selected) + 1
    BY <1>4, BuyKeeps DEF PackTypes
  <2>2. CASE selected = <<>>
    BY <1>2, <2>1, <2>2 DEF WithinCredit
  <2>3. CASE selected # <<>>
    <3>1. used + Price(InitialRender(b).shows) <= Budget
          /\ used' = used + Price(InitialRender(b).shows)
      BY <1>4, <2>3 DEF Buy, Affordable
    <3>2. used' <= Budget /\ used' \in Int /\ Budget \in Int
      BY <3>1, CreditNumbers, NumbersAre DEF PackTypes, SelectionTypes
    <3>3. ~(used' > Budget)
      BY <3>2
    <3> QED  BY <1>2, <3>3 DEF WithinCredit
  <2> QED  BY <2>2, <2>3
<1> QED  BY <1>3, <1>4

\* The end of coverage: nothing is spent yet of any credit.
LEMMA EndCoverageCredit ==
    ASSUME PackTypes, PackTypes', WithinCredit, EndCoverage
    PROVE  WithinCredit'
<1> DEFINE s == Share(UpgradeBudget, SpanShare)
<1>1. /\ phase' = IF ~RankActive(used) THEN "waves"
                  ELSE IF profile.rank = "ladder" THEN "ranks" ELSE "reserve"
      /\ turn' = 1 /\ ceiling' = UpgradeBudget /\ covered' = used
      /\ lane' = [NoLane EXCEPT !.ceiling = Min({UpgradeBudget, used + s})]
      /\ UNCHANGED <<profile, selected, used>>
  BY DEF EndCoverage, request
<1>2. used \in Int /\ Len(selected) \in Nat /\ UpgradeBudget \in Nat
  BY <1>1, CreditNumbers DEF PackTypes
<1>3. s \in Nat
  BY <1>2, NumbersAre, ShareIsNat
<1>4. lane'.ceiling <= used + s /\ lane'.at = 0
  <2> DEFINE x == used + s
  <2>1. x \in Int
    BY <1>2, <1>3
  <2>3. UpgradeBudget \in Int
    BY <1>2
  <2>2. Min({UpgradeBudget, x}) <= x
    <3> HIDE DEF x
    <3> QED  BY <2>1, <2>3, MinOfTwo
  <2> QED  BY <1>1, <2>2 DEF NoLane
<1>5. Ranked' => /\ phase' = IF profile.rank = "ladder" THEN "ranks" ELSE "reserve"
                 /\ profile.rank \in {"ladder", "symbols"}
  BY <1>1 DEF Ranked, RankActive, PackTypes, Profile
<1>6. Base' = used + (IF profile.rank = "symbols" THEN s ELSE 0)
  BY <1>1 DEF Base, Share
<1>7. CreditsTo(0)' = 0
  <2>1. \A f : SumFunctionOnSet(f, 1 .. 0) = 0
    <3>1. 1 .. 0 = {}
      OBVIOUS
    <3> QED  BY <3>1, SumFirst, FS_EmptySet
  <2> QED  BY <2>1 DEF CreditsTo
<1> HIDE DEF s
<1>8. ASSUME NEW n \in 0 .. Len(selected'), Spending(n)', Ranked'
      PROVE  n = 0
  BY <1>1, <1>5, <1>8 DEF Spending
<1>9. used' <= Base' /\ (profile.rank = "symbols" => lane'.ceiling <= Base')
  BY <1>1, <1>2, <1>3, <1>4, <1>6
<1>10. (used' > Budget => Len(selected') = 1) /\ used' <= covered'
  BY <1>1, <1>2 DEF WithinCredit
<1>11. ASSUME Ranked', NEW n \in 0 .. Len(selected'), Spending(n)'
       PROVE  used' <= Base' + CreditsTo(n)'
  <2>1. Base' \in Int
    BY CreditNumbers, <1>2, <1>3, <1>6
  <2> QED  BY <1>7, <1>8, <1>9, <1>11, <2>1
<1> QED  BY <1>1, <1>4, <1>5, <1>9, <1>10, <1>11 DEF WithinCredit, InTurn

\* No wave but those of the ranks runs where credits are in force.
LEMMA WavesCredit ==
    ASSUME PackTypes, PackTypes', WithinCredit, StartCapped \/ EndWave
    PROVE  WithinCredit'
<1>1. /\ UNCHANGED <<profile, selected, used, ceiling, covered>>
      /\ phase' \in {"walk", "packed"}
      /\ phase = "waves" \/ (phase = "walk" /\ wave.name # "rank")
  BY DEF StartCapped, EndWave, StartWave, request
<1>2. ~Ranked /\ SameRows
  BY <1>1 DEF WithinCredit, SameRows
<1> QED  BY <1>1, <1>2, UpgradeStep

\* An entry whose turn comes may spend its credit.
LEMMA StartTurnCredit ==
    ASSUME PackTypes, PackTypes', WithinCredit, StartTurn
    PROVE  WithinCredit'
<1>1. /\ UNCHANGED <<profile, selected, used, ceiling, covered, turn, lane>>
      /\ phase = "ranks" /\ phase' \in {"walk", "packed"}
      /\ phase' = "walk" => /\ wave'.name = "rank" /\ wave'.ceiling = TurnCeiling
                            /\ ~TurnsOver
  BY DEF StartTurn, StartWave, request, rankVars
<1>2. SameRows
  BY <1>1 DEF SameRows
<1>3. /\ used \in Int /\ Base \in Int /\ Len(selected) \in Nat
      /\ turn \in 1 .. Len(selected) + 1
  BY <1>1, CreditNumbers
<1>4. ASSUME Ranked PROVE used <= Base + CreditsTo(turn - 1)
  <2>1. turn - 1 \in 0 .. Len(selected) /\ Spending(turn - 1)
    BY <1>1, <1>3 DEF Spending
  <2> QED  BY <1>1, <1>4, <2>1 DEF WithinCredit
<1>5. ASSUME Ranked, NEW n \in 0 .. Len(selected), Spending(n)'
      PROVE  /\ used' <= Base + CreditsTo(n)
             /\ phase' = "walk" => wave'.ceiling <= Base + CreditsTo(n)
  <2>1. CASE turn = Len(selected) + 1
    <3>1. TurnsOver
      BY <1>3, <2>1 DEF TurnsOver
    <3>2. n = turn - 1
      BY <1>1, <1>2, <1>3, <1>5, <2>1 DEF Spending, SameRows
    <3> QED  BY <1>1, <1>4, <1>5, <3>1, <3>2
  <2>2. CASE turn # Len(selected) + 1
    <3>1. turn \in 1 .. Len(selected)
      BY <1>3, <2>2
    <3>2. n = turn
      BY <1>1, <1>2, <1>3, <1>5, <3>1 DEF Spending, SameRows
    <3>3. /\ CreditsTo(turn) = CreditsTo(turn - 1) + Credit(RowAt(turn))
          /\ CreditsTo(turn - 1) \in Int /\ CreditsTo(turn) \in Int
          /\ Credit(RowAt(turn)) \in Nat
      BY <3>1, NextCredit
    <3>4. TurnCeiling \in Int /\ TurnCeiling <= used + Credit(RowAt(turn))
      BY <3>1, TurnIs
    <3>5. used <= Base + CreditsTo(turn - 1)
      BY <1>4, <1>5
    <3>6. used <= Base + CreditsTo(turn) /\ TurnCeiling <= Base + CreditsTo(turn)
      <4> DEFINE c == Credit(RowAt(turn))
                 x == CreditsTo(turn - 1)
                 y == CreditsTo(turn)
      <4> HIDE DEF c, x, y
      <4>1. /\ y = x + c /\ x \in Int /\ y \in Int /\ c \in Nat
            /\ TurnCeiling \in Int /\ TurnCeiling <= used + c /\ used <= Base + x
        BY <3>3, <3>4, <3>5 DEF c, x, y
      <4>2. used <= Base + y /\ TurnCeiling <= Base + y
        BY <1>3, <4>1
      <4> QED  BY <4>2 DEF y
    <3> QED  BY <1>1, <3>2, <3>6
  <2> QED  BY <2>1, <2>2
<1> QED  BY <1>1, <1>2, <1>5, UpgradeStep

\* An entry leaves what it did not spend.
LEMMA EndTurnCredit ==
    ASSUME PackTypes, PackTypes', WithinCredit, EndTurn
    PROVE  WithinCredit'
<1>1. /\ UNCHANGED <<profile, selected, used, ceiling, covered, lane>>
      /\ phase = "walk" /\ wave.name = "rank" /\ phase' \in {"packed", "ranks"}
      /\ turn' = turn + 1
  BY DEF EndTurn, request
<1>2. SameRows
  BY <1>1 DEF SameRows
<1>3. /\ used \in Int /\ Base \in Int /\ Len(selected) \in Nat /\ turn \in 1 .. Len(selected)
  BY <1>1, CreditNumbers DEF InTurn
<1>4. ASSUME Ranked PROVE used <= Base + CreditsTo(turn)
  <2>1. turn \in 0 .. Len(selected) /\ Spending(turn)
    BY <1>1, <1>3 DEF Spending
  <2> QED  BY <1>1, <1>4, <2>1 DEF WithinCredit
<1>5. ASSUME Ranked, NEW n \in 0 .. Len(selected), Spending(n)'
      PROVE  used' <= Base + CreditsTo(n)
  <2>1. CASE n = turn
    BY <1>1, <1>4, <1>5, <2>1
  <2>2. CASE n # turn
    <3>1. n = turn + 1 /\ turn + 1 <= Len(selected)
      BY <1>1, <1>2, <1>3, <1>5, <2>2 DEF Spending, SameRows
    <3>2. turn + 1 \in 1 .. Len(selected) /\ (turn + 1) - 1 = turn
      BY <1>3, <3>1
    <3>3. RowAt(turn + 1) \in DOMAIN Pool
      BY <3>2, RowAtIs DEF PackTypes
    <3>4. Credit(RowAt(turn + 1)) \in Nat
      BY <3>3, CreditIsNat DEF PackTypes
    <3>5. CreditsTo(turn + 1) = CreditsTo((turn + 1) - 1) + Credit(RowAt(turn + 1))
      BY <3>2, CreditsAre
    <3>6. CreditsTo((turn + 1) - 1) = CreditsTo(turn)
      BY <3>2
    <3>7. CreditsTo(turn) \in Int
      BY <1>3, CreditNumbers
    <3>8. used <= Base + CreditsTo(turn)
      BY <1>4, <1>5
    <3> DEFINE c == Credit(RowAt(turn + 1))
               x == CreditsTo(turn)
               y == CreditsTo(turn + 1)
    <3> HIDE DEF c, x, y
    <3>9. used <= Base + y
      <4>1. y = x + c /\ c \in Nat /\ x \in Int /\ used <= Base + x
        BY <3>4, <3>5, <3>6, <3>7, <3>8 DEF c, x, y
      <4> QED  BY <1>3, <4>1
    <3> QED  BY <1>1, <3>1, <3>9 DEF y
  <2> QED  BY <2>1, <2>2
<1> QED  BY <1>1, <1>2, <1>5, UpgradeStep

\* A pop spends within the ceiling of its wave.
LEMMA PopsCredit ==
    ASSUME PackTypes, PackTypes', WithinCredit, NEW o \in upgrades,
           PopRefused(o) \/ PopUpgrade(o)
    PROVE  WithinCredit'
<1>1. /\ UNCHANGED <<profile, phase, ceiling, covered, turn, lane>> /\ phase = "walk"
      /\ wave' = wave \/ \E b : wave' = [wave EXCEPT !.bypass = b]
  BY DEF PopRefused, PopUpgrade, request, rankVars
<1>2. SameRows /\ (used' = used \/ used' <= wave.ceiling)
  BY PopRefusedTypes, PopUpgradeTypes DEF PopRefused
<1>3. wave'.name = wave.name /\ wave'.ceiling = wave.ceiling
  BY <1>1 DEF PackTypes, IsWave
<1>4. wave.ceiling \in Int /\ wave.ceiling <= ceiling /\ used' \in Int /\ ceiling \in Int
  BY <1>1 DEF PackTypes, SelectionTypes
<1>5. used' = used \/ used' <= ceiling
  BY <1>2, <1>4
<1>6. ASSUME Ranked, NEW n \in 0 .. Len(selected), Spending(n)'
      PROVE  /\ wave.name = "rank"
             /\ used' <= Base + CreditsTo(n) /\ wave'.ceiling <= Base + CreditsTo(n)
  <2>1. Spending(n)
    BY <1>1, <1>2, <1>6 DEF Spending, SameRows
  <2>2. wave.name = "rank" /\ used <= Base + CreditsTo(n) /\ wave.ceiling <= Base + CreditsTo(n)
    BY <1>1, <1>6, <2>1 DEF WithinCredit
  <2>3. Base + CreditsTo(n) \in Int
    BY CreditNumbers
  <2> HIDE DEF Base, CreditsTo
  <2> QED  BY <1>2, <1>3, <1>4, <2>2, <2>3
<1>7. Ranked => wave'.name = "rank"
  BY <1>1, <1>3 DEF WithinCredit
<1> QED  BY <1>1, <1>2, <1>5, <1>6, <1>7, UpgradeStep

\* The windows spend the reserve.
LEMMA ReserveCredit ==
    ASSUME PackTypes, PackTypes', WithinCredit, EndReserve \/ ReserveSpan
    PROVE  WithinCredit'
<1>1. /\ UNCHANGED <<profile, ceiling, covered>> /\ phase = "reserve"
      /\ \/ phase' = "lanes" /\ turn' = 1
         \/ phase' = "reserve"
  BY DEF EndReserve, ReserveSpan, request
<1>2. SameRows /\ (used' = used \/ used' <= lane.ceiling)
  BY EndReserveTypes, ReserveSpanTypes DEF EndReserve
<1>3. lane.at = 0 /\ lane.ceiling \in Int /\ lane.ceiling <= ceiling /\ ceiling \in Int
      /\ used' \in Int
  BY <1>1, CreditNumbers DEF PackTypes, SelectionTypes
<1>4. lane'.ceiling = lane.ceiling /\ lane'.at = 0
  <2>1. \/ lane' = lane
        \/ \E u : lane' = [lane EXCEPT !.reserved = @ \cup {u}]
    BY DEF EndReserve, ReserveSpan
  <2>2. lane \in LaneState
    BY DEF PackTypes
  <2> QED  BY <1>3, <2>1, <2>2 DEF LaneState
<1>5. used' = used \/ used' <= ceiling
  BY <1>2, <1>3
<1>6. ASSUME Ranked
      PROVE  profile.rank = "symbols" /\ lane.ceiling <= Base /\ used <= Base
  <2>1. 0 \in 0 .. Len(selected) /\ Spending(0)
    BY <1>1, CreditNumbers DEF Spending
  <2>2. used <= Base + CreditsTo(0) /\ profile.rank = "symbols" /\ lane.ceiling <= Base
    BY <1>1, <1>6, <2>1 DEF WithinCredit
  <2>3. CreditsTo(0) = 0 /\ Base \in Int
    BY CreditsAre, CreditNumbers
  <2> HIDE DEF CreditsTo, Base
  <2> QED  BY <2>2, <2>3
<1>7. ASSUME Ranked, NEW n \in 0 .. Len(selected), Spending(n)'
      PROVE  used' <= Base + CreditsTo(n)
  <2>1. n = 0
    BY <1>1, <1>4, <1>7 DEF Spending
  <2>2. CreditsTo(0) = 0 /\ Base \in Int
    BY CreditsAre, CreditNumbers
  <2> HIDE DEF CreditsTo, Base
  <2>3. used' <= Base
    BY <1>2, <1>3, <1>6, <1>7, <2>2
  <2> QED  BY <2>1, <2>2, <2>3
<1>8. ~InTurn'
  BY <1>1, <1>4 DEF InTurn
<1> QED  BY <1>1, <1>2, <1>4, <1>5, <1>6, <1>7, <1>8, UpgradeStep

\* An entry whose lanes come may spend its credit on them.
LEMMA StartLanesCredit ==
    ASSUME PackTypes, PackTypes', WithinCredit, StartLanes
    PROVE  WithinCredit'
<1>1. /\ UNCHANGED <<profile, selected, used, ceiling, covered, turn>>
      /\ phase = "lanes" /\ lane.at = 0
      /\ \/ phase' = "packed" /\ TurnsOver
         \/ /\ phase' = "lanes" /\ ~TurnsOver
            /\ lane' = [lane EXCEPT !.at = 1, !.rung = "span",
                            !.ceiling = TurnCeiling, !.bypass = TurnBypass]
  BY DEF StartLanes, OutsideLanes, spending, request
<1>2. SameRows
  BY <1>1 DEF SameRows
<1>3. /\ used \in Int /\ Base \in Int /\ Len(selected) \in Nat
      /\ turn \in 1 .. Len(selected) + 1
  BY <1>1, CreditNumbers
<1>4. ASSUME Ranked
      PROVE  used <= Base + CreditsTo(turn - 1) /\ profile.rank = "symbols"
  <2>1. turn - 1 \in 0 .. Len(selected) /\ Spending(turn - 1)
    BY <1>1, <1>3 DEF Spending
  <2> QED  BY <1>1, <1>4, <2>1 DEF WithinCredit
<1>9. phase' = "lanes" => lane'.ceiling = TurnCeiling /\ lane'.at = 1
  <2>1. lane \in LaneState
    BY DEF PackTypes
  <2> QED  BY <1>1, <2>1 DEF LaneState
<1>5. ASSUME Ranked, NEW n \in 0 .. Len(selected), Spending(n)'
      PROVE  /\ used' <= Base + CreditsTo(n)
             /\ phase' = "lanes" => lane'.ceiling <= Base + CreditsTo(n)
  <2>1. CASE turn = Len(selected) + 1
    <3>1. TurnsOver
      BY <1>3, <2>1 DEF TurnsOver
    <3>2. n = turn - 1
      BY <1>1, <1>2, <1>3, <1>5, <2>1, <3>1 DEF Spending, SameRows
    <3> QED  BY <1>1, <1>4, <1>5, <3>1, <3>2
  <2>2. CASE turn # Len(selected) + 1
    <3>1. turn \in 1 .. Len(selected)
      BY <1>3, <2>2
    <3>2. n = turn
      BY <1>1, <1>2, <1>3, <1>5, <1>9, <3>1 DEF Spending, SameRows
    <3>3. /\ CreditsTo(turn) = CreditsTo(turn - 1) + Credit(RowAt(turn))
          /\ CreditsTo(turn - 1) \in Int /\ CreditsTo(turn) \in Int
          /\ Credit(RowAt(turn)) \in Nat
      BY <3>1, NextCredit
    <3>4. TurnCeiling \in Int /\ TurnCeiling <= used + Credit(RowAt(turn))
      BY <3>1, TurnIs
    <3>5. used <= Base + CreditsTo(turn - 1)
      BY <1>4, <1>5
    <3>6. used <= Base + CreditsTo(turn) /\ TurnCeiling <= Base + CreditsTo(turn)
      <4> DEFINE c == Credit(RowAt(turn))
                 x == CreditsTo(turn - 1)
                 y == CreditsTo(turn)
      <4> HIDE DEF c, x, y
      <4>1. /\ y = x + c /\ x \in Int /\ y \in Int /\ c \in Nat
            /\ TurnCeiling \in Int /\ TurnCeiling <= used + c /\ used <= Base + x
        BY <3>3, <3>4, <3>5 DEF c, x, y
      <4>2. used <= Base + y /\ TurnCeiling <= Base + y
        BY <1>3, <4>1
      <4> QED  BY <4>2 DEF y
    <3> QED  BY <1>1, <1>9, <3>2, <3>6
  <2> QED  BY <2>1, <2>2
<1> QED  BY <1>1, <1>2, <1>4, <1>5, UpgradeStep

\* A lane spends within its ceiling.
LEMMA LanesCredit ==
    ASSUME PackTypes, PackTypes', WithinCredit,
           SkipLane \/ LeaveLanes \/ LaneRefused \/ LaneBuys \/ NoSpan
    PROVE  WithinCredit'
<1>1. /\ UNCHANGED <<profile, ceiling, covered>> /\ phase = "lanes" /\ lane.at > 0
      /\ phase' \in {"lanes", "packed"}
  BY DEF SkipLane, LeaveLanes, LaneRefused, LaneBuys, NoSpan, InLane, FinishLane,
         OutsideLanes, request
<1>2. /\ SameRows /\ (used' = used \/ used' <= lane.ceiling)
      /\ lane'.ceiling = lane.ceiling
  BY LaneRestTypes, LaneBuysTypes
<1>3. /\ used \in Int /\ Base \in Int /\ Len(selected) \in Nat /\ turn \in 1 .. Len(selected)
      /\ lane.ceiling \in Int /\ lane.ceiling <= ceiling /\ ceiling \in Int /\ used' \in Int
  BY <1>1, CreditNumbers DEF InTurn, PackTypes, SelectionTypes
<1>4. used' = used \/ used' <= ceiling
  BY <1>2, <1>3
<1>5. ASSUME Ranked
      PROVE  /\ used <= Base + CreditsTo(turn) /\ lane.ceiling <= Base + CreditsTo(turn)
             /\ profile.rank = "symbols"
  <2>1. turn \in 0 .. Len(selected) /\ Spending(turn)
    BY <1>1, <1>3 DEF Spending
  <2> QED  BY <1>1, <1>5, <2>1 DEF WithinCredit, InTurn
<1>6. \/ phase' = "lanes" /\ lane'.at = 0 /\ turn' = turn + 1
      \/ turn' = turn /\ (phase' = "lanes" => lane'.at # 0)
  <2>0. lane \in LaneState /\ lane.at \in Nat
    BY CreditNumbers DEF PackTypes
  <2>1. CASE LeaveLanes
    <3>1. turn' = turn + 1 /\ lane' = [lane EXCEPT !.at = 0] /\ phase' = phase
      BY <2>1 DEF LeaveLanes
    <3> QED  BY <1>1, <2>0, <3>1 DEF LaneState
  <2>2. CASE ~LeaveLanes
    <3>1. turn' = turn
      BY <2>2 DEF SkipLane, LaneRefused, LaneBuys, NoSpan
    <3>2. lane'.at = lane.at \/ lane'.at = lane.at + 1
      <4>1. \/ lane' = [lane EXCEPT !.at = @ + 1]
            \/ lane' = [lane EXCEPT !.at = @ + 1, !.rung = "span", !.done = @ \cup {Target}]
            \/ lane' = [lane EXCEPT !.rung = "body"]
            \/ \E b : lane' = [lane EXCEPT !.rung = "body", !.bypass = b]
            \/ \E b : lane' = [lane EXCEPT !.at = @ + 1, !.rung = "span",
                                   !.done = @ \cup {Target}, !.bypass = b]
        BY <2>2 DEF SkipLane, LaneRefused, LaneBuys, NoSpan, FinishLane
      <4> DEFINE d == lane.done \cup {Target}
                 x == lane.at + 1
      <4> HIDE DEF d, x
      <4>2. \/ lane' = [lane EXCEPT !.at = x]
            \/ lane' = [lane EXCEPT !.at = x, !.rung = "span", !.done = d]
            \/ lane' = [lane EXCEPT !.rung = "body"]
            \/ \E b : lane' = [lane EXCEPT !.rung = "body", !.bypass = b]
            \/ \E b : lane' = [lane EXCEPT !.at = x, !.rung = "span",
                                   !.done = d, !.bypass = b]
        BY <4>1 DEF d, x
      <4>3. lane'.at = lane.at \/ lane'.at = x
        BY <2>0, <4>2 DEF LaneState
      <4> QED  BY <4>3 DEF x
    <3> QED  BY <1>1, <2>0, <3>1, <3>2
  <2> QED  BY <2>1, <2>2
<1>7. ASSUME NEW n \in 0 .. Len(selected), Spending(n)'
      PROVE  n = turn
  <2>1. Len(selected') = Len(selected)
    BY <1>2 DEF SameRows
  <2>2. n = IF phase' = "reserve" THEN 0
            ELSE IF phase' = "ranks" \/ (phase' = "lanes" /\ lane'.at = 0) THEN turn' - 1
            ELSE IF turn' <= Len(selected') THEN turn' ELSE Len(selected')
    BY <1>7 DEF Spending
  <2>3. CASE phase' = "lanes" /\ lane'.at = 0 /\ turn' = turn + 1
    BY <1>3, <2>2, <2>3
  <2>4. CASE turn' = turn /\ (phase' = "lanes" => lane'.at # 0)
    BY <1>1, <1>3, <2>1, <2>2, <2>4
  <2> QED  BY <1>6, <2>3, <2>4
<1>8. ASSUME Ranked, NEW n \in 0 .. Len(selected), Spending(n)'
      PROVE  used' <= Base + CreditsTo(n) /\ lane'.ceiling <= Base + CreditsTo(n)
  <2>1. CreditsTo(turn) \in Int
    BY <1>3, CreditNumbers
  <2> DEFINE y == CreditsTo(turn)
  <2> HIDE DEF y
  <2>2. used <= Base + y /\ lane.ceiling <= Base + y /\ y \in Int
    BY <1>5, <1>8, <2>1 DEF y
  <2>3. used' <= Base + y /\ lane'.ceiling <= Base + y
    BY <1>2, <1>3, <2>2
  <2> QED  BY <1>7, <1>8, <2>3 DEF y
<1> QED  BY <1>1, <1>2, <1>4, <1>5, <1>8, UpgradeStep

\* Every step keeps within budget, ceiling and credits.
LEMMA CreditStep ==
    ASSUME PackTypes, PackTypes', WithinCredit, [PackNext]_packVars
    PROVE  WithinCredit'
<1>1. CASE PackNext
  BY <1>1, CoverCredit, EndCoverageCredit, WavesCredit, StartTurnCredit, EndTurnCredit,
     PopsCredit, ReserveCredit, StartLanesCredit, LanesCredit DEF PackNext, Walk, Lanes
<1>2. CASE UNCHANGED packVars
  <2>1. UNCHANGED <<profile, phase, selected, used, ceiling, wave, turn, lane, covered>>
    BY <1>2 DEF packVars, waveVars, rankVars
  <2>2. SameRows
    BY <2>1 DEF SameRows
  <2>3. Base' = Base /\ Ranked' = Ranked /\ \A n \in Nat : CreditsTo(n)' = CreditsTo(n)
    BY <2>1, <2>2, CreditFrame
  <2>4. \A n \in 0 .. Len(selected) : n \in Nat
    BY CreditNumbers
  <2> QED  BY <2>1, <2>3, <2>4 DEF WithinCredit, Spending, InTurn
<1> QED  BY <1>1, <1>2

\* What the invariant says of what is printed.
LEMMA CreditHolds ==
    ASSUME PackTypes, WithinCredit
    PROVE  PrintsWithinCredit
<1>1. /\ PrintedTokens(selected) = used /\ used \in Int /\ covered \in Int /\ ceiling \in Int
  BY DEF PackTypes, SelectionTypes
<1>2. phase # "cover" => used <= Max({covered, ceiling})
  <2>1. Max({covered, ceiling}) \in Int /\ Max({covered, ceiling}) >= covered
        /\ Max({covered, ceiling}) >= ceiling
    BY <1>1, MinOfTwo
  <2> HIDE DEF PrintsWithinCredit
  <2>2. phase # "cover" => used <= covered \/ used <= ceiling
    BY DEF WithinCredit
  <2> QED  BY <1>1, <2>1, <2>2
<1> DEFINE n == Len(selected)
           m == Min({turn, n})
<1>3. ASSUME phase # "cover", Ranked PROVE used <= Base + CreditsTo(m)
  <2>1. n \in Nat /\ turn \in Int /\ Base \in Int /\ turn \in 1 .. n + 1
    BY <1>3, CreditNumbers
  <2>2. m \in {turn, n} /\ m <= turn /\ m <= n
    <3> HIDE DEF n
    <3>1. turn \in Int /\ n \in Int
      BY <2>1
    <3> QED  BY <3>1, MinOfTwo
  <2> HIDE DEF m
  <2>3. m = IF turn <= n THEN turn ELSE n
    BY <2>1, <2>2
  <2>4. m \in 0 .. n /\ CreditsTo(m) \in Nat
    BY <2>1, <2>3, CreditsAre
  <2>5. phase # "waves"
    BY <1>3 DEF WithinCredit
  <2>6. CASE phase = "reserve"
    <3>1. 0 \in 0 .. n /\ Spending(0)
      BY <2>1, <2>6 DEF Spending
    <3>2. used <= Base + CreditsTo(0) /\ CreditsTo(0) = 0
      BY <1>3, <3>1, CreditsAre DEF WithinCredit
    <3> HIDE DEF n
    <3> QED  BY <1>1, <2>1, <2>4, <3>2
  <2>7. CASE phase = "ranks" \/ (phase = "lanes" /\ lane.at = 0)
    <3>1. turn - 1 \in 0 .. n /\ Spending(turn - 1)
      BY <2>1, <2>7 DEF Spending
    <3>2. used <= Base + CreditsTo(turn - 1)
      BY <1>3, <3>1 DEF WithinCredit
    <3>3. CASE turn <= n
      <4>1. turn \in 1 .. Len(selected) /\ m = turn
        BY <2>1, <2>3, <3>3
      <4>2. CreditsTo(turn - 1) <= CreditsTo(turn) /\ CreditsTo(turn - 1) \in Int
            /\ CreditsTo(turn) \in Int
        BY <4>1, NextCredit
      <4> HIDE DEF n
      <4> QED  BY <1>1, <2>1, <3>2, <4>1, <4>2
    <3>4. CASE ~(turn <= n)
      <4>1. m = turn - 1
        BY <2>1, <2>3, <3>4
      <4> QED  BY <3>2, <4>1
    <3> QED  BY <3>3, <3>4
  <2>8. CASE ~(phase = "reserve" \/ phase = "ranks" \/ (phase = "lanes" /\ lane.at = 0))
    <3>1. Spending(m)
      BY <2>3, <2>8 DEF Spending
    <3> QED  BY <1>3, <2>4, <3>1 DEF WithinCredit
  <2> QED  BY <2>6, <2>7, <2>8
<1>4. CreditsTo(m) = SumFunction([t \in 1 .. m |-> Credit(RowAt(t))])
  <2> DEFINE f == [t \in 1 .. m |-> Credit(RowAt(t))]
  <2>1. DOMAIN f = 1 .. m
    OBVIOUS
  <2>2. SumFunction(f) = SumFunctionOnSet(f, DOMAIN f)
    BY DEF SumFunction
  <2>3. CreditsTo(m) = SumFunctionOnSet(f, 1 .. m)
    BY DEF CreditsTo
  <2> HIDE DEF f
  <2>4. CreditsTo(m) = SumFunction(f)
    BY <2>1, <2>2, <2>3
  <2> QED  BY <2>4 DEF f
<1>5. used > Budget => Len(selected) = 1
  BY DEF WithinCredit
<1>6. RankActive(covered) = Ranked
  BY DEF Ranked
<1> HIDE DEF m
<1> QED  BY <1>1, <1>2, <1>3, <1>4, <1>5, <1>6 DEF PrintsWithinCredit, Base, m

\* What is printed fits the budget, the ceiling and the credits.
THEOREM PromptsFitTheirCredit == PackSpec => []PrintsWithinCredit
<1>1. PackInit => WithinCredit
  BY NumbersAre DEF PackInit, WithinCredit
<1>2. PackTypes /\ PackTypes' /\ WithinCredit /\ [PackNext]_packVars => WithinCredit'
  BY CreditStep
<1>3. PackTypes /\ WithinCredit => PrintsWithinCredit
  BY CreditHolds
<1> QED  BY <1>1, <1>2, <1>3, PackTypeCorrect, PTL DEF PackSpec

=============================================================================
