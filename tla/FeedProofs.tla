----------------------------- MODULE FeedProofs -----------------------------
(***************************************************************************)
(* No consumer misses an event, and no stream repeats one: for any number  *)
(* of consumers, types, events and drops and every limit of a page.        *)
(*                                                                         *)
(* What a consumer has saved and what is on its way to it fit together:    *)
(* between the saved cursor and the cursor of the link every event it asks *)
(* for is processed or on the wire (Covered), the wire is in order and not *)
(* beyond that cursor (Ordered), and what a read of the stream returned    *)
(* leaves nothing out (Whole).  A cursor is never beyond the feed, so that *)
(* what is published later is beyond it.                                   *)
(***************************************************************************)
EXTENDS EventFeed, FiniteSetTheorems, TLAPS

Cursors(c) ==
    /\ saved[c] <= Len(feed)
    /\ link[c].cursor <= Len(feed)
    /\ link[c].kind # "none" => saved[c] <= link[c].cursor
    /\ link[c].kind # "page" => link[c].after <= link[c].last
    /\ link[c].kind = "stream" => link[c].last = saved[c]

Complete(c) == {i \in Matching(c) : i <= saved[c]} \subseteq processed[c]

Covered(c) ==
    link[c].kind # "none" =>
        \A i \in Matching(c) : saved[c] < i /\ i <= link[c].cursor =>
            i \in processed[c] \cup Range(link[c].wire)

Ordered(c) ==
    link[c].kind = "stream" =>
        /\ Ascending(link[c].wire) /\ Ascending(link[c].batch)
        /\ \A i \in Range(link[c].wire) : saved[c] < i /\ i <= link[c].cursor
        /\ \A i \in Range(link[c].batch) : link[c].cursor < i /\ i <= Len(feed)

Whole(c) ==
    link[c].kind = "stream" =>
        \A i \in Matching(c), j \in Range(link[c].batch) :
            link[c].cursor < i /\ i <= j => i \in Range(link[c].batch)

Served(c) == Cursors(c) /\ Complete(c) /\ Covered(c) /\ Ordered(c) /\ Whole(c)

FeedInv == TypeOK /\ Len(feed) <= MaxEvents /\ \A c \in Consumers : Served(c)
-----------------------------------------------------------------------------
(* The order of a query.                                                   *)

(* Every finite set of numbers can be put in order: otherwise there is a   *)
(* least bound of a set that cannot.                                       *)
HasOrder(S) == \E s \in [1..Cardinality(S) -> S] : Ascending(s) /\ Range(s) = S

LEMMA LeastNumber ==
    ASSUME NEW T \in SUBSET Nat, T # {}
    PROVE  \E x \in T : \A y \in T : ~(y < x)
<1>1. \E x \in T : \A y \in T : ~(<<y, x>> \in OpToRel(<, Nat))
  BY WFMin, NatLessThanWellFounded
<1>. QED  BY <1>1 DEF OpToRel

LEMMA EmptyOrder == HasOrder({})
<1>1. Cardinality({}) = 0
  BY FS_EmptySet
<1>2. <<>> \in [1..0 -> {}] /\ Ascending(<<>>) /\ Range(<<>>) = {}
  BY DEF Ascending, Range
<1>. QED  BY <1>1, <1>2 DEF HasOrder

LEMMA OneMoreOrder ==
    ASSUME NEW n \in Nat, NEW S \in SUBSET (1..(n + 1)), n + 1 \in S,
           HasOrder(S \ {n + 1})
    PROVE  HasOrder(S)
<1>. DEFINE R == S \ {n + 1}
<1>1. IsFiniteSet(S) /\ IsFiniteSet(R)
  <2>1. IsFiniteSet(1..(n + 1))
    BY FS_Interval
  <2>. QED  BY <2>1, FS_Subset
<1>2. Cardinality(R) \in Nat /\ Cardinality(S) = Cardinality(R) + 1
  BY <1>1, FS_RemoveElement, FS_CardinalityType
<1>3. PICK r \in [1..Cardinality(R) -> R] : Ascending(r) /\ Range(r) = R
  BY DEF HasOrder
<1>. DEFINE k == Cardinality(R)
            s == [i \in 1..(k + 1) |-> IF i = k + 1 THEN n + 1 ELSE r[i]]
<1>. HIDE DEF k
<1>4. k \in Nat /\ r \in [1..k -> R] /\ R \subseteq S /\ R \subseteq 1..n
  <2>1. k \in Nat /\ r \in [1..k -> R] /\ R \subseteq S
    BY <1>2, <1>3 DEF k
  <2>2. ASSUME NEW x \in R PROVE x \in 1..n
    <3>1. x \in 1..(n + 1) /\ x # n + 1
      OBVIOUS
    <3>. QED  BY <3>1
  <2>. QED  BY <2>1, <2>2
<1>5. s \in [1..(k + 1) -> S]
  <2>1. ASSUME NEW i \in 1..(k + 1), i # k + 1 PROVE i \in 1..k
    BY <1>4, <2>1
  <2>. QED  BY <1>4, <2>1
<1>6. Ascending(s)
  <2>1. SUFFICES ASSUME NEW i \in 1..(k + 1), NEW j \in 1..(k + 1), i < j
                 PROVE  s[i] < s[j]
    BY DEF Ascending
  <2>2. i \in 1..k /\ s[i] = r[i] /\ r[i] \in 1..n
    <3>1. i \in 1..k /\ i # k + 1
      BY <1>4, <2>1
    <3>2. r[i] \in R
      BY <1>4, <3>1
    <3>. QED  BY <1>4, <3>1, <3>2
  <2>3. CASE j = k + 1
    BY <2>2, <2>3
  <2>4. CASE j # k + 1
    <3>1. j \in 1..k /\ s[j] = r[j]
      BY <1>4, <2>4
    <3>. QED  BY <1>3, <1>4, <2>1, <2>2, <3>1 DEF Ascending
  <2>. QED  BY <2>3, <2>4
<1>7. Range(s) = S
  <2>1. Range(s) \subseteq S
    BY <1>5 DEF Range
  <2>2. ASSUME NEW x \in S PROVE x \in Range(s)
    <3>1. CASE x = n + 1
      BY <1>4, <3>1 DEF Range
    <3>2. CASE x # n + 1
      <4>1. PICK i \in 1..k : r[i] = x
        BY <1>3, <1>4, <3>2 DEF Range
      <4>2. i \in 1..(k + 1) /\ s[i] = x
        BY <1>4, <4>1
      <4>. QED  BY <4>2 DEF Range
    <3>. QED  BY <3>1, <3>2
  <2>. QED  BY <2>1, <2>2
<1>8. Cardinality(S) = k + 1
  BY <1>2 DEF k
<1>. QED  BY <1>5, <1>6, <1>7, <1>8 DEF HasOrder

LEMMA OrderExists ==
    ASSUME NEW n \in Nat, NEW S \in SUBSET (1..n)
    PROVE  HasOrder(S)
<1>. DEFINE T == {m \in Nat : \E R \in SUBSET (1..m) : ~HasOrder(R)}
<1>1. SUFFICES ASSUME T # {} PROVE FALSE
  BY <1>1
<1>2. PICK m \in T : \A y \in T : ~(y < m)
  BY <1>1, LeastNumber
<1>3. PICK R \in SUBSET (1..m) : ~HasOrder(R)
  BY <1>2
<1>4. m # 0
  <2>1. m = 0 => R = {}
    BY <1>3
  <2>. QED  BY <1>3, <2>1, EmptyOrder
<1>5. m - 1 \in Nat /\ m - 1 \notin T /\ m = (m - 1) + 1
  BY <1>2, <1>4
<1>6. CASE m \in R
  <2>1. R \ {m} \in SUBSET (1..(m - 1))
    BY <1>3, <1>5
  <2>2. HasOrder(R \ {m})
    BY <1>5, <2>1
  <2>. QED  BY <1>3, <1>5, <1>6, <2>2, OneMoreOrder
<1>7. CASE m \notin R
  <2>1. R \in SUBSET (1..(m - 1))
    BY <1>3, <1>5, <1>7
  <2>. QED  BY <1>3, <1>5, <2>1
<1>. QED  BY <1>6, <1>7

(* What InOrder returns.                                                   *)
LEMMA InOrderOrders ==
    ASSUME NEW n \in Nat, NEW S \in SUBSET (1..n)
    PROVE  /\ InOrder(S) \in [1..Cardinality(S) -> S] /\ Cardinality(S) \in Nat
           /\ Ascending(InOrder(S)) /\ Range(InOrder(S)) = S
<1>1. HasOrder(S)
  BY OrderExists
<1>2. Cardinality(S) \in Nat
  <2>1. IsFiniteSet(1..n)
    BY FS_Interval
  <2>. QED  BY <2>1, FS_Subset, FS_CardinalityType
<1>. QED  BY <1>1, <1>2 DEF HasOrder, InOrder

(* The first n of a sequence.                                              *)
LEMMA FirstOfSeq ==
    ASSUME NEW T, NEW s \in Seq(T), NEW n \in Nat
    PROVE  /\ FirstOf(s, n) \in Seq(T)
           /\ Len(FirstOf(s, n)) = IF Len(s) < n THEN Len(s) ELSE n
           /\ \A k \in 1..Len(FirstOf(s, n)) : k \in 1..Len(s) /\ FirstOf(s, n)[k] = s[k]
<1>. DEFINE m == IF Len(s) < n THEN Len(s) ELSE n
<1>1. m \in Nat /\ m <= Len(s)
  OBVIOUS
<1>2. FirstOf(s, n) = SubSeq(s, 1, m)
  BY DEF FirstOf
<1>3. /\ SubSeq(s, 1, m) \in Seq(T) /\ Len(SubSeq(s, 1, m)) = m
      /\ \A k \in 1..m : SubSeq(s, 1, m)[k] = s[k]
  BY <1>1
<1>. QED  BY <1>1, <1>2, <1>3

(* What a read returns: in order, and up to its last event all that the    *)
(* consumer asks for.                                                      *)
LEMMA ListedIs ==
    ASSUME feed \in Seq(Types), Len(feed) <= MaxEvents, NEW c, NEW after \in Nat
    PROVE  LET batch == Listed(c, after) IN
           /\ batch \in Seq(Seqs) /\ Ascending(batch)
           /\ \A i \in Range(batch) : after < i /\ i <= Len(feed)
           /\ \A i \in Matching(c), j \in Range(batch) :
                 after < i /\ i <= j => i \in Range(batch)
<1>. DEFINE S == {i \in Matching(c) : i > after}
            s == InOrder(S)
            batch == Listed(c, after)
<1>0. Len(feed) \in Nat /\ DOMAIN feed = 1..Len(feed)
  OBVIOUS
<1>1. S \in SUBSET (1..Len(feed)) /\ S \subseteq Seqs
  BY <1>0, FeedConstants DEF Matching, Seqs
<1>2. /\ s \in [1..Cardinality(S) -> S] /\ Cardinality(S) \in Nat
      /\ Ascending(s) /\ Range(s) = S
  BY <1>0, <1>1, InOrderOrders
<1>. HIDE DEF s
<1>3. s \in Seq(Seqs) /\ s \in Seq(S)
  <2>. DEFINE n == Cardinality(S)
  <2>1. n \in Nat /\ s \in [1..n -> S] /\ s \in [1..n -> Seqs]
    BY <1>1, <1>2
  <2>. HIDE DEF n, S
  <2>2. \A T : s \in [1..n -> T] => s \in Seq(T)
    BY <2>1
  <2>. QED  BY <2>1, <2>2
<1>4. batch = FirstOf(s, Limit) /\ Limit \in Nat
  BY FeedConstants DEF Listed, s
<1>5. /\ batch \in Seq(Seqs)
      /\ \A k \in 1..Len(batch) : k \in 1..Len(s) /\ batch[k] = s[k]
      /\ Len(batch) <= Len(s) /\ Len(batch) \in Nat
      /\ Len(batch) = IF Len(s) < Limit THEN Len(s) ELSE Limit
  BY <1>3, <1>4, FirstOfSeq
<1>. HIDE DEF batch, S
<1>6. DOMAIN batch = 1..Len(batch) /\ DOMAIN s = 1..Len(s)
  BY <1>3, <1>5
<1>7. Ascending(batch)
  BY <1>2, <1>5, <1>6 DEF Ascending
<1>8. ASSUME NEW k \in DOMAIN batch PROVE after < batch[k] /\ batch[k] <= Len(feed)
  <2>1. batch[k] \in S
    BY <1>3, <1>5, <1>6
  <2>. QED  BY <1>1, <1>0, <2>1 DEF S
<1>9. ASSUME NEW i \in Matching(c), NEW k \in DOMAIN batch, after < i, i <= batch[k]
      PROVE  i \in Range(batch)
  <2>1. i \in Range(s)
    BY <1>2, <1>9 DEF S
  <2>2. PICK j \in DOMAIN s : s[j] = i
    BY <2>1 DEF Range
  <2>3. /\ k \in 1..Len(batch) /\ k \in 1..Len(s) /\ batch[k] = s[k] /\ j \in 1..Len(s)
        /\ s[j] \in Nat /\ s[k] \in Nat
    <3>1. k \in 1..Len(batch) /\ k \in 1..Len(s) /\ batch[k] = s[k] /\ j \in 1..Len(s)
      BY <1>5, <1>6, <2>2
    <3>2. s[j] \in Seqs /\ s[k] \in Seqs
      BY <1>3, <3>1
    <3>. QED  BY <3>1, <3>2 DEF Seqs
  <2>4. ~(k < j)
    BY <1>2, <1>5, <1>6, <1>9, <2>2, <2>3 DEF Ascending
  <2>5. j \in 1..Len(batch) /\ batch[j] = i
    BY <1>5, <2>2, <2>3, <2>4
  <2>. QED  BY <1>6, <2>5 DEF Range
<1>10. /\ \A i \in Range(batch) : after < i /\ i <= Len(feed)
       /\ \A i \in Matching(c), j \in Range(batch) :
             after < i /\ i <= j => i \in Range(batch)
  <2>1. \A j \in Range(batch) : \E k \in DOMAIN batch : batch[k] = j
    BY DEF Range
  <2>. QED  BY <1>8, <1>9, <2>1
<1>. QED  BY <1>5, <1>7, <1>10 DEF batch

(* The first of a sequence, and the rest of it.                            *)
LEMMA HeadAndTail ==
    ASSUME NEW T, NEW s \in Seq(T), s # <<>>
    PROVE  /\ Head(s) \in T /\ Tail(s) \in Seq(T)
           /\ Range(s) = {Head(s)} \cup Range(Tail(s))
<1>1. /\ Len(s) \in Nat \ {0} /\ Head(s) = s[1] /\ Tail(s) \in Seq(T)
      /\ Len(Tail(s)) = Len(s) - 1
      /\ DOMAIN s = 1..Len(s) /\ DOMAIN Tail(s) = 1..(Len(s) - 1)
      /\ \A k \in 1..(Len(s) - 1) : Tail(s)[k] = s[k + 1]
  OBVIOUS
<1>2. ASSUME NEW x \in Range(s) PROVE x \in {Head(s)} \cup Range(Tail(s))
  <2>1. PICK k \in 1..Len(s) : s[k] = x
    BY <1>1 DEF Range
  <2>2. CASE k = 1
    BY <1>1, <2>1, <2>2
  <2>3. CASE k # 1
    <3>1. k - 1 \in 1..(Len(s) - 1) /\ Tail(s)[k - 1] = x
      BY <1>1, <2>1, <2>3
    <3>. QED  BY <1>1, <3>1 DEF Range
  <2>. QED  BY <2>2, <2>3
<1>3. ASSUME NEW x \in {Head(s)} \cup Range(Tail(s)) PROVE x \in Range(s)
  <2>1. CASE x = Head(s)
    BY <1>1, <2>1 DEF Range
  <2>2. CASE x \in Range(Tail(s))
    <3>1. PICK k \in 1..(Len(s) - 1) : Tail(s)[k] = x
      BY <1>1, <2>2 DEF Range
    <3>2. k + 1 \in 1..Len(s) /\ s[k + 1] = x
      BY <1>1, <3>1
    <3>. QED  BY <1>1, <3>2 DEF Range
  <2>. QED  BY <2>1, <2>2
<1>4. Head(s) \in T
  BY <1>1
<1>. QED  BY <1>1, <1>2, <1>3, <1>4

LEMMA AscendingTail ==
    ASSUME NEW s \in Seq(Nat), s # <<>>, Ascending(s)
    PROVE  Ascending(Tail(s)) /\ \A i \in Range(Tail(s)) : Head(s) < i
<1>1. /\ Len(s) \in Nat \ {0} /\ Head(s) = s[1]
      /\ DOMAIN s = 1..Len(s) /\ DOMAIN Tail(s) = 1..(Len(s) - 1)
      /\ \A k \in 1..(Len(s) - 1) : Tail(s)[k] = s[k + 1] /\ k + 1 \in 1..Len(s)
  OBVIOUS
<1>2. Ascending(Tail(s))
  <2>1. SUFFICES ASSUME NEW i \in 1..(Len(s) - 1), NEW j \in 1..(Len(s) - 1), i < j
                 PROVE  s[i + 1] < s[j + 1]
    BY <1>1 DEF Ascending
  <2>2. i + 1 \in DOMAIN s /\ j + 1 \in DOMAIN s /\ i + 1 < j + 1
    BY <1>1, <2>1
  <2>. QED  BY <2>2 DEF Ascending
<1>3. ASSUME NEW x \in Range(Tail(s)) PROVE Head(s) < x
  <2>1. PICK k \in 1..(Len(s) - 1) : Tail(s)[k] = x
    BY <1>1 DEF Range
  <2>2. 1 \in DOMAIN s /\ k + 1 \in DOMAIN s /\ 1 < k + 1 /\ s[k + 1] = x
    BY <1>1, <2>1
  <2>. QED  BY <1>1, <2>2 DEF Ascending
<1>. QED  BY <1>2, <1>3

LEMMA AscendingAppend ==
    ASSUME NEW s \in Seq(Nat), Ascending(s), NEW x \in Nat, \A i \in Range(s) : i < x
    PROVE  Ascending(Append(s, x)) /\ Range(Append(s, x)) = Range(s) \cup {x}
<1>. DEFINE r == Append(s, x)
<1>1. /\ Len(s) \in Nat /\ DOMAIN s = 1..Len(s) /\ DOMAIN r = 1..(Len(s) + 1)
      /\ r[Len(s) + 1] = x
      /\ \A k \in 1..Len(s) : r[k] = s[k] /\ k \in 1..(Len(s) + 1)
  OBVIOUS
<1>2. \A k \in 1..Len(s) : s[k] \in Range(s)
  BY <1>1 DEF Range
<1>. HIDE DEF r
<1>3. Ascending(r)
  <2>1. SUFFICES ASSUME NEW i \in 1..(Len(s) + 1), NEW j \in 1..(Len(s) + 1), i < j
                 PROVE  r[i] < r[j]
    BY <1>1 DEF Ascending
  <2>2. i \in 1..Len(s) /\ r[i] = s[i]
    BY <1>1, <2>1
  <2>3. CASE j = Len(s) + 1
    BY <1>1, <1>2, <2>2, <2>3
  <2>4. CASE j # Len(s) + 1
    <3>1. j \in 1..Len(s) /\ r[j] = s[j]
      BY <1>1, <2>4
    <3>. QED  BY <1>1, <2>1, <2>2, <3>1 DEF Ascending
  <2>. QED  BY <2>3, <2>4
<1>4. Range(r) = Range(s) \cup {x}
  <2>1. \A k \in 1..(Len(s) + 1) : k \in 1..Len(s) \/ k = Len(s) + 1
    BY <1>1
  <2>2. Range(r) \subseteq Range(s) \cup {x}
    BY <1>1, <1>2, <2>1 DEF Range
  <2>3. Len(s) + 1 \in 1..(Len(s) + 1)
    BY <1>1
  <2>4. Range(s) \cup {x} \subseteq Range(r)
    BY <1>1, <2>3 DEF Range
  <2>. QED  BY <2>2, <2>4
<1>. QED  BY <1>3, <1>4 DEF r

(* A cursor, what is up to some number and what is beyond it.              *)
LEMMA AscendingJoin ==
    ASSUME NEW x \in Nat, NEW m \in Nat, x <= m,
           NEW s \in Seq(Nat), Ascending(s), \A i \in Range(s) : x < i /\ i <= m,
           NEW r \in Seq(Nat), Ascending(r), \A i \in Range(r) : m < i
    PROVE  Ascending(<<x>> \o s \o r)
<1>. DEFINE q == <<x>> \o s \o r
            n == Len(s)
<1>1. /\ n \in Nat /\ Len(r) \in Nat /\ DOMAIN s = 1..n /\ DOMAIN r = 1..Len(r)
      /\ \A k \in 1..n : s[k] \in Nat /\ s[k] \in Range(s)
      /\ \A k \in 1..Len(r) : r[k] \in Nat /\ r[k] \in Range(r)
  BY DEF Range
<1>2. /\ DOMAIN q = 1..(1 + n + Len(r))
      /\ q[1] = x
      /\ \A k \in 1..n : q[k + 1] = s[k]
      /\ \A k \in 1..Len(r) : q[k + 1 + n] = r[k]
  OBVIOUS
<1>. HIDE DEF q, n
<1>3. SUFFICES ASSUME NEW i \in DOMAIN q, NEW j \in DOMAIN q, i < j PROVE q[i] < q[j]
  BY DEF Ascending, q
<1>4. i \in Nat /\ j \in Nat /\ 1 <= i /\ 1 < j /\ j <= 1 + n + Len(r)
  BY <1>1, <1>2, <1>3
<1>5. CASE j <= 1 + n
  <2>1. j - 1 \in 1..n /\ q[j] = s[j - 1]
    BY <1>1, <1>2, <1>4, <1>5
  <2>2. CASE i = 1
    BY <1>1, <1>2, <2>1, <2>2
  <2>3. CASE i # 1
    <3>1. i - 1 \in 1..n /\ q[i] = s[i - 1] /\ i - 1 < j - 1
      BY <1>1, <1>2, <1>3, <1>4, <1>5, <2>3
    <3>. QED  BY <1>1, <2>1, <3>1 DEF Ascending
  <2>. QED  BY <2>2, <2>3
<1>6. CASE 1 + n < j
  <2>1. j - 1 - n \in 1..Len(r) /\ q[j] = r[j - 1 - n]
    BY <1>1, <1>2, <1>4, <1>6
  <2>2. m < q[j] /\ q[j] \in Nat
    BY <1>1, <2>1
  <2>3. CASE i = 1
    BY <1>2, <2>2, <2>3
  <2>4. CASE i # 1 /\ i <= 1 + n
    <3>1. i - 1 \in 1..n /\ q[i] = s[i - 1]
      BY <1>1, <1>2, <1>4, <2>4
    <3>. QED  BY <1>1, <2>2, <3>1
  <2>5. CASE 1 + n < i
    <3>1. i - 1 - n \in 1..Len(r) /\ q[i] = r[i - 1 - n] /\ i - 1 - n < j - 1 - n
      BY <1>1, <1>2, <1>3, <1>4, <2>5
    <3>. QED  BY <1>1, <2>1, <3>1 DEF Ascending
  <2>. QED  BY <1>1, <1>4, <2>3, <2>4, <2>5
<1>. QED  BY <1>1, <1>4, <1>5, <1>6

LEMMA EmptyRange == Range(<<>>) = {} /\ Ascending(<<>>)
BY DEF Range, Ascending
-----------------------------------------------------------------------------
(* One consumer's part of the state.                                       *)
LEMMA Numbers ==
    ASSUME NEW s \in Seq(Seqs)
    PROVE  s \in Seq(Nat) /\ Range(s) \subseteq Seqs /\ Seqs \subseteq Nat
<1>1. Seqs \subseteq Nat
  BY FeedConstants DEF Seqs
<1>2. Len(s) \in Nat /\ DOMAIN s = 1..Len(s) /\ \A k \in 1..Len(s) : s[k] \in Seqs
  OBVIOUS
<1>3. s \in Seq(Nat)
  <2>. HIDE DEF Seqs
  <2>1. s = [k \in 1..Len(s) |-> s[k]]
    OBVIOUS
  <2>2. [k \in 1..Len(s) |-> s[k]] \in [1..Len(s) -> Nat]
    BY <1>1, <1>2
  <2>3. s \in [1..Len(s) -> Nat]
    BY <2>1, <2>2
  <2>. QED  BY <1>2, <2>3
<1>. QED  BY <1>1, <1>2, <1>3 DEF Range

LEMMA LinkOf ==
    ASSUME TypeOK, NEW c \in Consumers
    PROVE  /\ link[c] \in Links /\ link[c].kind \in {"none", "page", "stream"}
           /\ link[c].after \in Nat /\ link[c].last \in Nat /\ link[c].cursor \in Nat
           /\ link[c].wire \in Seq(Seqs) /\ link[c].batch \in Seq(Seqs)
           /\ saved[c] \in 0..MaxEvents /\ saved[c] \in Nat /\ processed[c] \subseteq Seqs
           /\ Len(feed) \in Nat
<1>1. /\ link[c] \in Links /\ saved[c] \in 0..MaxEvents /\ processed[c] \subseteq Seqs
      /\ Len(feed) \in Nat
  BY DEF TypeOK
<1>2. /\ link[c].kind \in {"none", "page", "stream"}
      /\ link[c].after \in 0..MaxEvents /\ link[c].last \in 0..MaxEvents
      /\ link[c].cursor \in 0..MaxEvents
      /\ link[c].wire \in Seq(Seqs) /\ link[c].batch \in Seq(Seqs)
  BY <1>1 DEF Links
<1>. QED  BY <1>1, <1>2, FeedConstants

(* A step that leaves a consumer and the feed alone.                       *)
LEMMA OthersServed ==
    ASSUME NEW c, Served(c), feed' = feed, wanted'[c] = wanted[c], saved'[c] = saved[c],
           processed'[c] = processed[c], link'[c] = link[c]
    PROVE  Served(c)'
<1>1. Matching(c)' = Matching(c)
  BY DEF Matching
<1>. QED  BY <1>1 DEF Served, Cursors, Complete, Covered, Ordered, Whole

LEMMA NoLinkOK == NoLink \in Links
<1>1. <<>> \in Seq(Seqs) /\ 0 \in 0..MaxEvents
  BY FeedConstants
<1>. QED  BY <1>1 DEF NoLink, Links

LEMMA FeedInitial == Init => FeedInv
<1>. SUFFICES ASSUME Init PROVE FeedInv
  OBVIOUS
<1>1. TypeOK
  BY NoLinkOK, FeedConstants DEF Init, TypeOK
<1>2. Len(feed) = 0 /\ DOMAIN feed = {}
  BY DEF Init
<1>3. ASSUME NEW c \in Consumers PROVE Served(c)
  <2>1. saved[c] = 0 /\ link[c] = NoLink /\ Matching(c) = {}
    BY <1>2 DEF Init, Matching
  <2>2. link[c].kind = "none" /\ link[c].cursor = 0 /\ link[c].after = 0 /\ link[c].last = 0
    BY <2>1 DEF NoLink
  <2>. QED  BY <1>2, <2>1, <2>2 DEF Served, Cursors, Complete, Covered, Ordered, Whole
<1>. QED  BY <1>1, <1>2, <1>3, FeedConstants DEF FeedInv

(* What is published is beyond every cursor.                               *)
LEMMA PublishSafe ==
    ASSUME FeedInv, NEW t \in Types, Publish(t) PROVE FeedInv'
<1>1. /\ feed \in Seq(Types) /\ Len(feed) \in Nat /\ feed' = Append(feed, t)
      /\ UNCHANGED <<wanted, saved, processed, link, drops>> /\ Len(feed) < MaxEvents
  BY DEF FeedInv, TypeOK, Publish
<1>2. /\ feed' \in Seq(Types) /\ Len(feed') = Len(feed) + 1
      /\ \A i \in 1..Len(feed) : feed'[i] = feed[i]
  BY <1>1
<1>3. TypeOK' /\ Len(feed') <= MaxEvents
  BY <1>1, <1>2, FeedConstants DEF FeedInv, TypeOK
<1>4. ASSUME NEW c \in Consumers PROVE Served(c)'
  <2>1. Served(c)
    BY DEF FeedInv
  <2>2. link[c].cursor \in Nat /\ saved[c] \in Nat /\ link[c].batch \in Seq(Seqs)
    BY LinkOf DEF FeedInv
  <2>3. ASSUME NEW i \in Matching(c)', i <= Len(feed) PROVE i \in Matching(c)
    <3>1. i \in 1..(Len(feed) + 1) /\ feed'[i] \in wanted[c]
      BY <1>1, <1>2 DEF Matching
    <3>2. i \in 1..Len(feed)
      BY <1>1, <2>3, <3>1
    <3>. QED  BY <1>1, <1>2, <3>1, <3>2 DEF Matching
  <2>4. \A i \in Matching(c)' : i \in Nat
    BY <1>2 DEF Matching
  <2>5. Cursors(c)' /\ Ordered(c)'
    <3>1. Range(link[c].batch) \subseteq Nat
      BY <2>2, Numbers
    <3>. QED  BY <1>1, <1>2, <2>1, <2>2, <3>1 DEF Served, Cursors, Ordered
  <2>6. Complete(c)' /\ Covered(c)'
    BY <1>1, <2>1, <2>2, <2>3, <2>4 DEF Served, Cursors, Complete, Covered
  <2>7. Whole(c)'
    <3>1. SUFFICES ASSUME link[c].kind = "stream", NEW i \in Matching(c)',
                          NEW j \in Range(link[c].batch), link[c].cursor < i, i <= j
                   PROVE  i \in Range(link[c].batch)
      BY <1>1 DEF Whole
    <3>2. j \in Nat /\ j <= Len(feed)
      BY <2>1, <2>2, <3>1, Numbers DEF Served, Ordered
    <3>3. i \in Matching(c)
      BY <1>1, <2>3, <2>4, <3>1, <3>2
    <3>. QED  BY <2>1, <3>1, <3>3 DEF Served, Whole
  <2>. QED  BY <2>5, <2>6, <2>7 DEF Served
<1>. QED  BY <1>3, <1>4 DEF FeedInv
-----------------------------------------------------------------------------
(* Steps of one consumer: what they leave of its link, and that this is    *)
(* enough.                                                                 *)
LEMMA OneServed ==
    ASSUME FeedInv, NEW c \in Consumers, NEW l \in Links,
           UNCHANGED <<feed, wanted>>, link' = [link EXCEPT ![c] = l],
           NEW sv \in 0..MaxEvents, saved' = [saved EXCEPT ![c] = sv],
           NEW pr \in SUBSET Seqs, processed' = [processed EXCEPT ![c] = pr],
           drops' \in [Consumers -> Nat],
           Served(c)'
    PROVE  FeedInv'
<1>1. TypeOK' /\ link'[c] = l /\ saved'[c] = sv /\ processed'[c] = pr
  BY DEF FeedInv, TypeOK
<1>2. ASSUME NEW d \in Consumers, d # c PROVE Served(d)'
  <2>1. link'[d] = link[d] /\ saved'[d] = saved[d] /\ processed'[d] = processed[d]
    BY <1>2 DEF FeedInv, TypeOK
  <2>. QED  BY <2>1, OthersServed DEF FeedInv
<1>. QED  BY <1>1, <1>2 DEF FeedInv

(* A page of events, and the cursor it ends with.                          *)
LEMMA GetPageSafe ==
    ASSUME FeedInv, NEW c \in Consumers, GetPage(c) PROVE FeedInv'
<1>. DEFINE batch == Listed(c, saved[c])
            l == [NoLink EXCEPT !.kind = "page", !.after = saved[c],
                      !.cursor = NextCursor(batch, saved[c]), !.wire = batch]
<1>1. /\ feed \in Seq(Types) /\ Len(feed) \in Nat /\ Len(feed) <= MaxEvents
      /\ saved[c] \in 0..MaxEvents /\ saved[c] \in Nat /\ processed[c] \subseteq Seqs
      /\ Served(c)
  BY LinkOf DEF FeedInv, TypeOK
<1>2. /\ batch \in Seq(Seqs) /\ Ascending(batch)
      /\ \A i \in Range(batch) : saved[c] < i /\ i <= Len(feed)
      /\ \A i \in Matching(c), j \in Range(batch) :
            saved[c] < i /\ i <= j => i \in Range(batch)
  BY <1>1, ListedIs
<1>3. batch # <<>> /\ link' = [link EXCEPT ![c] = l]
      /\ UNCHANGED <<feed, wanted, saved, processed, drops>>
  BY DEF GetPage
<1>. HIDE DEF batch
<1>4. Last(batch) \in Range(batch) /\ Last(batch) \in Seqs
  <2>1. Len(batch) \in DOMAIN batch
    BY <1>2, <1>3
  <2>2. Last(batch) \in Range(batch)
    BY <2>1 DEF Last, Range
  <2>. QED  BY <1>2, <2>2, Numbers
<1>5. /\ l.kind = "page" /\ l.after = saved[c] /\ l.last = 0 /\ l.cursor = Last(batch)
      /\ l.wire = batch /\ l.batch = <<>>
  BY <1>3 DEF NoLink, NextCursor
<1>6. l \in Links
  <2>1. Last(batch) \in 0..MaxEvents
    BY <1>4, FeedConstants DEF Seqs
  <2>2. NextCursor(batch, saved[c]) = Last(batch)
    BY <1>3 DEF NextCursor
  <2>. QED  BY <1>1, <1>2, <2>1, <2>2, NoLinkOK DEF Links
<1>. HIDE DEF l
<1>7. link'[c] = l /\ saved'[c] = saved[c] /\ processed'[c] = processed[c]
  BY <1>3 DEF FeedInv, TypeOK
<1>8. Served(c)'
  <2>1. Matching(c)' = Matching(c)
    BY <1>3 DEF Matching
  <2>2. Last(batch) \in Nat /\ saved[c] < Last(batch) /\ Last(batch) <= Len(feed)
    BY <1>2, <1>4, Numbers
  <2>3. Cursors(c)'
    BY <1>1, <1>3, <1>5, <1>7, <2>2 DEF Served, Cursors
  <2>4. Complete(c)'
    BY <1>1, <1>7, <2>1 DEF Served, Complete
  <2>5. Covered(c)'
    BY <1>2, <1>4, <1>5, <1>7, <2>1 DEF Covered
  <2>6. Ordered(c)' /\ Whole(c)'
    BY <1>5, <1>7 DEF Ordered, Whole
  <2>. QED  BY <2>3, <2>4, <2>5, <2>6 DEF Served
<1>9. /\ saved' = [saved EXCEPT ![c] = saved[c]]
      /\ processed' = [processed EXCEPT ![c] = processed[c]]
      /\ drops' \in [Consumers -> Nat]
  BY <1>3 DEF FeedInv, TypeOK
<1>. QED  BY <1>1, <1>3, <1>6, <1>8, <1>9, OneServed

(* A page is worked off, one event at a time, and then its cursor saved.   *)
LEMMA ReadPageSafe ==
    ASSUME FeedInv, NEW c \in Consumers, ReadPage(c) PROVE FeedInv'
<1>. DEFINE wire == link[c].wire
<1>1. /\ Served(c) /\ link[c] \in Links /\ wire \in Seq(Seqs) /\ link[c].kind = "page"
      /\ saved[c] \in 0..MaxEvents /\ saved[c] \in Nat /\ processed[c] \subseteq Seqs
      /\ link[c].cursor \in 0..MaxEvents /\ link[c].cursor \in Nat
      /\ UNCHANGED <<feed, wanted, drops>> /\ drops' \in [Consumers -> Nat]
      /\ \A i \in Matching(c) : i \in Nat /\ i <= Len(feed)
  <2>1. link[c].cursor <= Len(feed) /\ Len(feed) <= MaxEvents /\ Len(feed) \in Nat
    BY LinkOf DEF FeedInv, Served, Cursors
  <2>. QED  BY <2>1, LinkOf, FeedConstants DEF FeedInv, TypeOK, ReadPage, Matching
<1>2. Matching(c)' = Matching(c)
  BY <1>1 DEF Matching
<1>3. CASE wire = <<>>
  <2>1. /\ saved' = [saved EXCEPT ![c] = link[c].cursor]
        /\ link' = [link EXCEPT ![c] = NoLink]
        /\ processed' = [processed EXCEPT ![c] = processed[c]]
    BY <1>3 DEF ReadPage, FeedInv, TypeOK
  <2>2. link'[c] = NoLink /\ saved'[c] = link[c].cursor /\ processed'[c] = processed[c]
    BY <2>1 DEF FeedInv, TypeOK
  <2>3. Served(c)'
    <3>1. /\ NoLink.kind = "none" /\ NoLink.cursor = 0
          /\ NoLink.after = 0 /\ NoLink.last = 0
      BY DEF NoLink
    <3>2. Cursors(c)'
      <4>1. Len(feed) \in Nat /\ link[c].cursor <= Len(feed)
        BY <1>1, LinkOf DEF FeedInv, Served, Cursors
      <4>. QED  BY <1>1, <2>2, <3>1, <4>1 DEF Cursors
    <3>3. ASSUME NEW i \in Matching(c), i <= link[c].cursor PROVE i \in processed[c]
      <4>1. CASE i <= saved[c]
        BY <1>1, <4>1 DEF Served, Complete
      <4>2. CASE saved[c] < i
        BY <1>1, <1>3, <3>3, <4>2, EmptyRange DEF Served, Covered
      <4>. QED  BY <1>1, <4>1, <4>2
    <3>4. Complete(c)'
      BY <1>2, <2>2, <3>3 DEF Complete
    <3>5. Covered(c)' /\ Ordered(c)' /\ Whole(c)'
      BY <2>2, <3>1 DEF Covered, Ordered, Whole
    <3>. QED  BY <3>2, <3>4, <3>5 DEF Served
  <2>. QED  BY <1>1, <2>1, <2>3, NoLinkOK, OneServed
<1>4. CASE wire # <<>>
  <2>. DEFINE l == [link[c] EXCEPT !.wire = Tail(wire)]
              pr == processed[c] \cup {Head(wire)}
  <2>1. /\ saved' = [saved EXCEPT ![c] = saved[c]]
        /\ link' = [link EXCEPT ![c] = l]
        /\ processed' = [processed EXCEPT ![c] = pr]
    BY <1>4 DEF ReadPage, FeedInv, TypeOK
  <2>2. /\ Head(wire) \in Seqs /\ Tail(wire) \in Seq(Seqs)
        /\ Range(wire) = {Head(wire)} \cup Range(Tail(wire))
    BY <1>1, <1>4, HeadAndTail
  <2>3. /\ l \in Links /\ l.kind = "page" /\ l.cursor = link[c].cursor
        /\ l.wire = Tail(wire) /\ pr \in SUBSET Seqs
    BY <1>1, <2>2 DEF Links
  <2>. HIDE DEF l
  <2>4. link'[c] = l /\ saved'[c] = saved[c] /\ processed'[c] = pr
    BY <2>1 DEF FeedInv, TypeOK
  <2>5. Served(c)'
    <3>1. Cursors(c)'
      BY <1>1, <2>3, <2>4 DEF Served, Cursors
    <3>2. Complete(c)' /\ Covered(c)'
      BY <1>1, <1>2, <2>2, <2>3, <2>4 DEF Served, Complete, Covered
    <3>3. Ordered(c)' /\ Whole(c)'
      BY <2>3, <2>4 DEF Ordered, Whole
    <3>. QED  BY <3>1, <3>2, <3>3 DEF Served
  <2>. QED  BY <1>1, <2>1, <2>3, <2>5, OneServed
<1>. QED  BY <1>3, <1>4

(* Whatever a consumer asks for, its stream starts at its saved cursor.    *)
LEMMA ConnectSafe ==
    ASSUME FeedInv, NEW c \in Consumers, Connect(c) PROVE FeedInv'
<1>1. PICK after \in {saved[c], link[c].after} :
          /\ after = saved[c] \/ link[c].last = saved[c]
          /\ link' = [link EXCEPT ![c] = [NoLink EXCEPT !.kind = "stream",
                        !.after = after, !.last = saved[c],
                        !.cursor = Resumed(after, saved[c])]]
  BY DEF Connect
<1>. DEFINE l == [NoLink EXCEPT !.kind = "stream", !.after = after, !.last = saved[c],
                      !.cursor = Resumed(after, saved[c])]
<1>2. /\ Served(c) /\ saved[c] \in 0..MaxEvents /\ saved[c] \in Nat
      /\ processed[c] \subseteq Seqs /\ link[c].kind = "none" /\ Len(feed) \in Nat
      /\ link[c].after \in Nat /\ link[c].last \in Nat /\ MaxEvents \in Nat
      /\ UNCHANGED <<feed, wanted, saved, processed, drops>>
      /\ saved' = [saved EXCEPT ![c] = saved[c]]
      /\ processed' = [processed EXCEPT ![c] = processed[c]]
      /\ drops' \in [Consumers -> Nat]
  BY LinkOf, FeedConstants DEF FeedInv, TypeOK, Connect
<1>3. after \in Nat /\ after <= saved[c] /\ after \in 0..MaxEvents
  <2>1. link[c].after <= link[c].last
    BY <1>2 DEF Served, Cursors
  <2>. QED  BY <1>1, <1>2, <2>1
<1>4. Resumed(after, saved[c]) = saved[c]
  BY <1>2, <1>3 DEF Resumed
<1>5. /\ l \in Links /\ l.kind = "stream" /\ l.cursor = saved[c] /\ l.last = saved[c]
      /\ l.after = after
  BY <1>2, <1>3, <1>4, NoLinkOK DEF Links
<1>6. l.wire = <<>> /\ l.batch = <<>>
  BY DEF NoLink
<1>. HIDE DEF l
<1>7. link' = [link EXCEPT ![c] = l] /\ link'[c] = l
  BY <1>1 DEF l, FeedInv, TypeOK
<1>8. Served(c)'
  <2>1. Matching(c)' = Matching(c) /\ \A i \in Matching(c) : i \in Nat
    BY <1>2 DEF Matching
  <2>2. Cursors(c)' /\ Complete(c)'
    BY <1>2, <1>3, <1>5, <1>7, <2>1 DEF Served, Cursors, Complete
  <2>3. Covered(c)'
    BY <1>2, <1>5, <1>7, <2>1 DEF Covered
  <2>4. Ordered(c)' /\ Whole(c)'
    BY <1>6, <1>7, EmptyRange DEF Ordered, Whole
  <2>. QED  BY <2>2, <2>3, <2>4 DEF Served
<1>. QED  BY <1>2, <1>5, <1>7, <1>8, OneServed

(* A read of the stream.                                                   *)
LEMMA FetchSafe ==
    ASSUME FeedInv, NEW c \in Consumers, Fetch(c) PROVE FeedInv'
<1>. DEFINE batch == Listed(c, link[c].cursor)
            l == [link[c] EXCEPT !.batch = batch]
<1>1. /\ Served(c) /\ link[c] \in Links /\ link[c].kind = "stream"
      /\ saved[c] \in 0..MaxEvents /\ processed[c] \subseteq Seqs
      /\ link[c].cursor \in Nat /\ feed \in Seq(Types) /\ Len(feed) <= MaxEvents
      /\ UNCHANGED <<feed, wanted, saved, processed, drops>>
      /\ saved' = [saved EXCEPT ![c] = saved[c]]
      /\ processed' = [processed EXCEPT ![c] = processed[c]]
      /\ drops' \in [Consumers -> Nat]
  BY LinkOf DEF FeedInv, TypeOK, Fetch
<1>2. /\ batch \in Seq(Seqs) /\ Ascending(batch)
      /\ \A i \in Range(batch) : link[c].cursor < i /\ i <= Len(feed)
      /\ \A i \in Matching(c), j \in Range(batch) :
            link[c].cursor < i /\ i <= j => i \in Range(batch)
  BY <1>1, ListedIs
<1>3. link' = [link EXCEPT ![c] = l] /\ link'[c] = l
  BY DEF Fetch, FeedInv, TypeOK
<1>. HIDE DEF batch
<1>4. /\ l \in Links /\ l.kind = "stream" /\ l.cursor = link[c].cursor
      /\ l.wire = link[c].wire /\ l.batch = batch
      /\ l.after = link[c].after /\ l.last = link[c].last
  BY <1>1, <1>2 DEF Links
<1>. HIDE DEF l
<1>5. Served(c)'
  <2>1. Matching(c)' = Matching(c)
    BY <1>1 DEF Matching
  <2>2. Cursors(c)' /\ Complete(c)'
    BY <1>1, <1>3, <1>4, <2>1 DEF Served, Cursors, Complete
  <2>3. Covered(c)'
    BY <1>1, <1>3, <1>4, <2>1 DEF Served, Covered
  <2>4. Ordered(c)'
    BY <1>1, <1>2, <1>3, <1>4 DEF Served, Ordered
  <2>5. Whole(c)'
    BY <1>2, <1>3, <1>4, <2>1 DEF Whole
  <2>. QED  BY <2>2, <2>3, <2>4, <2>5 DEF Served
<1>. QED  BY <1>1, <1>3, <1>4, <1>5, OneServed

(* An event goes from what was read to the wire: there is none in between, *)
(* and the wire ends before it.                                            *)
LEMMA EmitSafe ==
    ASSUME FeedInv, NEW c \in Consumers, Emit(c) PROVE FeedInv'
<1>. DEFINE batch == link[c].batch
            wire == link[c].wire
            h == Head(batch)
            l == [link[c] EXCEPT !.cursor = h, !.wire = Append(wire, h), !.batch = Tail(batch)]
<1>1. /\ Served(c) /\ link[c] \in Links /\ link[c].kind = "stream" /\ batch # <<>>
      /\ saved[c] \in 0..MaxEvents /\ saved[c] \in Nat /\ processed[c] \subseteq Seqs
      /\ link[c].cursor \in Nat /\ wire \in Seq(Seqs) /\ batch \in Seq(Seqs)
      /\ link[c].last \in Nat /\ link[c].after \in Nat
      /\ feed \in Seq(Types) /\ Len(feed) \in Nat
      /\ UNCHANGED <<feed, wanted, saved, processed, drops>>
      /\ saved' = [saved EXCEPT ![c] = saved[c]]
      /\ processed' = [processed EXCEPT ![c] = processed[c]]
      /\ drops' \in [Consumers -> Nat]
  BY LinkOf DEF FeedInv, TypeOK, Emit
<1>2. link' = [link EXCEPT ![c] = l] /\ link'[c] = l
  BY DEF Emit, FeedInv, TypeOK
<1>3. /\ saved[c] <= link[c].cursor /\ Ascending(wire) /\ Ascending(batch)
      /\ \A i \in Range(wire) : saved[c] < i /\ i <= link[c].cursor
      /\ \A i \in Range(batch) : link[c].cursor < i /\ i <= Len(feed)
      /\ \A i \in Matching(c), j \in Range(batch) :
            link[c].cursor < i /\ i <= j => i \in Range(batch)
  BY <1>1 DEF Served, Cursors, Ordered, Whole
<1>4. /\ h \in Seqs /\ h \in Nat /\ h \in 0..MaxEvents
      /\ Tail(batch) \in Seq(Seqs) /\ Append(wire, h) \in Seq(Seqs)
      /\ Range(batch) = {h} \cup Range(Tail(batch))
      /\ Range(Tail(batch)) \subseteq Nat /\ Range(wire) \subseteq Nat
  <2>1. /\ h \in Seqs /\ Tail(batch) \in Seq(Seqs)
        /\ Range(batch) = {h} \cup Range(Tail(batch))
    BY <1>1, HeadAndTail
  <2>2. Append(wire, h) \in Seq(Seqs)
    BY <1>1, <2>1
  <2>3. h \in 0..MaxEvents
    BY <2>1, FeedConstants DEF Seqs
  <2>. QED  BY <1>1, <2>1, <2>2, <2>3, Numbers
<1>5. Ascending(Tail(batch)) /\ \A i \in Range(Tail(batch)) : h < i
  BY <1>1, <1>3, Numbers, AscendingTail
<1>. HIDE DEF h, wire, batch
<1>6. Ascending(Append(wire, h)) /\ Range(Append(wire, h)) = Range(wire) \cup {h}
  <2>1. h \in Range(batch)
    BY <1>4
  <2>2. link[c].cursor < h
    BY <1>3, <2>1
  <2>3. \A i \in Range(wire) : i < h
    BY <1>1, <1>3, <1>4, <2>2
  <2>. QED  BY <1>1, <1>3, <1>4, <2>3, Numbers, AscendingAppend
<1>7. /\ l \in Links /\ l.kind = "stream" /\ l.cursor = h /\ l.after = link[c].after
      /\ l.wire = Append(wire, h) /\ l.batch = Tail(batch) /\ l.last = link[c].last
  BY <1>1, <1>4 DEF Links
<1>. HIDE DEF l
<1>8. Served(c)'
  <2>1. Matching(c)' = Matching(c) /\ \A i \in Matching(c) : i \in Nat
    BY <1>1 DEF Matching
  <2>2. h <= Len(feed) /\ link[c].cursor < h /\ saved[c] < h
    <3>1. h \in Range(batch)
      BY <1>4
    <3>2. link[c].cursor < h /\ h <= Len(feed)
      BY <1>3, <3>1
    <3>. QED  BY <1>1, <1>3, <1>4, <3>2
  <2>3. Cursors(c)' /\ Complete(c)'
    BY <1>1, <1>2, <1>4, <1>7, <2>1, <2>2 DEF Served, Cursors, Complete
  <2>4. Covered(c)'
    <3>1. ASSUME NEW i \in Matching(c), saved[c] < i, i <= h
          PROVE  i \in processed[c] \cup Range(Append(wire, h))
      <4>1. CASE i <= link[c].cursor
        <5>1. i \in processed[c] \cup Range(wire)
          BY <1>1, <3>1, <4>1 DEF Served, Covered, wire
        <5>. QED  BY <5>1, <1>6
      <4>2. CASE link[c].cursor < i
        <5>1. i \in Range(batch)
          BY <1>3, <1>4, <3>1, <4>2
        <5>2. i = h
          BY <1>4, <1>5, <2>1, <3>1, <5>1
        <5>. QED  BY <5>2, <1>6
      <4>. QED  BY <1>1, <2>1, <4>1, <4>2
    <3>. QED  BY <1>1, <1>2, <1>7, <2>1, <3>1 DEF Covered
  <2>5. Ordered(c)'
    <3>1. \A i \in Range(Append(wire, h)) : saved[c] < i /\ i <= h
      BY <1>1, <1>3, <1>4, <1>6, <2>2
    <3>2. \A i \in Range(Tail(batch)) : h < i /\ i <= Len(feed)
      BY <1>3, <1>4, <1>5
    <3>. QED  BY <1>1, <1>2, <1>5, <1>6, <1>7, <3>1, <3>2 DEF Ordered
  <2>6. Whole(c)'
    <3>1. ASSUME NEW i \in Matching(c), NEW j \in Range(Tail(batch)), h < i, i <= j
          PROVE  i \in Range(Tail(batch))
      <4>1. link[c].cursor < i /\ j \in Range(batch) /\ i # h
        BY <1>1, <1>4, <2>1, <2>2, <3>1
      <4>2. i \in Range(batch)
        BY <1>3, <3>1, <4>1
      <4>. QED  BY <1>4, <4>1, <4>2
    <3>. QED  BY <1>2, <1>7, <2>1, <3>1 DEF Whole
  <2>. QED  BY <2>3, <2>4, <2>5, <2>6 DEF Served
<1>. QED  BY <1>1, <1>2, <1>7, <1>8, OneServed

(* A frame is processed, and then its cursor saved or the consumer         *)
(* restarted.                                                              *)
LEMMA ReadFrameSafe ==
    ASSUME FeedInv, NEW c \in Consumers, ReadFrame(c) PROVE FeedInv'
<1>. DEFINE wire == link[c].wire
            h == Head(wire)
            pr == processed[c] \cup {h}
<1>1. /\ Served(c) /\ link[c] \in Links /\ link[c].kind = "stream" /\ wire # <<>>
      /\ saved[c] \in 0..MaxEvents /\ saved[c] \in Nat /\ processed[c] \subseteq Seqs
      /\ link[c].cursor \in Nat /\ wire \in Seq(Seqs) /\ feed \in Seq(Types)
      /\ link[c].last \in Nat /\ link[c].after \in Nat /\ Len(feed) \in Nat
      /\ UNCHANGED <<feed, wanted>>
      /\ processed' = [processed EXCEPT ![c] = pr] /\ processed'[c] = pr
  BY LinkOf DEF FeedInv, TypeOK, ReadFrame
<1>2. /\ saved[c] <= link[c].cursor /\ Ascending(wire) /\ link[c].cursor <= Len(feed)
      /\ saved[c] = link[c].last /\ link[c].after <= link[c].last
      /\ \A i \in Range(wire) : saved[c] < i /\ i <= link[c].cursor
  BY <1>1 DEF Served, Cursors, Ordered
<1>3. /\ h \in Seqs /\ h \in Nat /\ h \in 0..MaxEvents /\ pr \in SUBSET Seqs
      /\ Tail(wire) \in Seq(Seqs) /\ Range(wire) = {h} \cup Range(Tail(wire))
      /\ Range(Tail(wire)) \subseteq Nat
  <2>1. /\ h \in Seqs /\ Tail(wire) \in Seq(Seqs)
        /\ Range(wire) = {h} \cup Range(Tail(wire))
    BY <1>1, HeadAndTail
  <2>2. h \in 0..MaxEvents
    BY <2>1, FeedConstants DEF Seqs
  <2>. QED  BY <1>1, <2>1, <2>2, Numbers
<1>4. Ascending(Tail(wire)) /\ \A i \in Range(Tail(wire)) : h < i
  BY <1>1, <1>2, Numbers, AscendingTail
<1>5. Matching(c)' = Matching(c) /\ \A i \in Matching(c) : i \in Nat
  BY <1>1 DEF Matching
<1>. HIDE DEF wire, h
<1>6. saved[c] < h /\ h <= link[c].cursor
  <2>1. h \in Range(wire)
    BY <1>3
  <2>. QED  BY <1>2, <2>1
<1>7. ASSUME NEW i \in Matching(c), saved[c] < i, i <= link[c].cursor
      PROVE  i \in pr \cup Range(Tail(wire))
  <2>1. i \in processed[c] \cup Range(wire)
    BY <1>1, <1>7 DEF Served, Covered, wire
  <2>. QED  BY <1>3, <2>1
<1>8. CASE /\ saved' = [saved EXCEPT ![c] = h]
           /\ link' = [link EXCEPT ![c].wire = Tail(@), ![c].last = h]
           /\ UNCHANGED drops
  <2>. DEFINE l == [link[c] EXCEPT !.wire = Tail(wire), !.last = h]
  <2>1. /\ link' = [link EXCEPT ![c] = l] /\ link'[c] = l /\ saved'[c] = h
        /\ drops' \in [Consumers -> Nat]
    BY <1>8 DEF FeedInv, TypeOK, wire
  <2>2. /\ l \in Links /\ l.kind = "stream" /\ l.cursor = link[c].cursor /\ l.last = h
        /\ l.wire = Tail(wire) /\ l.batch = link[c].batch /\ l.after = link[c].after
    BY <1>1, <1>3 DEF Links
  <2>. HIDE DEF l
  <2>3. Served(c)'
    <3>1. Cursors(c)'
      BY <1>1, <1>2, <1>3, <1>6, <2>1, <2>2 DEF Cursors
    <3>2. Complete(c)'
      <4>1. ASSUME NEW i \in Matching(c), i <= h PROVE i \in pr
        <5>1. CASE i <= saved[c]
          BY <1>1, <5>1 DEF Served, Complete
        <5>2. CASE saved[c] < i
          <6>1. i <= link[c].cursor
            BY <1>1, <1>3, <1>5, <1>6, <4>1
          <6>2. i \notin Range(Tail(wire))
            BY <1>3, <1>4, <1>5, <4>1
          <6>. QED  BY <1>7, <5>2, <6>1, <6>2
        <5>. QED  BY <1>1, <1>5, <5>1, <5>2
      <4>. QED  BY <1>1, <1>5, <2>1, <4>1 DEF Complete
    <3>3. Covered(c)'
      <4>1. \A i \in Matching(c) : h < i => saved[c] < i
        BY <1>1, <1>3, <1>5, <1>6
      <4>. QED  BY <1>1, <1>5, <1>7, <2>1, <2>2, <4>1 DEF Covered
    <3>4. Ordered(c)'
      BY <1>1, <1>2, <1>3, <1>4, <2>1, <2>2 DEF Served, Ordered
    <3>5. Whole(c)'
      BY <1>1, <1>5, <2>1, <2>2 DEF Served, Whole
    <3>. QED  BY <3>1, <3>2, <3>3, <3>4, <3>5 DEF Served
  <2>. QED  BY <1>1, <1>3, <1>8, <2>1, <2>2, <2>3, OneServed
<1>9. CASE /\ drops' = [drops EXCEPT ![c] = @ + 1]
           /\ link' = [link EXCEPT ![c] = NoLink]
           /\ UNCHANGED saved
  <2>1. /\ link'[c] = NoLink /\ saved'[c] = saved[c] /\ drops' \in [Consumers -> Nat]
        /\ saved' = [saved EXCEPT ![c] = saved[c]]
    BY <1>9 DEF FeedInv, TypeOK
  <2>2. Served(c)'
    <3>1. /\ NoLink.kind = "none" /\ NoLink.cursor = 0 /\ NoLink.after = 0 /\ NoLink.last = 0
      BY DEF NoLink
    <3>2. Cursors(c)' /\ Complete(c)'
      BY <1>1, <1>5, <2>1, <3>1 DEF Served, Cursors, Complete
    <3>3. Covered(c)' /\ Ordered(c)' /\ Whole(c)'
      BY <2>1, <3>1 DEF Covered, Ordered, Whole
    <3>. QED  BY <3>2, <3>3 DEF Served
  <2>. QED  BY <1>1, <1>3, <1>9, <2>1, <2>2, NoLinkOK, OneServed
<1>. QED  BY <1>8, <1>9 DEF ReadFrame, h, wire

LEMMA DropSafe ==
    ASSUME FeedInv, NEW c \in Consumers, Drop(c) PROVE FeedInv'
<1>. DEFINE r == [NoLink EXCEPT !.after = link[c].after, !.last = link[c].last]
            l == IF link[c].kind = "stream" THEN r ELSE NoLink
<1>1. /\ Served(c) /\ link[c] \in Links /\ processed[c] \subseteq Seqs
      /\ saved[c] \in 0..MaxEvents /\ saved[c] \in Nat /\ Len(feed) \in Nat
      /\ link[c].last \in Nat /\ link[c].after \in Nat
      /\ UNCHANGED <<feed, wanted, saved, processed>>
      /\ saved' = [saved EXCEPT ![c] = saved[c]]
      /\ processed' = [processed EXCEPT ![c] = processed[c]]
      /\ drops' \in [Consumers -> Nat]
      /\ link' = [link EXCEPT ![c] = l] /\ link'[c] = l
  BY LinkOf DEF FeedInv, TypeOK, Drop
<1>2. /\ r \in Links /\ r.kind = "none" /\ r.cursor = 0
      /\ r.after = link[c].after /\ r.last = link[c].last
  <2>1. r \in Links
    BY <1>1, NoLinkOK DEF Links
  <2>. QED  BY <2>1 DEF NoLink
<1>3. NoLink.kind = "none" /\ NoLink.cursor = 0 /\ NoLink.after = 0 /\ NoLink.last = 0
  BY DEF NoLink
<1>. HIDE DEF r
<1>4. l \in Links /\ l.kind = "none" /\ l.cursor = 0 /\ l.after <= l.last
  <2>1. link[c].kind = "stream" => link[c].after <= link[c].last
    BY <1>1 DEF Served, Cursors
  <2>. QED  BY <1>2, <1>3, <2>1, NoLinkOK
<1>. HIDE DEF l
<1>5. Served(c)'
  <2>1. Matching(c)' = Matching(c)
    BY <1>1 DEF Matching
  <2>2. Cursors(c)' /\ Complete(c)'
    BY <1>1, <1>4, <2>1 DEF Served, Cursors, Complete
  <2>3. Covered(c)' /\ Ordered(c)' /\ Whole(c)'
    BY <1>1, <1>4 DEF Covered, Ordered, Whole
  <2>. QED  BY <2>2, <2>3 DEF Served
<1>. QED  BY <1>1, <1>4, <1>5, OneServed
-----------------------------------------------------------------------------
LEMMA FeedStep == FeedInv /\ [Next]_vars => FeedInv'
<1>. SUFFICES ASSUME FeedInv, [Next]_vars PROVE FeedInv'
  OBVIOUS
<1>1. ASSUME NEW t \in Types, Publish(t) PROVE FeedInv'
  BY <1>1, PublishSafe
<1>2. ASSUME NEW c \in Consumers, ConsumerStep(c) \/ StreamStep(c) \/ Drop(c)
      PROVE  FeedInv'
  BY <1>2, GetPageSafe, ReadPageSafe, ConnectSafe, FetchSafe, EmitSafe, ReadFrameSafe,
     DropSafe DEF ConsumerStep, StreamStep
<1>3. CASE UNCHANGED vars
  <2>1. /\ feed' = feed /\ wanted' = wanted /\ saved' = saved /\ processed' = processed
        /\ link' = link /\ drops' = drops
    BY <1>3 DEF vars
  <2>2. TypeOK' /\ Len(feed') <= MaxEvents
    BY <2>1 DEF FeedInv, TypeOK
  <2>3. ASSUME NEW c \in Consumers PROVE Served(c)'
    BY <2>1, OthersServed DEF FeedInv
  <2>. QED  BY <2>2, <2>3 DEF FeedInv
<1>. QED  BY <1>1, <1>2, <1>3 DEF Next

LEMMA FeedAlways == Spec => []FeedInv
<1>. QED  BY FeedInitial, FeedStep, PTL DEF Spec

(* The feed, the cursors and the connections keep their types: a cursor    *)
(* is a number of the feed however a link was dropped and resumed.         *)
THEOREM FeedTyped == Spec => []TypeOK
<1>1. FeedInv => TypeOK
  BY DEF FeedInv
<1>. QED  BY <1>1, FeedAlways, PTL

(* list_integration_events, its next_cursor and the resumed stream: up to  *)
(* the cursor it has saved, a consumer has processed every event that it   *)
(* asks for.                                                               *)
THEOREM NoEventSkipped == Spec => []NothingSkipped
<1>1. FeedInv => NothingSkipped
  BY DEF FeedInv, Served, Complete, NothingSkipped
<1>. QED  BY <1>1, FeedAlways, PTL

(* event_stream: the frames on their way and those that follow are in      *)
(* order and beyond what the consumer has saved.                           *)
THEOREM StreamsGoOn == Spec => []StreamGoesOn
<1>1. ASSUME FeedInv, NEW c \in Consumers, link[c].kind = "stream"
      PROVE  Ascending(<<saved[c]>> \o link[c].wire \o link[c].batch)
  <2>1. /\ saved[c] \in Nat /\ link[c].cursor \in Nat /\ saved[c] <= link[c].cursor
        /\ link[c].wire \in Seq(Nat) /\ link[c].batch \in Seq(Nat)
        /\ Ascending(link[c].wire) /\ Ascending(link[c].batch)
        /\ \A i \in Range(link[c].wire) : saved[c] < i /\ i <= link[c].cursor
        /\ \A i \in Range(link[c].batch) : link[c].cursor < i
    BY <1>1, LinkOf, Numbers DEF FeedInv, Served, Cursors, Ordered
  <2>. QED  BY <2>1, AscendingJoin
<1>2. FeedInv => StreamGoesOn
  BY <1>1 DEF StreamGoesOn
<1>. QED  BY <1>2, FeedAlways, PTL
=============================================================================
