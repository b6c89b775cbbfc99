-------------------------- MODULE IceChannel_proof ---------------------------
(***************************************************************************)
(* Proofs about IceChannel, for any number of addresses, priorities and    *)
(* round-trip times.                                                       *)
(*                                                                         *)
(* The handlers are operators from a state to the state after the call, so *)
(* the invariant Good is a predicate on such states and every call has a   *)
(* lemma.  A call changes a connection or the list and then re-sorts; what *)
(* holds in between is Kept, and Resorted leads from Kept to Good.         *)
(***************************************************************************)
EXTENDS IceChannel, FiniteSetTheorems, SequenceTheorems, WellFoundedInduction, TLAPS

State == [ch : Channel, cn : [Conn -> Connection]]

\* _connections holds each live connection once.
Distinct(s) == \A i, j \in DOMAIN s : s[i] = s[j] => i = j
Listed(st) == Distinct(st.ch.sorted) /\ \A c \in Conn : st.cn[c].status = "live" <=> c \in Live(st)

Agrees(st) ==
    st.ch.selected # None =>
        st.ch.preferred = st.ch.selected /\ st.cn[st.ch.selected].status = "live"
Rounds(st) ==
    /\ \A c \in Live(st) : (c \in st.ch.pinged) # (c \in st.ch.unpinged)
    /\ \A c \in Conn : st.cn[c].status = "none" =>
            c \notin st.ch.pinged /\ c \notin st.ch.unpinged /\ c # st.ch.preferred

\* Until the timer runs no connection has been pinged, so none is ready.
Quiet(x) == x.write = WriteInit /\ ~x.receiving /\ x.unanswered = 0 /\ x.open = 0
BeforePings(st) ==
    ~st.ch.pinging => st.ch.preferred = None /\ \A c \in Conn : Quiet(st.cn[c])

\* What every call keeps,
Kept(st) == st \in State /\ Listed(st) /\ Agrees(st) /\ Rounds(st) /\ BeforePings(st)

\* and what is so once the channel has sorted its connections and updated its state.
Current(st) ==
    /\ st.ch.writable = ActualWritable(st)
    /\ st.ch.receiving = ActualReceiving(st)
    /\ st.ch.state = ComputedState(st, st.ch.writable)
Started(st) == (\E c \in Live(st) : st.cn[c].password = "known") => st.ch.pinging
FirstReady(st) == st.ch.preferred = None => \A c \in Live(st) : ~ReadyToSend(st, c)
Good(st) == Kept(st) /\ Current(st) /\ Started(st) /\ FirstReady(st)

-------------------------------------------------------------------------------
(***************************************************************************)
(* Sorting.  Better is a strict weak order, so that what is ahead of two   *)
(* positions of the list differs, and each position of the sorted list is  *)
(* the one of some connection.                                             *)
(***************************************************************************)
LEMMA BetterOrders ==
    ASSUME NEW st \in State, NEW a \in Conn, NEW b \in Conn, NEW c \in Conn
    PROVE  /\ ~Better(st, a, a)
           /\ ~(Better(st, a, b) /\ Better(st, b, a))
           /\ Better(st, a, b) => Better(st, a, c) \/ Better(st, c, b)
<1>1. \A x \in Conn : /\ st.cn[x].write \in 0 .. 3 /\ st.cn[x].receiving \in BOOLEAN
                      /\ st.cn[x].rtt \in Nat /\ Priority[x] \in Nat
    BY RttAssumption DEF State, Connection
<1>. QED  BY <1>1, SMT DEF Better

LEMMA BeforeOrders ==
    ASSUME NEW st \in State, NEW i \in DOMAIN st.ch.sorted, NEW j \in DOMAIN st.ch.sorted,
           NEW k \in DOMAIN st.ch.sorted
    PROVE  /\ ~Before(st, i, i)
           /\ i # j => Before(st, i, j) \/ Before(st, j, i)
           /\ Before(st, i, j) /\ Before(st, j, k) => Before(st, i, k)
<1>. DEFINE s == st.ch.sorted
<1>1. s \in Seq(Conn)
    BY DEF State, Channel
<1>2. i \in Nat /\ j \in Nat /\ k \in Nat /\ s[i] \in Conn /\ s[j] \in Conn /\ s[k] \in Conn
    BY <1>1, LenProperties
<1>. DEFINE B(x, y) == Better(st, x, y)
<1>3. \A x, y, z \in Conn : ~B(x, x) /\ ~(B(x, y) /\ B(y, x)) /\ (B(x, y) => B(x, z) \/ B(z, y))
    BY BetterOrders
<1>4. \A m, n : Before(st, m, n) <=> B(s[m], s[n]) \/ (~B(s[n], s[m]) /\ m < n)
    BY DEF Before
<1>. HIDE DEF s, B
<1>5. ~Before(st, i, i)
    BY <1>2, <1>3, <1>4
<1>6. i # j => Before(st, i, j) \/ Before(st, j, i)
    BY <1>2, <1>4
<1>7. ASSUME Before(st, i, j), Before(st, j, k) PROVE Before(st, i, k)
    <2>1. ~B(s[j], s[i]) /\ ~B(s[k], s[j])
        BY <1>2, <1>3, <1>4, <1>7
    <2>2. ~B(s[k], s[i])
        BY <1>2, <1>3, <2>1
    <2>3. CASE B(s[i], s[j])
        BY <1>2, <1>3, <1>4, <2>1, <2>3
    <2>4. CASE B(s[j], s[k])
        BY <1>2, <1>3, <1>4, <2>1, <2>4
    <2>5. CASE i < j /\ j < k
        BY <1>2, <1>4, <2>2, <2>5
    <2>. QED  BY <1>4, <1>7, <2>3, <2>4, <2>5
<1>. QED  BY <1>5, <1>6, <1>7

\* Each number of connections to be ahead is that of one position.
LEMMA AheadCounts ==
    ASSUME NEW st \in State
    PROVE  LET D == DOMAIN st.ch.sorted
               n == Len(st.ch.sorted)
           IN /\ \A i \in D : Cardinality(AheadOf(st, i)) \in 0 .. n - 1
              /\ \A i, j \in D : Cardinality(AheadOf(st, i)) = Cardinality(AheadOf(st, j)) => i = j
              /\ \A k \in D : \E i \in D : Cardinality(AheadOf(st, i)) = k - 1
<1>. DEFINE D == DOMAIN st.ch.sorted
            n == Len(st.ch.sorted)
            rank == [i \in D |-> Cardinality(AheadOf(st, i))]
<1>1. n \in Nat /\ D = 1 .. n
    BY LenProperties DEF State, Channel
<1>2. IsFiniteSet(D) /\ Cardinality(D) = n
    BY <1>1, FS_Interval
<1>. HIDE DEF n
<1>3. ASSUME NEW i \in D
      PROVE  /\ AheadOf(st, i) \subseteq D \ {i} /\ IsFiniteSet(AheadOf(st, i))
             /\ Cardinality(AheadOf(st, i)) \in 0 .. n - 1
    <2>1. AheadOf(st, i) \subseteq D \ {i}
        BY BeforeOrders DEF AheadOf
    <2>2. IsFiniteSet(D \ {i}) /\ Cardinality(D \ {i}) = n - 1
        BY <1>2, FS_RemoveElement
    <2>3. IsFiniteSet(AheadOf(st, i)) /\ Cardinality(AheadOf(st, i)) <= n - 1
        BY <2>1, <2>2, FS_Subset
    <2>4. Cardinality(AheadOf(st, i)) \in Nat
        BY <2>3, FS_CardinalityType
    <2>. QED  BY <1>1, <2>1, <2>3, <2>4
<1>4. ASSUME NEW i \in D, NEW j \in D, Before(st, i, j)
      PROVE  Cardinality(AheadOf(st, i)) < Cardinality(AheadOf(st, j))
    <2>1. AheadOf(st, i) \cup {i} \subseteq AheadOf(st, j)
        BY <1>4, BeforeOrders DEF AheadOf
    <2>2. i \notin AheadOf(st, i)
        BY <1>3
    <2>3. Cardinality(AheadOf(st, i) \cup {i}) = Cardinality(AheadOf(st, i)) + 1
        BY <1>3, <2>2, FS_AddElement
    <2>4. Cardinality(AheadOf(st, i) \cup {i}) <= Cardinality(AheadOf(st, j))
        BY <1>3, <2>1, FS_Subset
    <2>. QED  BY <1>3, <2>3, <2>4
<1>5. ASSUME NEW i \in D, NEW j \in D, Cardinality(AheadOf(st, i)) = Cardinality(AheadOf(st, j))
      PROVE  i = j
    <2>1. Cardinality(AheadOf(st, i)) \in Nat /\ Cardinality(AheadOf(st, j)) \in Nat
        BY <1>3
    <2>2. ~Before(st, i, j) /\ ~Before(st, j, i)
        BY <1>4, <1>5, <2>1
    <2>. QED  BY <2>2, BeforeOrders
<1>6. rank \in Injection(D, 0 .. n - 1)
    BY <1>3, <1>5 DEF Injection, IsInjective
<1>7. IsFiniteSet(0 .. n - 1) /\ Cardinality(0 .. n - 1) = n
    <2>1. IsFiniteSet(0 .. n - 1) /\ Cardinality(0 .. n - 1) = IF 0 > n - 1 THEN 0 ELSE (n - 1) - 0 + 1
        BY <1>1, FS_Interval
    <2>. QED  BY <1>1, <2>1
<1>8. rank \in Surjection(D, 0 .. n - 1)
    BY <1>2, <1>6, <1>7, FS_Injection
<1>9. ASSUME NEW k \in D PROVE \E i \in D : Cardinality(AheadOf(st, i)) = k - 1
    <2>1. k - 1 \in 0 .. n - 1
        BY <1>1
    <2>2. PICK i \in D : rank[i] = k - 1
        BY <1>8, <2>1 DEF Surjection
    <2>. QED  BY <2>2
<1>. QED  BY <1>3, <1>5, <1>9 DEF n

\* The sorted list holds what the list held, and a best one first.
LEMMA SortedIs ==
    ASSUME NEW st \in State
    PROVE  LET s == st.ch.sorted
               t == Sorted(st)
           IN /\ t \in Seq(Conn) /\ Len(t) = Len(s) /\ Range(t) = Range(s)
              /\ Distinct(s) => Distinct(t)
              /\ t # <<>> => Head(t) \in Range(t) /\ \A c \in Range(t) : ~Better(st, c, Head(t))
<1>. DEFINE s == st.ch.sorted
            D == DOMAIN s
            R(i) == Cardinality(AheadOf(st, i))
            pos == [k \in D |-> CHOOSE i \in D : R(i) = k - 1]
            t == [k \in D |-> s[pos[k]]]
<1>1. Sorted(st) = t
    BY DEF Sorted
<1>2. s \in Seq(Conn) /\ Len(s) \in Nat /\ D = 1 .. Len(s) /\ \A i \in D : s[i] \in Conn
    BY LenProperties DEF State, Channel
<1>3. \A k \in D : pos[k] \in D /\ R(pos[k]) = k - 1
    BY AheadCounts
<1>4. \A i \in D : R(i) \in 0 .. Len(s) - 1
    BY AheadCounts
<1>5. \A i, j \in D : R(i) = R(j) => i = j
    BY AheadCounts
<1>6. \A i \in D : R(i) = 0 => AheadOf(st, i) = {}
    <2>. SUFFICES ASSUME NEW i \in D, R(i) = 0 PROVE AheadOf(st, i) = {}
        OBVIOUS
    <2>1. IsFiniteSet(D)
        BY <1>2, FS_Interval
    <2>2. IsFiniteSet(AheadOf(st, i))
        BY <2>1, FS_Subset DEF AheadOf
    <2>. QED  BY <2>2, FS_EmptySet
<1>. HIDE DEF R, pos
<1>7. \A i \in D : \E k \in D : pos[k] = i
    <2>. SUFFICES ASSUME NEW i \in D PROVE \E k \in D : pos[k] = i
        OBVIOUS
    <2>1. R(i) + 1 \in D /\ (R(i) + 1) - 1 = R(i)
        BY <1>2, <1>4
    <2>2. pos[R(i) + 1] \in D /\ R(pos[R(i) + 1]) = R(i)
        BY <1>3, <2>1
    <2>3. pos[R(i) + 1] = i
        BY <1>5, <2>2
    <2>. QED  BY <2>1, <2>3
<1>8. \A k \in D : t[k] = s[pos[k]] /\ t[k] \in Conn
    BY <1>2, <1>3
<1>9. t \in [1 .. Len(s) -> Conn]
    BY <1>2, <1>3
<1>10. t \in Seq(Conn) /\ Len(t) = Len(s) /\ DOMAIN t = D
    BY <1>2, <1>9
<1>11. Range(t) = Range(s)
    <2>1. ASSUME NEW c \in Range(t) PROVE c \in Range(s)
        BY <1>3, <1>8, <1>10 DEF Range
    <2>2. ASSUME NEW c \in Range(s) PROVE c \in Range(t)
        <3>1. PICK i \in D : s[i] = c
            BY DEF Range
        <3>2. PICK k \in D : pos[k] = i
            BY <1>7
        <3>. QED  BY <1>8, <1>10, <3>1, <3>2 DEF Range
    <2>. QED  BY <2>1, <2>2
<1>12. ASSUME Distinct(s) PROVE Distinct(t)
    <2>. SUFFICES ASSUME NEW k \in D, NEW l \in D, t[k] = t[l] PROVE k = l
        BY <1>10 DEF Distinct
    <2>1. pos[k] = pos[l]
        BY <1>3, <1>8, <1>12 DEF Distinct
    <2>2. k - 1 = l - 1
        BY <1>3, <2>1
    <2>. QED  BY <1>2, <2>2
<1>13. ASSUME t # <<>> PROVE Head(t) \in Range(t) /\ \A c \in Range(t) : ~Better(st, c, Head(t))
    <2>1. Head(t) = t[1]
        BY <1>10, <1>13
    <2>2. 1 \in D
        BY <1>2, <1>10, <1>13, EmptySeq
    <2>3. AheadOf(st, pos[1]) = {} /\ pos[1] \in D
        BY <1>3, <1>6, <2>2
    <2>4. \A j \in D : ~Better(st, s[j], s[pos[1]])
        BY <2>3 DEF AheadOf, Before
    <2>5. \A c \in Range(s) : ~Better(st, c, s[pos[1]])
        BY <2>4 DEF Range
    <2>6. Head(t) = s[pos[1]] /\ Head(t) \in Range(t)
        BY <1>8, <1>10, <2>1, <2>2 DEF Range
    <2>. QED  BY <1>11, <2>5, <2>6
<1>. HIDE DEF t
<1>. QED  BY <1>1, <1>10, <1>11, <1>12, <1>13

\* Erasing takes one connection out of the list.
LEMMA ErasedIs ==
    ASSUME NEW s \in Seq(Conn), Distinct(s), NEW c
    PROVE  /\ Erased(s, c) \in Seq(Conn) /\ Distinct(Erased(s, c))
           /\ Range(Erased(s, c)) = Range(s) \ {c}
<1>1. Len(s) \in Nat /\ DOMAIN s = 1 .. Len(s) /\ \A i \in 1 .. Len(s) : s[i] \in Conn
    BY LenProperties
<1>2. CASE c \notin Range(s)
    BY <1>2 DEF Erased
<1>3. CASE c \in Range(s)
    <2>. DEFINE P(i) == s[i] = c /\ \A j \in DOMAIN s : j < i => s[j] # c
                k == CHOOSE i \in DOMAIN s : P(i)
                a == SubSeq(s, 1, k - 1)
                b == SubSeq(s, k + 1, Len(s))
                n == Len(s)
    <2>1. PICK i \in DOMAIN s : s[i] = c
        BY <1>3 DEF Range
    <2>2. P(i)
        BY <2>1, <1>1 DEF Distinct
    <2>3. k \in DOMAIN s /\ P(k)
        BY <2>2
    <2>4. Erased(s, c) = a \o b
        BY <1>3 DEF Erased
    <2>. HIDE DEF P, k
    <2>5. k \in 1 .. n /\ s[k] = c
        BY <1>1, <2>3 DEF P
    <2>6. /\ a \in Seq(Conn) /\ Len(a) = k - 1 /\ \A j \in 1 .. k - 1 : a[j] = s[j]
        <3>1. \A j \in 1 .. k - 1 : s[j] \in Conn
            BY <1>1, <2>5
        <3>2. /\ a \in Seq(Conn) /\ Len(a) = IF 1 <= k - 1 THEN (k - 1) - 1 + 1 ELSE 0
              /\ \A j \in 1 .. (k - 1) - 1 + 1 : a[j] = s[1 + j - 1]
            BY <2>5, <3>1, SubSeqProperties
        <3>. HIDE DEF a
        <3>3. \A j \in 1 .. k - 1 : j \in 1 .. (k - 1) - 1 + 1 /\ 1 + j - 1 = j
            BY <2>5
        <3>4. Len(a) = k - 1
            BY <2>5, <3>2
        <3>. QED  BY <3>2, <3>3, <3>4
    <2>7. /\ b \in Seq(Conn) /\ Len(b) = n - k /\ \A j \in 1 .. n - k : b[j] = s[k + j]
        <3>1. \A j \in k + 1 .. n : s[j] \in Conn
            BY <1>1, <2>5
        <3>2. /\ b \in Seq(Conn) /\ Len(b) = IF k + 1 <= n THEN n - (k + 1) + 1 ELSE 0
              /\ \A j \in 1 .. n - (k + 1) + 1 : b[j] = s[(k + 1) + j - 1]
            BY <1>1, <2>5, <3>1, SubSeqProperties
        <3>. HIDE DEF b
        <3>3. \A j \in 1 .. n - k : j \in 1 .. n - (k + 1) + 1 /\ (k + 1) + j - 1 = k + j
            BY <1>1, <2>5
        <3>4. Len(b) = n - k
            <4>1. n \in Nat /\ k \in Nat /\ k <= n
                BY <1>1, <2>5
            <4>. HIDE DEF n
            <4>2. CASE k + 1 <= n
                BY <3>2, <4>1, <4>2
            <4>3. CASE ~(k + 1 <= n)
                BY <3>2, <4>1, <4>3
            <4>. QED  BY <4>2, <4>3
        <3>. QED  BY <3>2, <3>3, <3>4
    <2>. DEFINE e == a \o b
    <2>. HIDE DEF a, b
    <2>8. /\ e \in Seq(Conn) /\ Len(e) = n - 1
          /\ \A j \in 1 .. n - 1 : e[j] = IF j < k THEN s[j] ELSE s[j + 1]
        <3>1. /\ e \in Seq(Conn) /\ Len(e) = Len(a) + Len(b)
              /\ \A j \in 1 .. Len(a) + Len(b) : e[j] = IF j <= Len(a) THEN a[j] ELSE b[j - Len(a)]
            BY <2>6, <2>7, ConcatProperties
        <3>. HIDE DEF e
        <3>2. Len(a) + Len(b) = n - 1
            BY <1>1, <2>5, <2>6, <2>7
        <3>3. ASSUME NEW j \in 1 .. n - 1 PROVE e[j] = IF j < k THEN s[j] ELSE s[j + 1]
            <4>1. CASE j < k
                <5>1. j <= Len(a) /\ j \in 1 .. k - 1
                    BY <1>1, <2>5, <2>6, <4>1
                <5>2. e[j] = a[j]
                    BY <3>1, <3>2, <5>1
                <5>. QED  BY <2>6, <4>1, <5>1, <5>2
            <4>2. CASE ~(j < k)
                <5>1. ~(j <= Len(a)) /\ j - Len(a) \in 1 .. n - k /\ k + (j - Len(a)) = j + 1
                    BY <1>1, <2>5, <2>6, <4>2
                <5>2. e[j] = b[j - Len(a)]
                    BY <3>1, <3>2, <5>1
                <5>. QED  BY <2>7, <4>2, <5>1, <5>2
            <4>. QED  BY <4>1, <4>2
        <3>. QED  BY <3>1, <3>2, <3>3
    <2>. HIDE DEF e
    <2>9. DOMAIN e = 1 .. n - 1
        BY <2>8, LenProperties
    <2>. DEFINE at(j) == IF j < k THEN j ELSE j + 1
    <2>10. \A j \in 1 .. n - 1 : at(j) \in 1 .. n /\ at(j) # k /\ e[j] = s[at(j)]
        BY <1>1, <2>5, <2>8
    <2>11. \A j, l \in 1 .. n - 1 : at(j) = at(l) => j = l
        BY <1>1, <2>5
    <2>12. \A x \in 1 .. n : x # k => \E j \in 1 .. n - 1 : at(j) = x
        <3>. SUFFICES ASSUME NEW x \in 1 .. n, x # k PROVE \E j \in 1 .. n - 1 : at(j) = x
            OBVIOUS
        <3>1. CASE x < k
            <4>1. x \in 1 .. n - 1 /\ at(x) = x
                BY <1>1, <2>5, <3>1
            <4>. QED  BY <4>1
        <3>2. CASE x > k
            <4>1. x - 1 \in 1 .. n - 1 /\ at(x - 1) = x
                BY <1>1, <2>5, <3>2
            <4>. QED  BY <4>1
        <3>. QED  BY <1>1, <2>5, <3>1, <3>2
    <2>. HIDE DEF at
    <2>13. Distinct(e)
        <3>. SUFFICES ASSUME NEW j \in 1 .. n - 1, NEW l \in 1 .. n - 1, e[j] = e[l] PROVE j = l
            BY <2>9 DEF Distinct
        <3>1. at(j) = at(l)
            BY <1>1, <2>10 DEF Distinct
        <3>. QED  BY <2>11, <3>1
    <2>14. Range(e) = Range(s) \ {c}
        <3>1. ASSUME NEW x \in Range(e) PROVE x \in Range(s) \ {c}
            <4>1. PICK j \in 1 .. n - 1 : x = e[j]
                BY <2>9 DEF Range
            <4>2. x = s[at(j)] /\ at(j) \in 1 .. n /\ at(j) # k
                BY <2>10, <4>1
            <4>3. x # c
                BY <1>1, <2>5, <4>2 DEF Distinct
            <4>. QED  BY <1>1, <4>2, <4>3 DEF Range
        <3>2. ASSUME NEW x \in Range(s) \ {c} PROVE x \in Range(e)
            <4>1. PICK i2 \in 1 .. n : x = s[i2]
                BY <1>1 DEF Range
            <4>2. i2 # k
                BY <2>5, <4>1
            <4>3. PICK j \in 1 .. n - 1 : at(j) = i2
                BY <2>12, <4>2
            <4>4. x = e[j]
                BY <2>10, <4>1, <4>3
            <4>. QED  BY <2>9, <4>4 DEF Range
        <3>. QED  BY <3>1, <3>2
    <2>15. Erased(s, c) = e
        BY <2>4 DEF e
    <2>. QED  BY <2>8, <2>13, <2>14, <2>15
<1>. QED  BY <1>2, <1>3

-------------------------------------------------------------------------------
(***************************************************************************)
(* Sorting and updating: whatever the state before, the channel is current *)
(* after it, and what is kept is kept.                                     *)
(***************************************************************************)
LEMMA ChannelFields ==
    ASSUME NEW st \in State
    PROVE  /\ st.ch \in Channel /\ st.cn \in [Conn -> Connection]
           /\ st.ch.sorted \in Seq(Conn) /\ st.ch.selected \in Conn \cup {None}
           /\ st.ch.preferred \in Conn \cup {None} /\ Live(st) \subseteq Conn
<1>1. /\ st.ch \in Channel /\ st.cn \in [Conn -> Connection]
      /\ st.ch.sorted \in Seq(Conn) /\ st.ch.selected \in Conn \cup {None}
      /\ st.ch.preferred \in Conn \cup {None}
    BY DEF State, Channel
<1>2. Live(st) \subseteq Conn
    BY <1>1, RangeOfSeq DEF Live
<1>. QED  BY <1>1, <1>2

LEMMA UpdatedIs ==
    ASSUME NEW st \in State
    PROVE  LET u == Updated(st) IN
           /\ u \in State /\ u.cn = st.cn /\ Current(u)
           /\ u.ch.sorted = st.ch.sorted /\ u.ch.selected = st.ch.selected
           /\ u.ch.preferred = st.ch.preferred /\ u.ch.unpinged = st.ch.unpinged
           /\ u.ch.pinged = st.ch.pinged /\ u.ch.pinging = st.ch.pinging
<1>. DEFINE w == ActualWritable(st)
            r == ActualReceiving(st)
            st2 == [st EXCEPT !.ch.writable = w, !.ch.hasBeen = @ \/ w, !.ch.receiving = r]
            z == ComputedState(st2, w)
            u == [st2 EXCEPT !.ch.state = z]
<1>1. Updated(st) = u
    BY DEF Updated
<1>2. w \in BOOLEAN /\ r \in BOOLEAN
    BY DEF ActualWritable, ActualReceiving
<1>3. z \in IceState
    BY DEF ComputedState, IceState
<1>. HIDE DEF w, r
<1>4. /\ st2 \in State /\ st2.cn = st.cn /\ st2.ch.had = st.ch.had
      /\ st2.ch.sorted = st.ch.sorted /\ st2.ch.selected = st.ch.selected
      /\ st2.ch.preferred = st.ch.preferred /\ st2.ch.unpinged = st.ch.unpinged
      /\ st2.ch.pinged = st.ch.pinged /\ st2.ch.pinging = st.ch.pinging
      /\ st2.ch.writable = w /\ st2.ch.receiving = r
    BY <1>2 DEF State, Channel
<1>. HIDE DEF z, st2
<1>5. /\ u \in State /\ u.cn = st2.cn /\ u.ch.had = st2.ch.had /\ u.ch.hasBeen = st2.ch.hasBeen
      /\ u.ch.sorted = st2.ch.sorted /\ u.ch.selected = st2.ch.selected
      /\ u.ch.preferred = st2.ch.preferred /\ u.ch.unpinged = st2.ch.unpinged
      /\ u.ch.pinged = st2.ch.pinged /\ u.ch.pinging = st2.ch.pinging
      /\ u.ch.writable = w /\ u.ch.receiving = r /\ u.ch.state = z
    BY <1>3, <1>4 DEF State, Channel
<1>. HIDE DEF u
<1>6. ActualWritable(u) = w /\ ActualReceiving(u) = r
    BY <1>4, <1>5 DEF ActualWritable, ActualReceiving, Live, w, r
<1>7. ComputedState(u, w) = z
    BY <1>5 DEF ComputedState, Live, z
<1>. QED  BY <1>1, <1>4, <1>5, <1>6, <1>7 DEF Current

LEMMA UpdatedKeeps ==
    ASSUME NEW st, Kept(st)
    PROVE  /\ Kept(Updated(st)) /\ Current(Updated(st))
           /\ FirstReady(st) => FirstReady(Updated(st))
           /\ Started(st) => Started(Updated(st))
<1>. DEFINE u == Updated(st)
<1>1. /\ u \in State /\ u.cn = st.cn /\ Current(u)
      /\ u.ch.sorted = st.ch.sorted /\ u.ch.selected = st.ch.selected
      /\ u.ch.preferred = st.ch.preferred /\ u.ch.unpinged = st.ch.unpinged
      /\ u.ch.pinged = st.ch.pinged /\ u.ch.pinging = st.ch.pinging
    BY UpdatedIs DEF Kept
<1>. HIDE DEF u
<1>2. Kept(u)
    BY <1>1 DEF Kept, Listed, Agrees, Rounds, BeforePings, Live
<1>. QED  BY <1>1, <1>2 DEF u, FirstReady, Started, Live, ReadyToSend

\* The controller's list is sorted, and the best connection selected.
LEMMA SwitchedKeeps ==
    ASSUME NEW st, Kept(st)
    PROVE  LET sorted == [st EXCEPT !.ch.sorted = Sorted(st)]
               top == Switch(sorted)
               switched == IF top = None THEN sorted
                           ELSE [sorted EXCEPT !.ch.selected = top, !.ch.preferred = top]
           IN /\ Kept(switched) /\ FirstReady(switched)
              /\ switched.cn = st.cn /\ switched.ch.pinging = st.ch.pinging
              /\ Live(switched) = Live(st)
<1>. DEFINE sorted == [st EXCEPT !.ch.sorted = Sorted(st)]
            top == Switch(sorted)
            t == Sorted(st)
<1>0. st \in State
    BY DEF Kept
<1>1. /\ t \in Seq(Conn) /\ Range(t) = Live(st) /\ Distinct(t)
      /\ t # <<>> => Head(t) \in Live(st) /\ \A c \in Live(st) : ~Better(st, c, Head(t))
    BY <1>0, SortedIs DEF Kept, Listed, Live
<1>. HIDE DEF t
<1>2. /\ sorted \in State /\ sorted.cn = st.cn /\ sorted.ch.sorted = t
      /\ sorted.ch.selected = st.ch.selected /\ sorted.ch.preferred = st.ch.preferred
      /\ sorted.ch.unpinged = st.ch.unpinged /\ sorted.ch.pinged = st.ch.pinged
      /\ sorted.ch.pinging = st.ch.pinging
    BY <1>0, <1>1 DEF State, Channel, t
<1>. HIDE DEF sorted
<1>3. Live(sorted) = Live(st) /\ Live(st) \subseteq Conn
    BY <1>0, <1>1, <1>2, ChannelFields DEF Live
<1>4. Kept(sorted)
    BY <1>1, <1>2, <1>3 DEF Kept, Listed, Agrees, Rounds, BeforePings
<1>5. top # None => top = Head(t) /\ t # <<>> /\ ReadyToSend(sorted, top)
    BY <1>2 DEF Switch, ReadyToSend
<1>6. ASSUME top = None, sorted.ch.preferred = None, NEW c \in Live(sorted) PROVE ~ReadyToSend(sorted, c)
    <2>1. t # <<>>
        BY <1>1, <1>3, <1>6 DEF Range
    <2>2. Head(t) \in Live(st) /\ ~Better(st, c, Head(t)) /\ Head(t) # None
        BY <1>1, <1>3, <1>6, <2>1, NoneAssumption
    <2>3. ~ReadyToSend(sorted, Head(t))
        BY <1>2, <1>6, <2>1, <2>2 DEF Switch
    <2>4. st.cn[Head(t)].write \notin {Writable, Unreliable}
        BY <1>2, <2>2, <2>3 DEF ReadyToSend
    <2>5. c \in Conn /\ Head(t) \in Conn /\ st.cn[c].write \in 0 .. 3 /\ st.cn[Head(t)].write \in 0 .. 3
        BY <1>0, <1>3, <1>6, <2>2 DEF State, Connection
    <2>6. ~(st.cn[c].write < st.cn[Head(t)].write)
        BY <2>2, <2>5 DEF Better
    <2>. QED  BY <1>2, <2>4, <2>5, <2>6 DEF ReadyToSend, Writable, Unreliable
<1>7. CASE top = None
    BY <1>2, <1>3, <1>4, <1>6, <1>7 DEF FirstReady, sorted
<1>8. CASE top # None
    <2>. DEFINE sw == [sorted EXCEPT !.ch.selected = top, !.ch.preferred = top]
    <2>1. top \in Live(st) /\ top \in Conn /\ ReadyToSend(sorted, top)
        BY <1>1, <1>3, <1>5, <1>8
    <2>. HIDE DEF top
    <2>2. /\ sw \in State /\ sw.cn = st.cn /\ sw.ch.sorted = t
          /\ sw.ch.selected = top /\ sw.ch.preferred = top
          /\ sw.ch.unpinged = st.ch.unpinged /\ sw.ch.pinged = st.ch.pinged
          /\ sw.ch.pinging = st.ch.pinging
        BY <1>2, <2>1 DEF State, Channel
    <2>. HIDE DEF sw
    <2>3. st.cn[top].status = "live"
        BY <2>1 DEF Kept, Listed
    <2>4. st.ch.pinging
        <3>1. ~Quiet(st.cn[top])
            BY <1>2, <2>1 DEF ReadyToSend, Quiet, Writable, Unreliable, WriteInit
        <3>. QED  BY <2>1, <3>1 DEF Kept, BeforePings
    <2>5. Live(sw) = Live(st)
        BY <1>1, <2>2 DEF Live
    <2>6. Kept(sw)
        BY <1>1, <2>2, <2>3, <2>4, <2>5 DEF Kept, Listed, Agrees, Rounds, BeforePings
    <2>7. FirstReady(sw)
        BY <1>8, <2>2 DEF FirstReady
    <2>. QED  BY <1>8, <2>2, <2>5, <2>6, <2>7 DEF sw, sorted, top, t
<1>. QED  BY <1>7, <1>8

LEMMA ResortedIsGood ==
    ASSUME NEW st, Kept(st)
    PROVE  /\ Good(Resorted(st)) /\ Resorted(st).cn = st.cn /\ Live(Resorted(st)) = Live(st)
           /\ st.ch.pinging => Resorted(st).ch.pinging
<1>. DEFINE sorted == [st EXCEPT !.ch.sorted = Sorted(st)]
            top == Switch(sorted)
            switched == IF top = None THEN sorted
                        ELSE [sorted EXCEPT !.ch.selected = top, !.ch.preferred = top]
            u == Updated(switched)
            ready == \E c \in Live(u) : u.cn[c].password = "known" /\ Weak(u)
            end == [u EXCEPT !.ch.pinging = @ \/ ready]
<1>1. Resorted(st) = end
    BY DEF Resorted
<1>2. /\ Kept(switched) /\ FirstReady(switched) /\ switched.cn = st.cn
      /\ switched.ch.pinging = st.ch.pinging /\ Live(switched) = Live(st)
    BY SwitchedKeeps
<1>. HIDE DEF switched
<1>3. Kept(u) /\ Current(u) /\ FirstReady(u) /\ u \in State /\ u.ch \in Channel
    BY <1>2, UpdatedKeeps, ChannelFields DEF Kept
<1>4. u.cn = st.cn /\ u.ch.pinging = st.ch.pinging /\ Live(u) = Live(st)
    BY <1>2, UpdatedIs DEF Kept, Live
<1>. HIDE DEF u
<1>5. ready \in BOOLEAN
    OBVIOUS
<1>. HIDE DEF ready
<1>6. /\ end \in State /\ end.cn = u.cn /\ end.ch.sorted = u.ch.sorted /\ end.ch.selected = u.ch.selected
      /\ end.ch.preferred = u.ch.preferred /\ end.ch.unpinged = u.ch.unpinged /\ end.ch.pinged = u.ch.pinged
      /\ end.ch.writable = u.ch.writable /\ end.ch.receiving = u.ch.receiving /\ end.ch.state = u.ch.state
      /\ end.ch.had = u.ch.had /\ end.ch.hasBeen = u.ch.hasBeen
      /\ end.ch.pinging = (u.ch.pinging \/ ready)
    BY <1>3, <1>5 DEF State, Channel
<1>. HIDE DEF end
<1>7. Live(end) = Live(u)
    BY <1>6 DEF Live
<1>8. Kept(end)
    BY <1>3, <1>6, <1>7 DEF Kept, Listed, Agrees, Rounds, BeforePings
<1>9. Current(end)
    BY <1>3, <1>6, <1>7 DEF Current, ActualWritable, ActualReceiving, ComputedState
<1>10. FirstReady(end)
    BY <1>3, <1>6, <1>7 DEF FirstReady, ReadyToSend
<1>11. Started(end)
    <2>. SUFFICES ASSUME NEW c \in Live(end), end.cn[c].password = "known", ~u.ch.pinging PROVE ready
        BY <1>6 DEF Started
    <2>1. u.ch.preferred = None
        BY <1>3 DEF Kept, BeforePings
    <2>2. Weak(u)
        BY <2>1 DEF Weak
    <2>. QED  BY <1>6, <1>7, <2>2 DEF ready
<1>. QED  BY <1>1, <1>4, <1>6, <1>7, <1>8, <1>9, <1>10, <1>11 DEF Good

-------------------------------------------------------------------------------
(***************************************************************************)
(* The calls of which the callbacks are made, once the ping timer runs.    *)
(***************************************************************************)
Pinging(st) == Good(st) /\ st.ch.pinging

\* A connection has changed, but is there as before;
LEMMA ConnChanges ==
    ASSUME NEW st, Pinging(st), NEW x \in State, x.ch = st.ch,
           \A d \in Conn : x.cn[d].status = st.cn[d].status
    PROVE  Kept(x)
BY ChannelFields DEF Pinging, Good, Kept, Listed, Agrees, Rounds, BeforePings, Live

\* and neither its write state nor whether it receives.
LEMMA QuietChange ==
    ASSUME NEW st, Pinging(st), NEW x \in State, x.ch = st.ch,
           \A d \in Conn : /\ x.cn[d].status = st.cn[d].status /\ x.cn[d].write = st.cn[d].write
                           /\ x.cn[d].receiving = st.cn[d].receiving
    PROVE  Pinging(x)
<1>1. Kept(x)
    BY ConnChanges
<1>2. st \in State /\ Live(x) = Live(st) /\ Live(st) \subseteq Conn /\ st.ch.selected \in Conn \cup {None}
    BY ChannelFields DEF Pinging, Good, Kept, Live
<1>3. ActualWritable(x) = ActualWritable(st)
    BY <1>2 DEF ActualWritable
<1>4. ActualReceiving(x) = ActualReceiving(st)
    BY <1>2 DEF ActualReceiving
<1>5. ComputedState(x, st.ch.writable) = ComputedState(st, st.ch.writable)
    BY <1>2 DEF ComputedState
<1>6. Current(x)
    BY <1>3, <1>4, <1>5 DEF Current, Pinging, Good
<1>7. FirstReady(x)
    BY <1>2 DEF FirstReady, ReadyToSend, Pinging, Good
<1>. QED  BY <1>1, <1>6, <1>7 DEF Pinging, Good, Started

LEMMA SetWriteStateIsGood ==
    ASSUME NEW st, Pinging(st), NEW c \in Conn, NEW w \in 0 .. 3
    PROVE  Pinging(SetWriteState(st, c, w))
<1>. DEFINE x == [st EXCEPT !.cn[c].write = w]
<1>1. CASE st.cn[c].write = w
    BY <1>1 DEF SetWriteState
<1>2. CASE st.cn[c].write # w
    <2>1. st \in State
        BY DEF Pinging, Good, Kept
    <2>2. x \in State /\ x.ch = st.ch /\ \A d \in Conn : x.cn[d].status = st.cn[d].status
        BY <2>1 DEF State, Connection
    <2>3. SetWriteState(st, c, w) = Resorted(x)
        BY <1>2 DEF SetWriteState
    <2>. HIDE DEF x
    <2>4. Kept(x) /\ x.ch.pinging
        BY <2>2, ConnChanges DEF Pinging
    <2>. QED  BY <2>3, <2>4, ResortedIsGood DEF Pinging
<1>. QED  BY <1>1, <1>2

LEMMA SetReceivingIsGood ==
    ASSUME NEW st, Pinging(st), NEW c \in Conn, NEW r \in BOOLEAN
    PROVE  Pinging(SetReceiving(st, c, r))
<1>. DEFINE x == [st EXCEPT !.cn[c].receiving = r]
<1>1. CASE st.cn[c].receiving = r
    BY <1>1 DEF SetReceiving
<1>2. CASE st.cn[c].receiving # r
    <2>1. st \in State
        BY DEF Pinging, Good, Kept
    <2>2. x \in State /\ x.ch = st.ch /\ \A d \in Conn : x.cn[d].status = st.cn[d].status
        BY <2>1 DEF State, Connection
    <2>3. SetReceiving(st, c, r) = Resorted(x)
        BY <1>2 DEF SetReceiving
    <2>. HIDE DEF x
    <2>4. Kept(x) /\ x.ch.pinging
        BY <2>2, ConnChanges DEF Pinging
    <2>. QED  BY <2>3, <2>4, ResortedIsGood DEF Pinging
<1>. QED  BY <1>1, <1>2

LEMMA AgedIsGood ==
    ASSUME NEW st, Pinging(st), NEW c \in Conn, NEW elapsed, NEW lapsed
    PROVE  Pinging(Aged(st, c, elapsed, lapsed))
<1>. DEFINE st1 == IF /\ st.cn[c].write = Writable
                      /\ st.cn[c].unanswered >= ConnectFails /\ elapsed >= 1
                   THEN SetWriteState(st, c, Unreliable) ELSE st
            st2 == IF /\ st1.cn[c].write \in {Unreliable, WriteInit}
                      /\ st1.cn[c].unanswered > 0 /\ elapsed = 2
                   THEN SetWriteState(st1, c, WriteTimeout) ELSE st1
            heard == st2.cn[c].rtt # InitialRtt
            r == heard /\ \/ st2.cn[c].unanswered = 0
                          \/ st2.cn[c].receiving /\ ~lapsed
<1>1. Aged(st, c, elapsed, lapsed) = SetReceiving(st2, c, r)
    BY DEF Aged
<1>2. Unreliable \in 0 .. 3 /\ WriteTimeout \in 0 .. 3
    BY DEF Unreliable, WriteTimeout
<1>3. Pinging(st1)
    BY <1>2, SetWriteStateIsGood
<1>. HIDE DEF st1
<1>4. Pinging(st2)
    BY <1>2, <1>3, SetWriteStateIsGood
<1>. HIDE DEF st2
<1>5. r \in BOOLEAN
    OBVIOUS
<1>. HIDE DEF r
<1>. QED  BY <1>1, <1>4, <1>5, SetReceivingIsGood

LEMMA LeastNumber ==
    ASSUME NEW S, S \subseteq Nat, S # {}
    PROVE  \E n \in S : \A m \in S : n <= m
<1>1. PICK n \in S : \A m \in S : <<m, n>> \notin OpToRel(<, Nat)
    BY NatLessThanWellFounded, WFMin
<1>2. \A m \in S : ~(m < n)
    BY <1>1 DEF OpToRel
<1>3. ASSUME NEW m \in S PROVE n <= m
    <2>1. m \in Nat /\ n \in Nat /\ ~(m < n)
        BY <1>2
    <2>. QED  BY <2>1
<1>. QED  BY <1>3

\* The states along the list exist and are all good: there is no first that is not.
LEMMA AllAgedIsGood ==
    ASSUME NEW st, Pinging(st), NEW list \in Seq(Conn), NEW elapsed, NEW lapsed
    PROVE  Pinging(AllAged(st, list, elapsed, lapsed))
<1>. DEFINE step(x, n) == Aged(x, list[n], elapsed[list[n]], lapsed[list[n]])
            is(f, k) == f = [n \in 0 .. k |-> IF n = 0 THEN st ELSE step(f[n - 1], n)]
            after == CHOOSE f : is(f, Len(list))
<1>1. AllAged(st, list, elapsed, lapsed) = after[Len(list)]
    BY DEF AllAged
<1>2. Len(list) \in Nat /\ \A n \in 1 .. Len(list) : list[n] \in Conn
    BY LenProperties
<1>3. \A n \in 1 .. Len(list) : \A x : Pinging(x) => Pinging(step(x, n))
    BY <1>2, AgedIsGood
<1>. HIDE DEF step
<1>4. \A k \in Nat : \E f : is(f, k)
    <2>. DEFINE S == {k \in Nat : ~\E f : is(f, k)}
    <2>. SUFFICES ASSUME S # {} PROVE FALSE
        OBVIOUS
    <2>1. PICK k \in S : \A m \in S : k <= m
        BY LeastNumber
    <2>2. CASE k = 0
        <3>. DEFINE f == [n \in 0 .. 0 |-> st]
        <3>1. ASSUME NEW n \in 0 .. 0 PROVE f[n] = IF n = 0 THEN st ELSE step(f[n - 1], n)
            OBVIOUS
        <3>2. f = [n \in 0 .. 0 |-> f[n]]
            OBVIOUS
        <3>. HIDE DEF f
        <3>3. is(f, 0)
            BY <3>1, <3>2
        <3>. QED  BY <2>1, <2>2, <3>3
    <2>3. CASE k # 0
        <3>1. k \in Nat /\ k - 1 \in Nat /\ k - 1 \notin S
            BY <2>1, <2>3, SMTT(30)
        <3>2. PICK g : is(g, k - 1)
            BY <3>1
        <3>. DEFINE f == [n \in 0 .. k |-> IF n = k THEN step(g[k - 1], k) ELSE g[n]]
        <3>3. \A n \in 0 .. k - 1 : g[n] = IF n = 0 THEN st ELSE step(g[n - 1], n)
            BY <3>2
        <3>4. ASSUME NEW n \in 0 .. k PROVE f[n] = IF n = 0 THEN st ELSE step(f[n - 1], n)
            <4>1. CASE n = 0
                BY <2>3, <3>1, <3>3, <4>1
            <4>2. CASE n # 0 /\ n # k
                <5>1. n \in 0 .. k - 1 /\ n - 1 \in 0 .. k /\ n - 1 # k
                    BY <3>1, <4>2
                <5>2. f[n] = g[n] /\ f[n - 1] = g[n - 1]
                    BY <4>2, <5>1
                <5>. QED  BY <3>3, <4>2, <5>1, <5>2
            <4>3. CASE n = k
                <5>1. n - 1 \in 0 .. k /\ n - 1 # k
                    BY <2>3, <3>1, <4>3
                <5>2. f[n - 1] = g[k - 1] /\ f[n] = step(g[k - 1], k)
                    BY <4>3, <5>1
                <5>. QED  BY <2>3, <4>3, <5>2
            <4>. QED  BY <4>1, <4>2, <4>3
        <3>5. f = [n \in 0 .. k |-> f[n]]
            OBVIOUS
        <3>. HIDE DEF f
        <3>6. is(f, k)
            BY <3>4, <3>5
        <3>. QED  BY <2>1, <3>6
    <2>. QED  BY <2>2, <2>3
<1>5. is(after, Len(list))
    BY <1>2, <1>4
<1>. HIDE DEF after
<1>6. \A n \in 0 .. Len(list) : after[n] = IF n = 0 THEN st ELSE step(after[n - 1], n)
    BY <1>5
<1>. HIDE DEF is
<1>7. \A n \in 0 .. Len(list) : Pinging(after[n])
    <2>. DEFINE S == {n \in 0 .. Len(list) : ~Pinging(after[n])}
    <2>. SUFFICES ASSUME S # {} PROVE FALSE
        OBVIOUS
    <2>1. S \subseteq Nat
        BY <1>2
    <2>2. PICK n \in S : \A m \in S : n <= m
        BY <2>1, LeastNumber
    <2>3. n # 0
        BY <1>2, <1>6, <2>2
    <2>4. n \in 1 .. Len(list) /\ n - 1 \in 0 .. Len(list) /\ ~(n <= n - 1)
        BY <1>2, <2>2, <2>3
    <2>5. Pinging(after[n - 1])
        BY <2>2, <2>4
    <2>6. Pinging(after[n])
        BY <1>3, <1>6, <2>3, <2>4, <2>5
    <2>. QED  BY <2>2, <2>6
<1>. QED  BY <1>1, <1>2, <1>7

LEMMA DestroyedIsGood ==
    ASSUME NEW st, Pinging(st), NEW c \in Conn
    PROVE  Pinging(Destroyed(st, c))
<1>. DEFINE ch == [st.ch EXCEPT !.sorted = Erased(@, c), !.pinged = @ \ {c}, !.unpinged = @ \ {c}]
            cn == [st.cn EXCEPT ![c].status = "destroyed"]
            x == [ch |-> ch, cn |-> cn]
            y == [x EXCEPT !.ch.selected = None]
            e == Erased(st.ch.sorted, c)
<1>1. /\ st \in State /\ Listed(st) /\ Agrees(st) /\ Rounds(st) /\ BeforePings(st) /\ FirstReady(st)
      /\ Started(st) /\ st.ch.pinging
    BY DEF Pinging, Good, Kept
<1>2. e \in Seq(Conn) /\ Distinct(e) /\ Range(e) = Live(st) \ {c} /\ Live(st) \subseteq Conn
    BY <1>1, ErasedIs, ChannelFields DEF Listed, Live
<1>. HIDE DEF e
<1>3. /\ ch \in Channel /\ ch.sorted = e /\ ch.pinged = st.ch.pinged \ {c}
      /\ ch.unpinged = st.ch.unpinged \ {c} /\ ch.selected = st.ch.selected
      /\ ch.preferred = st.ch.preferred /\ ch.pinging = st.ch.pinging
    BY <1>1, <1>2 DEF State, Channel, e
<1>4. /\ cn \in [Conn -> Connection] /\ cn[c].status = "destroyed" /\ cn[c].write = st.cn[c].write
      /\ \A d \in Conn \ {c} : cn[d] = st.cn[d]
    BY <1>1 DEF State, Connection, ConnStatus
<1>. HIDE DEF ch, cn
<1>5. /\ x \in State /\ x.ch.sorted = e /\ x.ch.pinged = st.ch.pinged \ {c}
      /\ x.ch.unpinged = st.ch.unpinged \ {c} /\ x.ch.selected = st.ch.selected
      /\ x.ch.preferred = st.ch.preferred /\ x.ch.pinging = st.ch.pinging
      /\ x.cn[c].status = "destroyed" /\ x.cn[c].write = st.cn[c].write
      /\ \A d \in Conn \ {c} : x.cn[d] = st.cn[d]
      /\ \A d \in Conn : x.cn[d].write = st.cn[d].write
    BY <1>3, <1>4 DEF State
<1>6. Destroyed(st, c) = IF st.ch.selected = c THEN Resorted(y) ELSE Updated(x)
    BY <1>3 DEF Destroyed, ch, cn
<1>. HIDE DEF x
<1>7. Live(x) = Live(st) \ {c}
    BY <1>2, <1>5 DEF Live
<1>8. Listed(x)
    BY <1>1, <1>2, <1>5, <1>7 DEF Listed
<1>9. Rounds(x)
    BY <1>1, <1>2, <1>5, <1>7 DEF Rounds
<1>10. CASE st.ch.selected = c
    <2>1. /\ y \in State /\ y.cn = x.cn /\ y.ch.sorted = x.ch.sorted /\ y.ch.pinged = x.ch.pinged
          /\ y.ch.unpinged = x.ch.unpinged /\ y.ch.selected = None
          /\ y.ch.preferred = x.ch.preferred /\ y.ch.pinging = x.ch.pinging
        BY <1>5 DEF State, Channel
    <2>. HIDE DEF y
    <2>2. Kept(y) /\ y.ch.pinging
        BY <1>1, <1>5, <1>8, <1>9, <2>1 DEF Kept, Listed, Rounds, Agrees, BeforePings, Live
    <2>. QED  BY <1>6, <1>10, <2>2, ResortedIsGood DEF Pinging
<1>11. CASE st.ch.selected # c
    <2>1. Agrees(x)
        BY <1>1, <1>5, <1>11, ChannelFields DEF Agrees
    <2>2. Kept(x)
        BY <1>1, <1>5, <1>8, <1>9, <2>1 DEF Kept, BeforePings
    <2>3. Started(x)
        BY <1>1, <1>5 DEF Started
    <2>4. FirstReady(x)
        BY <1>1, <1>2, <1>5, <1>7 DEF FirstReady, ReadyToSend
    <2>5. Updated(x).ch.pinging
        BY <1>1, <1>5, UpdatedIs
    <2>. QED  BY <1>6, <1>11, <2>2, <2>3, <2>4, <2>5, UpdatedKeeps DEF Pinging, Good
<1>. QED  BY <1>10, <1>11

\* The scheduler's sets change, and what was pinged in the round is left out of it.
LEMMA RoundChanges ==
    ASSUME NEW st, Pinging(st), NEW p \in SUBSET Conn, NEW u \in SUBSET Conn,
           Rounds([st EXCEPT !.ch.pinged = p, !.ch.unpinged = u])
    PROVE  Pinging([st EXCEPT !.ch.pinged = p, !.ch.unpinged = u])
<1>. DEFINE x == [st EXCEPT !.ch.pinged = p, !.ch.unpinged = u]
<1>1. st \in State
    BY DEF Pinging, Good, Kept
<1>2. /\ x \in State /\ x.cn = st.cn /\ x.ch.sorted = st.ch.sorted /\ x.ch.selected = st.ch.selected
      /\ x.ch.preferred = st.ch.preferred /\ x.ch.pinging = st.ch.pinging
      /\ x.ch.writable = st.ch.writable /\ x.ch.receiving = st.ch.receiving /\ x.ch.state = st.ch.state
      /\ x.ch.had = st.ch.had /\ x.ch.hasBeen = st.ch.hasBeen
    BY <1>1 DEF State, Channel
<1>. HIDE DEF x
<1>3. Live(x) = Live(st)
    BY <1>2 DEF Live
<1>4. Rounds(x)
    BY DEF x
<1>5. Kept(x)
    BY <1>2, <1>3, <1>4 DEF Pinging, Good, Kept, Listed, Agrees, BeforePings
<1>6. Current(x)
    BY <1>2, <1>3 DEF Pinging, Good, Current, ActualWritable, ActualReceiving, ComputedState
<1>7. Started(x) /\ FirstReady(x)
    BY <1>2, <1>3 DEF Pinging, Good, Started, FirstReady, ReadyToSend
<1>. QED  BY <1>2, <1>5, <1>6, <1>7 DEF x, Pinging, Good

LEMMA PingedIsGood ==
    ASSUME NEW st, Pinging(st), NEW c \in Conn, st.cn[c].status # "none"
    PROVE  Pinging(Pinged(st, c))
<1>. DEFINE sent == [st EXCEPT !.cn[c].unanswered = IF @ < ConnectFails THEN @ + 1 ELSE @,
                               !.cn[c].open = IF @ < 2 THEN @ + 1 ELSE @]
            marked == [sent EXCEPT !.ch.pinged = @ \cup {c}, !.ch.unpinged = @ \ {c}]
<1>1. st \in State
    BY DEF Pinging, Good, Kept
<1>2. /\ sent \in State /\ sent.ch = st.ch
      /\ \A d \in Conn : /\ sent.cn[d].status = st.cn[d].status /\ sent.cn[d].write = st.cn[d].write
                         /\ sent.cn[d].receiving = st.cn[d].receiving
    <2>. DEFINE q == IF st.cn[c].unanswered < ConnectFails THEN st.cn[c].unanswered + 1 ELSE st.cn[c].unanswered
                o == IF st.cn[c].open < 2 THEN st.cn[c].open + 1 ELSE st.cn[c].open
    <2>1. st.cn[c].unanswered \in 0 .. ConnectFails /\ st.cn[c].open \in 0 .. 2 /\ ConnectFails \in Nat
        BY <1>1, RttAssumption DEF State, Connection
    <2>2. q \in 0 .. ConnectFails /\ o \in 0 .. 2
        BY <2>1
    <2>3. sent = [st EXCEPT !.cn[c].unanswered = q, !.cn[c].open = o]
        BY <1>1 DEF State
    <2>. HIDE DEF q, o, sent
    <2>. DEFINE cn == [st.cn EXCEPT ![c].unanswered = q, ![c].open = o]
    <2>4. sent = [ch |-> st.ch, cn |-> cn]
        BY <1>1, <2>3 DEF State
    <2>5. cn = [st.cn EXCEPT ![c] = [st.cn[c] EXCEPT !.unanswered = q, !.open = o]]
        BY <1>1 DEF State, Connection
    <2>6. [st.cn[c] EXCEPT !.unanswered = q, !.open = o] \in Connection
        BY <1>1, <2>2 DEF State, Connection
    <2>7. /\ cn \in [Conn -> Connection]
          /\ \A d \in Conn : /\ cn[d].status = st.cn[d].status /\ cn[d].write = st.cn[d].write
                             /\ cn[d].receiving = st.cn[d].receiving
        BY <1>1, <2>5, <2>6 DEF State, Connection
    <2>. HIDE DEF cn
    <2>. QED  BY <1>1, <2>4, <2>7 DEF State
<1>3. Pinged(st, c) = IF c \in sent.ch.pinged THEN sent ELSE marked
    BY DEF Pinged
<1>. HIDE DEF sent
<1>4. Pinging(sent)
    BY <1>2, QuietChange
<1>5. CASE c \notin sent.ch.pinged
    <2>. DEFINE p == sent.ch.pinged \cup {c}
                u == sent.ch.unpinged \ {c}
                x == [sent EXCEPT !.ch.pinged = p, !.ch.unpinged = u]
    <2>1. p \in SUBSET Conn /\ u \in SUBSET Conn
        BY <1>2 DEF State, Channel
    <2>2. marked = x
        OBVIOUS
    <2>. HIDE DEF p, u
    <2>3. x.ch.pinged = p /\ x.ch.unpinged = u /\ x.cn = sent.cn /\ x.ch.sorted = sent.ch.sorted
          /\ x.ch.preferred = sent.ch.preferred
        BY <1>2, <2>1 DEF State, Channel
    <2>4. Rounds(sent) /\ sent.cn[c].status # "none"
        BY <1>2, <1>4 DEF Pinging, Good, Kept
    <2>. HIDE DEF x
    <2>5. Rounds(x)
        BY <2>3, <2>4 DEF Rounds, Live, p, u
    <2>6. Pinging(x)
        BY <1>4, <2>1, <2>5, RoundChanges DEF x
    <2>. QED  BY <1>3, <1>5, <2>2, <2>6
<1>. QED  BY <1>3, <1>4, <1>5

LEMMA RefilledIsGood ==
    ASSUME NEW st, Pinging(st), NEW due
    PROVE  Pinging(Refilled(st, due)) /\ Refilled(st, due).cn = st.cn
<1>. DEFINE x == [st EXCEPT !.ch.unpinged = @ \cup st.ch.pinged, !.ch.pinged = {}]
            u == st.ch.unpinged \cup st.ch.pinged
            y == [st EXCEPT !.ch.pinged = {}, !.ch.unpinged = u]
<1>1. st \in State /\ Rounds(st)
    BY DEF Pinging, Good, Kept
<1>2. u \in SUBSET Conn
    BY <1>1 DEF State, Channel
<1>3. x = y
    BY <1>1 DEF State, Channel
<1>. HIDE DEF u
<1>4. y.ch.pinged = {} /\ y.ch.unpinged = u /\ y.cn = st.cn /\ y.ch.sorted = st.ch.sorted
      /\ y.ch.preferred = st.ch.preferred
    BY <1>1, <1>2 DEF State, Channel
<1>5. Refilled(st, due) \in {st, x}
    BY DEF Refilled
<1>. HIDE DEF x, y
<1>6. Rounds(y)
    BY <1>1, <1>4 DEF Rounds, Live, u
<1>7. Pinging(y)
    BY <1>2, <1>6, RoundChanges DEF y
<1>. QED  BY <1>3, <1>4, <1>5, <1>7

LEMMA AfterPingIsGood ==
    ASSUME NEW st, Pinging(st), NEW due, NEW end \in AfterPing(st, due)
    PROVE  Pinging(end)
<1>. DEFINE best == st.ch.preferred
            round == Refilled(st, due)
<1>1. Pinging(round) /\ round \in State /\ Rounds(round) /\ Rounds(st) /\ st \in State
    BY RefilledIsGood DEF Pinging, Good, Kept
<1>. HIDE DEF round
<1>2. \/ best # None /\ end = Pinged(st, best)
      \/ end = round
      \/ \E c \in round.ch.unpinged : end = Pinged(round, c)
    BY DEF AfterPing, round
<1>3. CASE best # None /\ end = Pinged(st, best)
    <2>1. best \in Conn /\ st.cn[best].status # "none"
        BY <1>1, <1>3, ChannelFields DEF Rounds
    <2>. QED  BY <1>3, <2>1, PingedIsGood
<1>4. ASSUME NEW c \in round.ch.unpinged, end = Pinged(round, c) PROVE Pinging(end)
    <2>1. c \in Conn /\ round.cn[c].status # "none"
        BY <1>1 DEF Rounds, State, Channel
    <2>. QED  BY <1>1, <1>4, <2>1, PingedIsGood
<1>. QED  BY <1>1, <1>2, <1>3, <1>4

\* A request that is answered is forgotten, or was not the last.
LEMMA ClosedIsGood ==
    ASSUME NEW st, Pinging(st), NEW c \in Conn, NEW x \in Closed(st, c)
    PROVE  Pinging(x)
<1>1. st \in State
    BY DEF Pinging, Good, Kept
<1>2. PICK n \in 0 .. 2 : x = [st EXCEPT !.cn[c].open = n]
    BY DEF Closed
<1>3. /\ x \in State /\ x.ch = st.ch
      /\ \A d \in Conn : /\ x.cn[d].status = st.cn[d].status /\ x.cn[d].write = st.cn[d].write
                         /\ x.cn[d].receiving = st.cn[d].receiving
    BY <1>1, <1>2, SMTT(30) DEF State, Connection
<1>. QED  BY <1>3, QuietChange

-------------------------------------------------------------------------------
(* The callbacks *)

LEMMA BecomesGood ==
    ASSUME NEW st, Good(st), Becomes(st)
    PROVE  Good(now)'
<1>1. st = [ch |-> st.ch, cn |-> st.cn]
    BY DEF Good, Kept, State
<1>2. [ch |-> channel', cn |-> conns'] = st
    BY <1>1 DEF Becomes
<1>3. Good([ch |-> channel', cn |-> conns'])
    BY <1>2
<1>. QED  BY <1>3 DEF now

\* Nobody has been pinged before the timer runs.
LEMMA OpenIsPinging ==
    ASSUME Good(now), NEW c \in Conn, conns[c].open > 0
    PROVE  Pinging(now)
BY DEF Pinging, Good, Kept, BeforePings, Quiet, now

LEMMA OnUnknownAddressGood ==
    ASSUME Good(now), NEW c \in Conn, OnUnknownAddress(c)
    PROVE  Good(now)'
<1>1. PICK p \in {"known", "awaited", "never"} :
        Becomes(Resorted(
          [ch |-> [channel EXCEPT !.sorted = Append(@, c), !.had = TRUE, !.unpinged = @ \cup {c}],
           cn |-> [conns EXCEPT ![c].status = "live", ![c].password = p]]))
    BY DEF OnUnknownAddress
<1>. DEFINE ch == [channel EXCEPT !.sorted = Append(@, c), !.had = TRUE, !.unpinged = @ \cup {c}]
            cn == [conns EXCEPT ![c].status = "live", ![c].password = p]
            x == [ch |-> ch, cn |-> cn]
            s == channel.sorted
<1>2. /\ channel \in Channel /\ conns \in [Conn -> Connection] /\ conns[c].status = "none" /\ s \in Seq(Conn)
      /\ Listed(now) /\ Agrees(now) /\ Rounds(now) /\ BeforePings(now)
    BY DEF Good, Kept, State, now, Channel, OnUnknownAddress
<1>3. /\ Append(s, c) \in Seq(Conn) /\ Distinct(Append(s, c)) /\ Range(Append(s, c)) = Range(s) \cup {c}
    <2>. DEFINE t == Append(s, c)
                n == Len(s)
    <2>1. n \in Nat /\ DOMAIN s = 1 .. n
        BY <1>2, LenProperties
    <2>2. /\ t \in Seq(Conn) /\ Len(t) = n + 1 /\ t[n + 1] = c /\ \A i \in 1 .. n : t[i] = s[i]
        BY <1>2, AppendProperties
    <2>. HIDE DEF t
    <2>3. DOMAIN t = 1 .. n + 1
        BY <2>2, LenProperties
    <2>4. \A i \in 1 .. n : s[i] # c
        BY <1>2, <2>1 DEF Listed, Live, now, Range
    <2>5. \A i, j \in 1 .. n : s[i] = s[j] => i = j
        BY <1>2, <2>1 DEF Listed, Distinct, now
    <2>6. Distinct(t)
        <3>. SUFFICES ASSUME NEW i \in 1 .. n + 1, NEW j \in 1 .. n + 1, t[i] = t[j] PROVE i = j
            BY <2>3 DEF Distinct
        <3>1. i \in 1 .. n \/ i = n + 1
            BY <2>1
        <3>2. j \in 1 .. n \/ j = n + 1
            BY <2>1
        <3>. QED  BY <2>2, <2>4, <2>5, <3>1, <3>2
    <2>7. \A i \in 1 .. n + 1 : i \in 1 .. n \/ i = n + 1
        BY <2>1
    <2>8. n + 1 \in 1 .. n + 1 /\ \A i \in 1 .. n : i \in 1 .. n + 1
        BY <2>1
    <2>9. Range(t) = Range(s) \cup {c}
        BY <2>1, <2>2, <2>3, <2>7, <2>8, Zenon DEF Range
    <2>. QED  BY <2>2, <2>6, <2>9 DEF t
<1>4. /\ ch \in Channel /\ ch.sorted = Append(s, c) /\ ch.unpinged = channel.unpinged \cup {c}
      /\ ch.pinged = channel.pinged /\ ch.selected = channel.selected
      /\ ch.preferred = channel.preferred /\ ch.pinging = channel.pinging
    BY <1>2, <1>3 DEF Channel
<1>5. /\ cn \in [Conn -> Connection] /\ cn[c].status = "live"
      /\ \A d \in Conn \ {c} : cn[d] = conns[d]
      /\ Quiet(conns[c]) => Quiet(cn[c])
    BY <1>2 DEF Connection, ConnStatus, Quiet
<1>. HIDE DEF ch, cn
<1>6. x \in State /\ x.ch = ch /\ x.cn = cn
    BY <1>4, <1>5 DEF State
<1>. HIDE DEF x
<1>7. Live(x) = Live(now) \cup {c} /\ Live(now) \subseteq Conn
    BY <1>2, <1>3, <1>4, <1>6, RangeOfSeq DEF Live, now
<1>8. Listed(x)
    BY <1>2, <1>3, <1>4, <1>5, <1>6, <1>7 DEF Listed, now
<1>9. Agrees(x)
    BY <1>2, <1>4, <1>5, <1>6 DEF Agrees, now, Channel
<1>10. Rounds(x)
    BY <1>2, <1>4, <1>5, <1>6, <1>7 DEF Rounds, now
<1>11. BeforePings(x)
    BY <1>2, <1>4, <1>5, <1>6 DEF BeforePings, now
<1>12. Good(Resorted(x))
    BY <1>6, <1>8, <1>9, <1>10, <1>11, ResortedIsGood DEF Kept
<1>. QED  BY <1>1, <1>12, BecomesGood DEF x, ch, cn

LEMMA SetRemoteIceParamsGood ==
    ASSUME Good(now), SetRemoteIceParams
    PROVE  Good(now)'
<1>. DEFINE ch == [channel EXCEPT !.answer = TRUE]
            cn == [c \in Conn |-> IF c \in Live(now) /\ conns[c].password = "awaited"
                                  THEN [conns[c] EXCEPT !.password = "known"] ELSE conns[c]]
            x == [ch |-> ch, cn |-> cn]
<1>1. Becomes(Resorted(x))
    BY DEF SetRemoteIceParams
<1>2. /\ channel \in Channel /\ conns \in [Conn -> Connection]
      /\ Listed(now) /\ Agrees(now) /\ Rounds(now) /\ BeforePings(now)
    BY DEF Good, Kept, State, now
<1>3. /\ ch \in Channel /\ ch.sorted = channel.sorted /\ ch.unpinged = channel.unpinged
      /\ ch.pinged = channel.pinged /\ ch.selected = channel.selected
      /\ ch.preferred = channel.preferred /\ ch.pinging = channel.pinging
    BY <1>2 DEF Channel
<1>4. /\ cn \in [Conn -> Connection]
      /\ \A c \in Conn : cn[c].status = conns[c].status /\ (Quiet(conns[c]) => Quiet(cn[c]))
    <2>1. ASSUME NEW c \in Conn
          PROVE  /\ cn[c] \in Connection /\ cn[c].status = conns[c].status
                 /\ Quiet(conns[c]) => Quiet(cn[c])
        BY <1>2 DEF Connection, Quiet
    <2>. QED  BY <2>1
<1>. HIDE DEF ch, cn
<1>5. x \in State /\ x.ch = ch /\ x.cn = cn
    BY <1>3, <1>4 DEF State
<1>. HIDE DEF x
<1>6. Live(x) = Live(now) /\ Live(now) \subseteq Conn
    BY <1>2, <1>3, <1>5, RangeOfSeq DEF Live, now, Channel
<1>7. Kept(x)
    BY <1>2, <1>3, <1>4, <1>5, <1>6 DEF Kept, Listed, Agrees, Rounds, BeforePings, now, Channel
<1>. QED  BY <1>1, <1>7, ResortedIsGood, BecomesGood DEF x, ch, cn

LEMMA OnCheckAndPingGood ==
    ASSUME Good(now), OnCheckAndPing
    PROVE  Good(now)'
<1>1. Pinging(now) /\ channel.sorted \in Seq(Conn)
    BY DEF OnCheckAndPing, Pinging, Good, Kept, State, Channel, now
<1>2. PICK st \in AgedStates : \E end \in {st} \cup UNION {AfterPing(st, due) : due \in SUBSET Conn} : Becomes(end)
    BY DEF OnCheckAndPing
<1>3. Pinging(st)
    <2>1. \E elapsed, lapsed : st = AllAged(now, channel.sorted, elapsed, lapsed)
        BY DEF AgedStates
    <2>. QED  BY <1>1, <2>1, AllAgedIsGood
<1>4. PICK end \in {st} \cup UNION {AfterPing(st, due) : due \in SUBSET Conn} : Becomes(end)
    BY <1>2
<1>5. Pinging(end)
    BY <1>3, <1>4, AfterPingIsGood
<1>. QED  BY <1>4, <1>5, BecomesGood DEF Pinging

LEMMA OnPingResponseGood ==
    ASSUME Good(now), NEW c \in Conn, OnPingResponse(c)
    PROVE  Good(now)'
<1>1. Pinging(now)
    BY OpenIsPinging DEF OnPingResponse
<1>2. PICK rtt \in Rtt, st \in Closed(now, c) :
        LET heard == [st EXCEPT !.cn[c].rtt = rtt, !.cn[c].unanswered = 0]
        IN Becomes(SetWriteState(SetReceiving(heard, c, TRUE), c, Writable))
    BY DEF OnPingResponse
<1>. DEFINE heard == [st EXCEPT !.cn[c].rtt = rtt, !.cn[c].unanswered = 0]
<1>3. Pinging(st) /\ st \in State
    BY <1>1, ClosedIsGood DEF Pinging, Good, Kept
<1>4. /\ heard \in State /\ heard.ch = st.ch
      /\ \A d \in Conn : /\ heard.cn[d].status = st.cn[d].status /\ heard.cn[d].write = st.cn[d].write
                         /\ heard.cn[d].receiving = st.cn[d].receiving
    <2>. DEFINE cn == [st.cn EXCEPT ![c].rtt = rtt, ![c].unanswered = 0]
    <2>0. rtt \in Rtt \cup {InitialRtt} /\ 0 \in 0 .. ConnectFails
        BY RttAssumption
    <2>1. heard = [ch |-> st.ch, cn |-> cn]
        <3>. DEFINE a == [st EXCEPT !.cn[c].rtt = rtt]
        <3>1. heard = [a EXCEPT !.cn[c].unanswered = 0]
            OBVIOUS
        <3>2. a = [ch |-> st.ch, cn |-> [st.cn EXCEPT ![c].rtt = rtt]]
            BY <1>3 DEF State
        <3>. HIDE DEF a, heard
        <3>. QED  BY <1>3, <3>1, <3>2 DEF State
    <2>2. cn = [st.cn EXCEPT ![c] = [st.cn[c] EXCEPT !.rtt = rtt, !.unanswered = 0]]
        BY <1>3 DEF State, Connection
    <2>3. [st.cn[c] EXCEPT !.rtt = rtt, !.unanswered = 0] \in Connection
        BY <1>3, <2>0 DEF State, Connection
    <2>4. /\ cn \in [Conn -> Connection]
          /\ \A d \in Conn : /\ cn[d].status = st.cn[d].status /\ cn[d].write = st.cn[d].write
                             /\ cn[d].receiving = st.cn[d].receiving
        BY <1>3, <2>2, <2>3 DEF State, Connection
    <2>. HIDE DEF cn
    <2>. QED  BY <1>3, <2>1, <2>4 DEF State
<1>5. Becomes(SetWriteState(SetReceiving(heard, c, TRUE), c, Writable))
    BY <1>2
<1>. HIDE DEF heard
<1>6. Pinging(SetReceiving(heard, c, TRUE))
    BY <1>3, <1>4, QuietChange, SetReceivingIsGood
<1>7. Writable \in 0 .. 3
    BY DEF Writable
<1>. QED  BY <1>5, <1>6, <1>7, SetWriteStateIsGood, BecomesGood DEF Pinging

LEMMA OnErrorGood ==
    ASSUME Good(now), NEW c \in Conn, OnFatalError(c) \/ OnTolerableError(c)
    PROVE  Good(now)'
<1>1. Pinging(now)
    BY OpenIsPinging DEF OnFatalError, OnTolerableError
<1>2. PICK st \in Closed(now, c) : Becomes(Destroyed(st, c)) \/ Becomes(st)
    BY DEF OnFatalError, OnTolerableError
<1>3. Pinging(st) /\ Pinging(Destroyed(st, c))
    BY <1>1, ClosedIsGood, DestroyedIsGood
<1>. QED  BY <1>2, <1>3, BecomesGood DEF Pinging

LEMMA InitGood == Init => Good(now)
<1>. SUFFICES ASSUME Init PROVE Good(now)
    OBVIOUS
<1>1. now.ch = channel /\ now.cn = conns /\ DOMAIN channel.sorted = {} /\ Live(now) = {}
    BY EmptySeq DEF now, Init, Live, Range
<1>2. channel \in Channel /\ conns \in [Conn -> Connection] /\ now \in State
    <2>1. NoConnection \in Connection
        BY RttAssumption DEF NoConnection, Connection, ConnStatus, WriteInit
    <2>2. channel \in Channel
        BY EmptySeq DEF Init, Channel, IceState
    <2>. QED  BY <2>1, <2>2 DEF Init, State, now
<1>3. Listed(now) /\ Rounds(now) /\ Agrees(now) /\ BeforePings(now)
    BY <1>1, NoneAssumption DEF Init, Listed, Distinct, Rounds, Agrees, BeforePings, Quiet, NoConnection
<1>4. Current(now)
    <2>1. /\ now.ch.selected = None /\ ~now.ch.writable /\ ~now.ch.receiving
          /\ now.ch.state = "new" /\ ~now.ch.had /\ ~now.ch.hasBeen /\ now.ch \in Channel
        BY <1>1, <1>2 DEF Init
    <2>2. ActualWritable(now) = FALSE /\ ActualReceiving(now) = FALSE
        BY <1>1, <2>1 DEF ActualWritable, ActualReceiving
    <2>3. ComputedState(now, FALSE) = "new"
        BY <1>1, <2>1 DEF ComputedState
    <2>4. now.ch.writable = FALSE /\ now.ch.receiving = FALSE
        BY <1>1 DEF Init
    <2>. QED  BY <2>1, <2>2, <2>3, <2>4 DEF Current
<1>. QED  BY <1>1, <1>2, <1>3, <1>4 DEF Good, Kept, Started, FirstReady

\* Between callbacks the state is good.
THEOREM ChannelIsGood == Spec => []Good(now)
<1>1. Good(now) /\ [Next]_vars => Good(now)'
    <2>. SUFFICES ASSUME Good(now), [Next]_vars PROVE Good(now)'
        OBVIOUS
    <2>1. CASE UNCHANGED vars
        BY <2>1 DEF vars, now
    <2>. QED
        BY <2>1, SetRemoteIceParamsGood, OnCheckAndPingGood, OnUnknownAddressGood, OnPingResponseGood, OnErrorGood
        DEF Next
<1>. QED  BY <1>1, InitGood, PTL DEF Spec

\* What the channel has told its agent is what its connections are, whatever is
\* answered, rejected, timed out or destroyed, for any number of addresses.
THEOREM StateStaysCurrent == Spec => []StateIsCurrent
<1>1. Good(now) => StateIsCurrent
    BY DEF Good, Current, StateIsCurrent, now
<1>. QED  BY <1>1, ChannelIsGood, PTL

\* The controller serves every connection of the channel, for any number of
\* addresses, priorities and round-trip times.
THEOREM ControllerStaysSound == Spec => []ControllerIsSound
<1>1. Good(now) => ControllerIsSound
    <2>. SUFFICES ASSUME Good(now) PROVE ControllerIsSound
        OBVIOUS
    <2>0. now.ch = channel /\ now.cn = conns
        BY DEF now
    <2>1. TypeOK
        BY <2>0 DEF Good, Kept, State, TypeOK
    <2>2. SelectionAgrees /\ PingSetsPartition
        BY <2>0 DEF Good, Kept, Agrees, Rounds, SelectionAgrees, PingSetsPartition
    <2>3. PingingHasStarted /\ FirstReadyIsSelected
        BY <2>0 DEF Good, Started, FirstReady, PingingHasStarted, FirstReadyIsSelected
    <2>. QED  BY <2>1, <2>2, <2>3 DEF ControllerIsSound
<1>. QED  BY <1>1, ChannelIsGood, PTL
===============================================================================
