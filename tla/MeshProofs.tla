---------------------------- MODULE MeshProofs ----------------------------
(***************************************************************************)
(* Frames in a mesh of any shape and size, with tables of any size: what   *)
(* the tables keep and forget, the types, the limits of the tables, and    *)
(* how often a server handles a message.                                   *)
(***************************************************************************)
EXTENDS Mesh, WellFoundedInduction, TLAPS

-----------------------------------------------------------------------------
(* The two tables.                                                         *)

\* A set of natural numbers has a least element.
LEMMA LeastNat ==
    ASSUME NEW S \in SUBSET Nat, S # {}
    PROVE  \E x \in S : \A y \in S : x <= y
<1>1. PICK x \in S : \A y \in S : ~(<<y, x>> \in OpToRel(<, Nat))
  BY NatLessThanWellFounded, WFMin, Zenon
<1>2. \A y \in S : ~(y < x)
  BY <1>1, Zenon DEF OpToRel
<1>. QED
  BY <1>2

LEMMA SameNext ==
    ASSUME NEW i \in Nat, NEW j \in Nat, i + 1 = j + 1
    PROVE  i = j
OBVIOUS

LEMMA UpTo == \A n : \A i \in 1..n : i <= n
OBVIOUS

LEMMA NotBefore ==
    ASSUME NEW i \in Nat, NEW j \in Nat, NEW n \in Nat, ~(i - j < n)
    PROVE  i - j >= n
OBVIOUS

LEMMA NextWithin ==
    ASSUME NEW m \in Nat, NEW n \in 0..m, n < m
    PROVE  n + 1 \in 0..m
OBVIOUS

\* No two entries of a table have the same key.
UniqueKeys(t) == \A i, j \in DOMAIN t : t[i].key = t[j].key => i = j

\* What without leaves of a table: everything but entry i, or everything.
Dropped(t, r, key, i) ==
    /\ IF i = Len(t) + 1 THEN Len(r) = Len(t) ELSE Len(r) = Len(t) - 1
    /\ \A j \in 1..Len(r) : IF j < i THEN r[j] = t[j] ELSE r[j] = t[j + 1]
    /\ i <= Len(t) => t[i].key = key
    /\ \A m \in 1..Len(t) : m # i => t[m].key # key

\* without is a table, with one entry less at most.
LEMMA WithoutIs ==
    ASSUME NEW E, NEW t \in Seq(E), NEW key, UniqueKeys(t)
    PROVE  /\ without(t, key) \in Seq(E)
           /\ \E i \in 1 .. Len(t) + 1 : Dropped(t, without(t, key), key, i)
<1>0. Len(t) \in Nat /\ DOMAIN t = 1..Len(t)
  OBVIOUS
<1>1. CASE \A i \in DOMAIN t : t[i].key # key
  <2>1. without(t, key) = t
    BY <1>1 DEF without
  <2>2. Dropped(t, t, key, Len(t) + 1)
    BY <1>0, <1>1 DEF Dropped
  <2>. QED
    BY <1>0, <2>1, <2>2
<1>2. CASE \E i \in DOMAIN t : t[i].key = key
  <2>. DEFINE i == CHOOSE i \in DOMAIN t : t[i].key = key
              r == [j \in 1 .. Len(t) - 1 |-> IF j < i THEN t[j] ELSE t[j + 1]]
  <2>1. i \in 1..Len(t) /\ t[i].key = key
    BY <1>0, <1>2
  <2>2. without(t, key) = r
    BY <1>2 DEF without
  <2>. HIDE DEF i
  <2>3. \A j \in 1 .. Len(t) - 1 : r[j] \in E
    <3>. SUFFICES ASSUME NEW j \in 1 .. Len(t) - 1 PROVE r[j] \in E
      OBVIOUS
    <3>1. j \in 1..Len(t) /\ j + 1 \in 1..Len(t)
      BY <1>0
    <3>2. t[j] \in E /\ t[j + 1] \in E
      BY <3>1
    <3>. QED
      BY <3>2
  <2>4. Len(t) - 1 \in Nat
    BY <1>0, <2>1
  <2>5. r \in Seq(E) /\ Len(r) = Len(t) - 1
    BY <2>3, <2>4
  <2>6. \A m \in 1..Len(t) : m # i => t[m].key # key
    BY <1>0, <2>1 DEF UniqueKeys
  <2>7. i # Len(t) + 1 /\ i <= Len(t)
    BY <1>0, <2>1
  <2>8. \A j \in 1..Len(r) : IF j < i THEN r[j] = t[j] ELSE r[j] = t[j + 1]
    BY <2>5, Zenon
  <2>. HIDE DEF r
  <2>9. Dropped(t, r, key, i)
    BY <2>1, <2>5, <2>6, <2>7, <2>8, Zenon DEF Dropped
  <2>. QED
    BY <1>0, <2>1, <2>2, <2>5, <2>9
<1>. QED
  BY <1>1, <1>2
\* A sequence from its a-th element on.
LEMMA SubSeqIs ==
    ASSUME NEW E, NEW q \in Seq(E), NEW a \in 1..Len(q)
    PROVE  /\ SubSeq(q, a, Len(q)) \in Seq(E)
           /\ Len(SubSeq(q, a, Len(q))) = Len(q) - a + 1
           /\ \A k \in 1 .. Len(q) - a + 1 :
                 SubSeq(q, a, Len(q))[k] = q[a + k - 1]
<1>1. Len(q) \in Nat /\ Len(q) - a + 1 \in Nat /\ a \in Nat
  OBVIOUS
<1>2. Len(SubSeq(q, a, Len(q))) = Len(q) - a + 1
  BY <1>1
<1>3. \A k \in 1 .. Len(q) - a + 1 : SubSeq(q, a, Len(q))[k] = q[a + k - 1]
  BY <1>1
<1>4. SubSeq(q, a, Len(q)) \in Seq(E)
  BY <1>1
<1>. QED
  BY <1>2, <1>3, <1>4

\* The entries that insert keeps of a table: phi says where they were.
Kept(t, r, phi, e, limit, ttl) ==
    /\ \A k \in 1 .. Len(r) - 1 :
          /\ phi[k] \in 1..Len(t)
          /\ r[k] = t[phi[k]] /\ t[phi[k]].key # e.key
    /\ \A k, l \in 1 .. Len(r) - 1 : k < l => phi[k] < phi[l]
    /\ \A m \in 1..Len(t) :
          \/ t[m].key = e.key
          \/ \E k \in 1 .. Len(r) - 1 : phi[k] = m
          \/ e.at - t[m].at > ttl
          \/ Len(r) = limit /\ \A k \in 1 .. Len(r) - 1 : m < phi[k]

\* A part of a table that misses one entry, from its a-th entry on.
LEMMA SuffixKept ==
    ASSUME NEW E, NEW t \in Seq(E), NEW e \in E, NEW limit \in Nat \ {0}, NEW ttl,
           NEW u \in Seq(E), NEW i \in 1 .. Len(t) + 1, Dropped(t, u, e.key, i),
           NEW a \in 1 .. Len(u) + 1, NEW r \in Seq(E),
           Len(r) = Len(u) - a + 2,
           \A k \in 1 .. Len(r) - 1 : r[k] = u[a + k - 1],
           \/ \A j \in 1 .. a - 1 : e.at - u[j].at > ttl
           \/ Len(r) = limit
    PROVE  \E phi : Kept(t, r, phi, e, limit, ttl)
<1>. DEFINE phi == [k \in 1 .. Len(r) - 1 |->
                       IF a + k - 1 < i THEN a + k - 1 ELSE a + k]
<1>0. /\ Len(t) \in Nat /\ Len(u) \in Nat /\ Len(r) \in Nat
      /\ a \in Nat /\ i \in Nat
      /\ IF i = Len(t) + 1 THEN Len(u) = Len(t) ELSE Len(u) = Len(t) - 1
  BY DEF Dropped
<1>1. ASSUME NEW k \in 1 .. Len(r) - 1
      PROVE  /\ phi[k] \in 1..Len(t) /\ phi[k] # i
             /\ r[k] = t[phi[k]] /\ t[phi[k]].key # e.key
  <2>1. a + k - 1 \in 1..Len(u) /\ k \in Nat
    BY <1>0
  <2>2. IF a + k - 1 < i THEN phi[k] = a + k - 1 ELSE phi[k] = a + k
    OBVIOUS
  <2>3. phi[k] \in 1..Len(t) /\ phi[k] # i
    BY <1>0, <2>1, <2>2
  <2>4. IF a + k - 1 < i THEN u[a + k - 1] = t[a + k - 1]
                         ELSE u[a + k - 1] = t[a + k - 1 + 1]
    BY <2>1, Zenon DEF Dropped
  <2>5. a + k - 1 + 1 = a + k
    BY <1>0, <2>1
  <2>6. u[a + k - 1] = t[phi[k]]
    BY <2>2, <2>4, <2>5, Zenon
  <2>7. t[phi[k]].key # e.key
    BY <2>3, Zenon DEF Dropped
  <2>. QED
    BY <2>3, <2>6, <2>7, Zenon
<1>2. ASSUME NEW k \in 1 .. Len(r) - 1, NEW l \in 1 .. Len(r) - 1, k < l
      PROVE  phi[k] < phi[l]
  <2>1. /\ IF a + k - 1 < i THEN phi[k] = a + k - 1 ELSE phi[k] = a + k
        /\ IF a + l - 1 < i THEN phi[l] = a + l - 1 ELSE phi[l] = a + l
    OBVIOUS
  <2>. HIDE DEF phi
  <2>2. k \in Nat /\ l \in Nat
    BY <1>0
  <2>3. a + k < a + l /\ a + k - 1 < a + l - 1 /\ a + k \in Nat /\ a + l \in Nat
    BY <1>0, <1>2, <2>2
  <2>4. CASE a + l - 1 < i
    <3>1. a + k - 1 < i
      BY <1>0, <2>3, <2>4
    <3>2. phi[k] = a + k - 1 /\ phi[l] = a + l - 1
      BY <2>1, <2>4, <3>1, Zenon
    <3>. QED
      BY <2>3, <3>2, Zenon
  <2>5. CASE ~(a + l - 1 < i)
    <3>1. phi[l] = a + l /\ phi[k] \in {a + k - 1, a + k}
      BY <2>1, <2>5, Zenon
    <3>2. a + k - 1 < a + l
      BY <2>3
    <3>. QED
      BY <2>3, <3>1, <3>2, Zenon
  <2>. QED
    BY <2>4, <2>5, Zenon
<1>3. ASSUME NEW m \in 1..Len(t), t[m].key # e.key,
             \A k \in 1 .. Len(r) - 1 : phi[k] # m
      PROVE  \/ e.at - t[m].at > ttl
             \/ Len(r) = limit /\ \A k \in 1 .. Len(r) - 1 : m < phi[k]
  <2>. DEFINE j == IF m < i THEN m ELSE m - 1
  <2>1. m # i
    <3>. SUFFICES ASSUME m = i PROVE FALSE
      OBVIOUS
    <3>1. i <= Len(t)
      BY <1>0
    <3>. QED
      BY <1>3, <3>1 DEF Dropped
  <2>2. j \in 1..Len(u)
    BY <1>0, <2>1
  <2>3. u[j] = t[m]
    <3>1. CASE m < i
      BY <2>2, <3>1 DEF Dropped
    <3>2. CASE ~(m < i)
      <4>1. j = m - 1 /\ ~(j < i) /\ j + 1 = m
        BY <1>0, <2>1, <3>2
      <4>. HIDE DEF j
      <4>2. u[j] = t[j + 1]
        BY <2>2, <4>1 DEF Dropped
      <4>. QED
        BY <4>1, <4>2
    <3>. QED
      BY <3>1, <3>2
  <2>4. j < a
    <3>. SUFFICES ASSUME ~(j < a) PROVE FALSE
      OBVIOUS
    <3>1. j - a + 1 \in 1 .. Len(r) - 1
      BY <1>0, <2>2
    <3>2. phi[j - a + 1] = m
      BY <1>0, <2>1, <2>2, <3>1
    <3>. QED
      BY <1>3, <3>1, <3>2, Zenon
  <2>5. CASE \A h \in 1 .. a - 1 : e.at - u[h].at > ttl
    <3>1. j \in 1 .. a - 1
      BY <1>0, <2>2, <2>4
    <3>. HIDE DEF j
    <3>. QED
      BY <2>3, <2>5, <3>1, Zenon
  <2>6. CASE Len(r) = limit
    <3>1. \A k \in 1 .. Len(r) - 1 : m < phi[k]
      BY <1>0, <2>1, <2>2, <2>4
    <3>. QED
      BY <2>6, <3>1, Zenon
  <2>. QED
    BY <2>5, <2>6
<1>. HIDE DEF phi
<1>4. Kept(t, r, phi, e, limit, ttl)
  BY <1>1, <1>2, <1>3, Zenon DEF Kept
<1>. QED
  BY <1>4

\* insert keeps a table within its limit.  The new entry is its last, and an
\* entry it drops has the key of the new one, is too old, or stood before all
\* entries of a table that is full e.at.
LEMMA InsertIs ==
    ASSUME NEW E, NEW t \in Seq(E), NEW e \in E, NEW limit \in Nat \ {0},
           NEW ttl \in Nat, UniqueKeys(t), Len(t) <= limit,
           \A x \in E : x.at \in Nat
    PROVE  LET r == insert(t, e, limit, ttl) IN
           /\ r \in Seq(E) /\ Len(r) \in 1..limit /\ r[Len(r)] = e
           /\ \E phi : Kept(t, r, phi, e, limit, ttl)
<1>. DEFINE u == without(t, e.key)
            grown == Append(u, e)
            n == Len(grown)
            Young(i) == /\ e.at - grown[i].at <= ttl
                        /\ \A j \in 1 .. i - 1 : e.at - grown[j].at > ttl
            young == CHOOSE i \in 1..n : Young(i)
            last == n - limit + 1
            a == IF young < last THEN last ELSE young
            r == insert(t, e, limit, ttl)
<1>1. u \in Seq(E) /\ \E i \in 1 .. Len(t) + 1 : Dropped(t, u, e.key, i)
  BY WithoutIs
<1>2. PICK i \in 1 .. Len(t) + 1 : Dropped(t, u, e.key, i)
  BY <1>1
<1>3. r = IF n <= limit THEN grown ELSE SubSeq(grown, a, n)
  BY DEF insert
<1>. HIDE DEF u
<1>4. /\ grown \in Seq(E) /\ n = Len(u) + 1 /\ Len(u) \in Nat
      /\ grown[n] = e /\ \A j \in 1..Len(u) : grown[j] = u[j]
  BY <1>1
<1>. HIDE DEF grown, r
<1>5. CASE n <= limit
  <2>1. r = grown
    BY <1>3, <1>5
  <2>2. /\ 1 \in 1 .. Len(u) + 1 /\ Len(r) = Len(u) - 1 + 2
        /\ \A j \in 1 .. 1 - 1 : e.at - u[j].at > ttl
    BY <1>4, <2>1
  <2>3. \A k \in 1 .. Len(r) - 1 : r[k] = u[1 + k - 1]
    <3>. SUFFICES ASSUME NEW k \in 1 .. Len(r) - 1 PROVE r[k] = u[1 + k - 1]
      OBVIOUS
    <3>1. 1 + k - 1 = k /\ k \in 1..Len(u)
      BY <1>4, <2>1
    <3>. QED
      BY <1>4, <2>1, <3>1
  <2>. HIDE DEF n
  <2>4. r \in Seq(E)
    BY <1>4, <2>1
  <2>5. \E phi : Kept(t, r, phi, e, limit, ttl)
    BY <1>1, <1>2, <2>2, <2>3, <2>4, SuffixKept, Zenon
  <2>. QED
    BY <1>4, <1>5, <2>1, <2>5 DEF r, n
<1>6. CASE ~(n <= limit)
  <2>1. young \in 1..n /\ Young(young)
    <3>. DEFINE Y == {j \in 1..n : e.at - grown[j].at <= ttl}
    <3>1. n \in Y
      BY <1>4
    <3>2. PICK y \in Y : \A z \in Y : y <= z
      <4>1. Y \in SUBSET Nat /\ Y # {}
        BY <3>1
      <4>. HIDE DEF Y
      <4>. QED
        BY <4>1, LeastNat, Zenon
    <3>3. \A j \in 1 .. y - 1 : j \in 1..n /\ ~(y <= j)
      BY <1>4, <3>2
    <3>4. ASSUME NEW j \in 1 .. y - 1 PROVE e.at - grown[j].at > ttl
      <4>1. ~(e.at - grown[j].at <= ttl)
        BY <3>2, <3>3
      <4>2. grown[j].at \in Nat
        BY <1>4, <3>3
      <4>. QED
        BY <4>1, <4>2
    <3>. QED
      BY <3>2, <3>4, Zenon
  <2>. HIDE DEF young, n
  <2>2. /\ a \in 1..n /\ last <= a /\ n \in Nat /\ a \in 1 .. Len(u) + 1
        /\ a = young \/ a = last
    BY <1>4, <1>6, <2>1
  <2>. HIDE DEF a
  <2>3. /\ r \in Seq(E) /\ Len(r) = n - a + 1
        /\ \A k \in 1 .. Len(r) : r[k] = grown[a + k - 1]
    <3>1. r = SubSeq(grown, a, n)
      BY <1>3, <1>6, Zenon
    <3>2. n = Len(grown) /\ a \in 1..Len(grown)
      BY <2>2 DEF n
    <3>. QED
      BY <1>4, <3>1, <3>2, SubSeqIs
  <2>4. Len(r) \in 1..limit /\ r[Len(r)] = e /\ Len(r) = Len(u) - a + 2
    <3>1. Len(r) \in 1..limit /\ a + Len(r) - 1 = n /\ Len(r) = Len(u) - a + 2
      BY <1>4, <2>2, <2>3 DEF n
    <3>2. Len(r) \in 1..Len(r)
      BY <3>1
    <3>. QED
      BY <1>4, <2>3, <3>1, <3>2, Zenon
  <2>5. \A k \in 1 .. Len(r) - 1 : r[k] = u[a + k - 1]
    <3>. SUFFICES ASSUME NEW k \in 1 .. Len(r) - 1 PROVE r[k] = u[a + k - 1]
      OBVIOUS
    <3>0. Len(r) \in Nat /\ Len(u) \in Nat /\ a \in Nat \ {0} /\ k \in Nat \ {0}
      <4>1. Len(u) \in Nat
        BY <1>4
      <4>2. a \in Nat \ {0}
        BY <2>2
      <4>3. Len(r) \in Nat
        BY <2>4
      <4>. QED
        BY <4>1, <4>2, <4>3
    <3>1. k \in 1..Len(r) /\ a + k - 1 \in 1..Len(u)
      BY <2>4, <3>0
    <3>. QED
      BY <1>4, <2>3, <3>1, Zenon
  <2>6. \/ \A j \in 1 .. a - 1 : e.at - u[j].at > ttl
        \/ Len(r) = limit
    <3>1. CASE a = young
      <4>1. \A j \in 1 .. a - 1 : j \in 1..Len(u)
        BY <1>4, <2>2
      <4>. QED
        BY <1>4, <2>1, <3>1, <4>1, Zenon
    <3>2. CASE a = last
      BY <1>4, <2>3, <3>2
    <3>. QED
      BY <2>2, <3>1, <3>2
  <2>. HIDE DEF last
  <2>7. \E phi : Kept(t, r, phi, e, limit, ttl)
    <3>1. a \in 1 .. Len(u) + 1 /\ r \in Seq(E) /\ Len(r) = Len(u) - a + 2
      BY <2>2, <2>3, <2>4
    <3>. QED
      BY <1>1, <1>2, <2>5, <2>6, <3>1, SuffixKept, Zenon
  <2>. QED
    BY <2>3, <2>4, <2>7 DEF r
<1>. QED
  BY <1>5, <1>6

-----------------------------------------------------------------------------
(* The table of seen messages and the log.                                 *)

Mention == [id: 1..MaxMessages, at: 0..MaxClock]

\* The last mention of a message in a log.
Last(g, i) == \A j \in 1..Len(g) : j > i => g[j].id # g[i].id

\* MAX_SEEN_IDS other messages are mentioned after i and before j.
Crowded(g, i, j) ==
    \E f \in [1..MAX_SEEN_IDS -> i + 1 .. j - 1] :
        \A k, l \in 1..MAX_SEEN_IDS : g[f[k]].id = g[f[l]].id => k = l

Forgettable(g, i, c) ==
    c - g[i].at > SEEN_TTL \/ Crowded(g, i, Len(g) + 1)

InOrder(g, c) ==
    /\ \A i, j \in 1..Len(g) : i <= j => g[i].at <= g[j].at
    /\ \A i \in 1..Len(g) : g[i].at <= c

Mentioned(t, g) ==
    \A k \in 1..Len(t) : \E i \in 1..Len(g) :
        Last(g, i) /\ g[i].id = t[k].key /\ g[i].at = t[k].at

Follows(t, g) ==
    \A k, l \in 1..Len(t) : \A i, j \in 1..Len(g) :
        /\ k < l /\ Last(g, i) /\ Last(g, j)
        /\ g[i].id = t[k].key /\ g[j].id = t[l].key
        => i < j

Complete(t, g, c) ==
    \A i \in 1..Len(g) : Last(g, i) =>
        \/ \E k \in 1..Len(t) : t[k].key = g[i].id
        \/ Forgettable(g, i, c)

\* How a table of seen messages stands to the log of its server.
SeenRight(t, g, c) ==
    InOrder(g, c) /\ Mentioned(t, g) /\ Follows(t, g) /\ Complete(t, g, c)

\* HandledOnce, for one log.
Once(g) ==
    \A i, j \in 1..Len(g) :
        i < j /\ g[i].id = g[j].id =>
            g[j].at - g[i].at >= SEEN_TTL \/ Crowded(g, i, j)

LEMMA MentionFields ==
    ASSUME NEW g \in Seq(Mention)
    PROVE  /\ Len(g) \in Nat /\ DOMAIN g = 1..Len(g)
           /\ \A i \in 1..Len(g) : g[i] \in Mention
           /\ \A i \in 1..Len(g) : g[i].id \in 1..MaxMessages /\ g[i].at \in Nat
<1>1. /\ Len(g) \in Nat /\ DOMAIN g = 1..Len(g)
      /\ \A i \in 1..Len(g) : g[i] \in Mention
  OBVIOUS
<1>2. \A x \in Mention : x.id \in 1..MaxMessages /\ x.at \in Nat
  BY TableAssumption DEF Mention
<1>. QED
  BY <1>1, <1>2

LEMMA MentionPlaces ==
    ASSUME NEW g \in Seq(Mention)
    PROVE  DOMAIN g = 1..Len(g)
OBVIOUS

LEMMA MentionIds ==
    ASSUME NEW g \in Seq(Mention)
    PROVE  \A i \in 1..Len(g) : g[i].id \in Nat
<1>1. \A i \in 1..Len(g) : g[i].id \in 1..MaxMessages
  BY MentionFields
<1>. QED
  BY <1>1

LEMMA SeenEntryFields ==
    ASSUME NEW t \in Seq(SeenEntry)
    PROVE  /\ Len(t) \in Nat /\ DOMAIN t = 1..Len(t)
           /\ \A i \in 1..Len(t) : t[i] \in SeenEntry
           /\ \A x \in SeenEntry : x.at \in Nat /\ x.key \in 1..MaxMessages
<1>1. /\ Len(t) \in Nat /\ DOMAIN t = 1..Len(t)
      /\ \A i \in 1..Len(t) : t[i] \in SeenEntry
  OBVIOUS
<1>2. \A x \in SeenEntry : x.at \in Nat /\ x.key \in 1..MaxMessages
  BY TableAssumption DEF SeenEntry
<1>. QED
  BY <1>1, <1>2

\* A message that is mentioned has a last mention.
LEMMA LastMention ==
    ASSUME NEW g \in Seq(Mention), NEW i \in 1..Len(g)
    PROVE  \E j \in 1..Len(g) : j >= i /\ g[j].id = g[i].id /\ Last(g, j)
<1>. DEFINE S == {Len(g) - j : j \in {h \in 1..Len(g) : g[h].id = g[i].id}}
<1>0. Len(g) \in Nat
  OBVIOUS
<1>1. S \in SUBSET Nat
  BY <1>0
<1>2. Len(g) - i \in S
  OBVIOUS
<1>. HIDE DEF S
<1>3. PICK x \in S : \A y \in S : x <= y
  BY <1>1, <1>2, LeastNat
<1>. USE DEF S
<1>4. PICK j \in 1..Len(g) : x = Len(g) - j /\ g[j].id = g[i].id
  BY <1>3
<1>5. \A h \in 1..Len(g) : g[h].id = g[i].id => Len(g) - h \in S
  OBVIOUS
<1>6. \A h \in 1..Len(g) : g[h].id = g[i].id => h <= j
  <2>. HIDE DEF S
  <2>. QED
    BY <1>0, <1>3, <1>4, <1>5
<1>7. Last(g, j)
  BY <1>0, <1>4, <1>6 DEF Last
<1>. QED
  BY <1>0, <1>4, <1>6, <1>7

\* Two last mentions of a message are the same.
LEMMA LastUnique ==
    ASSUME NEW g \in Seq(Mention), NEW i \in 1..Len(g), NEW j \in 1..Len(g),
           Last(g, i), Last(g, j), g[i].id = g[j].id
    PROVE  i = j
BY DEF Last

\* The entries of a table that follows its log have different keys.
LEMMA SeenUnique ==
    ASSUME NEW g \in Seq(Mention), NEW t \in Seq(SeenEntry),
           Mentioned(t, g), Follows(t, g)
    PROVE  UniqueKeys(t)
<1>1. ASSUME NEW k \in 1..Len(t), NEW l \in 1..Len(t),
             t[k].key = t[l].key, k < l
      PROVE  FALSE
  <2>1. PICK i \in 1..Len(g) : Last(g, i) /\ g[i].id = t[k].key
    BY DEF Mentioned
  <2>2. i < i
    BY <1>1, <2>1 DEF Follows
  <2>. QED
    BY <2>2
<1>2. \A k, l \in 1..Len(t) : k < l \/ l < k \/ k = l
  OBVIOUS
<1>3. DOMAIN t = 1..Len(t)
  OBVIOUS
<1>. QED
  BY <1>1, <1>2, <1>3 DEF UniqueKeys

\* The witness of a crowd.
LEMMA CrowdedBy ==
    ASSUME NEW g, NEW i, NEW j, NEW F \in [1..MAX_SEEN_IDS -> i + 1 .. j - 1],
           \A k, l \in 1..MAX_SEEN_IDS : g[F[k]].id = g[F[l]].id => k = l
    PROVE  Crowded(g, i, j)
BY Zenon DEF Crowded

\* More mentions between two, and more behind a log, do not matter.
LEMMA CrowdedWider ==
    ASSUME NEW g \in Seq(Mention), NEW x \in Mention,
           NEW i \in 1..Len(g), NEW j \in 1 .. Len(g) + 1, Crowded(g, i, j),
           NEW a \in 1..i, NEW b \in Nat, j <= b
    PROVE  Crowded(g, a, b) /\ Crowded(Append(g, x), a, b)
<1>0. Len(g) \in Nat
  OBVIOUS
<1>1. PICK f \in [1..MAX_SEEN_IDS -> i + 1 .. j - 1] :
         \A k, l \in 1..MAX_SEEN_IDS : g[f[k]].id = g[f[l]].id => k = l
  BY Zenon DEF Crowded
<1>2. i + 1 .. j - 1 \subseteq a + 1 .. b - 1 /\ i + 1 .. j - 1 \subseteq 1..Len(g)
  BY <1>0
<1>3. f \in [1..MAX_SEEN_IDS -> a + 1 .. b - 1]
  BY <1>1, <1>2
<1>4. \A k \in 1..MAX_SEEN_IDS : Append(g, x)[f[k]] = g[f[k]]
  <2>1. \A h \in 1..Len(g) : Append(g, x)[h] = g[h]
    OBVIOUS
  <2>2. \A k \in 1..MAX_SEEN_IDS : f[k] \in 1..Len(g)
    BY <1>1, <1>2
  <2>. QED
    BY <2>1, <2>2
<1>5. Crowded(g, a, b)
  BY <1>1, <1>3, Zenon DEF Crowded
<1>6. \A k, l \in 1..MAX_SEEN_IDS :
         Append(g, x)[f[k]].id = Append(g, x)[f[l]].id => k = l
  BY <1>1, <1>4, Zenon
<1>7. Crowded(Append(g, x), a, b)
  BY <1>3, <1>6, Zenon DEF Crowded
<1>. QED
  BY <1>5, <1>7

\* A log that grows by a mention of m: the last mentions of other messages
\* stay the last, and the new mention is one.
LEMMA LastAppend ==
    ASSUME NEW g \in Seq(Mention), NEW m \in 1..MaxMessages,
           NEW c \in 0..MaxClock
    PROVE  LET h == Append(g, [id |-> m, at |-> c]) IN
           /\ h \in Seq(Mention) /\ Len(h) = Len(g) + 1
           /\ h[Len(g) + 1].id = m /\ h[Len(g) + 1].at = c
           /\ \A i \in 1..Len(g) : h[i] = g[i]
           /\ \A i \in 1..Len(g) : Last(h, i) <=> Last(g, i) /\ g[i].id # m
           /\ Last(h, Len(g) + 1)
<1>. DEFINE x == [id |-> m, at |-> c]
            h == Append(g, x)
<1>1. x \in Mention /\ x.id = m /\ x.at = c
  BY DEF Mention
<1>. HIDE DEF x
<1>2. /\ h \in Seq(Mention) /\ Len(h) = Len(g) + 1 /\ Len(g) \in Nat
      /\ h[Len(g) + 1] = x /\ \A i \in 1..Len(g) : h[i] = g[i]
  BY <1>1
<1>. HIDE DEF h
<1>3. 1..Len(h) = 1..Len(g) \cup {Len(g) + 1}
  BY <1>2
<1>4. Last(h, Len(g) + 1)
  BY <1>2, <1>3 DEF Last
<1>5. \A i \in 1..Len(g) : i < Len(g) + 1 /\ i # Len(g) + 1
  BY <1>2
<1>6. ASSUME NEW i \in 1..Len(g), Last(h, i) PROVE Last(g, i) /\ g[i].id # m
  BY <1>1, <1>2, <1>3, <1>5, <1>6, Zenon DEF Last
<1>7. ASSUME NEW i \in 1..Len(g), Last(g, i), g[i].id # m PROVE Last(h, i)
  BY <1>1, <1>2, <1>3, <1>5, <1>7, Zenon DEF Last
<1>. QED
  BY <1>1, <1>2, <1>4, <1>6, <1>7 DEF h, x
\* What insert does to a table of seen messages, and to its log.
LEMMA SeenInsert ==
    ASSUME NEW t \in Seq(SeenEntry), NEW g \in Seq(Mention), NEW m \in 1..MaxMessages,
           NEW time \in 0..MaxClock, Len(t) <= MAX_SEEN_IDS, SeenRight(t, g, time)
    PROVE  LET e == [key |-> m, at |-> time]
               r == insert(t, e, MAX_SEEN_IDS, SEEN_TTL)
           IN /\ r \in Seq(SeenEntry) /\ Len(r) \in 1..MAX_SEEN_IDS /\ r[Len(r)] = e
              /\ \E phi : Kept(t, r, phi, e, MAX_SEEN_IDS, SEEN_TTL)
<1>. DEFINE e == [key |-> m, at |-> time]
<1>1. e \in SeenEntry /\ e.at = time /\ time \in Nat
  BY TableAssumption DEF SeenEntry
<1>. HIDE DEF e
<1>2. UniqueKeys(t)
  BY SeenUnique DEF SeenRight
<1>3. \A x \in SeenEntry : x.at \in Nat
  BY SeenEntryFields
<1>4. MAX_SEEN_IDS \in Nat \ {0} /\ SEEN_TTL \in Nat
  BY TableAssumption, Zenon
<1>5. LET r == insert(t, e, MAX_SEEN_IDS, SEEN_TTL) IN
      /\ r \in Seq(SeenEntry) /\ Len(r) \in 1..MAX_SEEN_IDS /\ r[Len(r)] = e
      /\ \E phi : Kept(t, r, phi, e, MAX_SEEN_IDS, SEEN_TTL)
  BY <1>1, <1>2, <1>3, <1>4, InsertIs, Zenon
<1>. QED
  BY <1>5 DEF e

\* remember_message keeps the table right.
LEMMA SeenStep ==
    ASSUME NEW t \in Seq(SeenEntry), NEW g \in Seq(Mention), NEW m \in 1..MaxMessages,
           NEW time \in 0..MaxClock, Len(t) <= MAX_SEEN_IDS, SeenRight(t, g, time)
    PROVE  SeenRight(insert(t, [key |-> m, at |-> time], MAX_SEEN_IDS, SEEN_TTL),
                     Append(g, [id |-> m, at |-> time]), time)
<1>. DEFINE e == [key |-> m, at |-> time]
            r == insert(t, e, MAX_SEEN_IDS, SEEN_TTL)
            h == Append(g, [id |-> m, at |-> time])
            n == Len(g)
            d == Len(r)
<1>1. e.key = m /\ e.at = time
  BY Zenon
<1>2. /\ r \in Seq(SeenEntry) /\ d \in 1..MAX_SEEN_IDS /\ r[d] = e
      /\ \E phi : Kept(t, r, phi, e, MAX_SEEN_IDS, SEEN_TTL)
  BY SeenInsert, Zenon
<1>3. PICK phi : Kept(t, r, phi, e, MAX_SEEN_IDS, SEEN_TTL)
  BY <1>2, Zenon
<1>4. /\ h \in Seq(Mention) /\ Len(h) = n + 1
      /\ h[n + 1].id = m /\ h[n + 1].at = time
      /\ \A i \in 1..n : h[i] = g[i]
      /\ \A i \in 1..n : Last(h, i) <=> Last(g, i) /\ g[i].id # m
      /\ Last(h, n + 1)
  BY LastAppend
<1>. HIDE DEF e, r, h
<1>5. n \in Nat /\ d \in Nat \ {0} /\ time \in Nat /\ MAX_SEEN_IDS \in Nat \ {0}
  BY <1>2, TableAssumption
<1>. HIDE DEF n, d
<1>6. /\ 1..Len(h) = 1..n \cup {n + 1} /\ n + 1 \in 1..Len(h)
      /\ \A i \in 1..n : i \in 1..Len(h) /\ i < n + 1
      /\ 1..Len(r) = (1 .. d - 1) \cup {d} /\ d \in 1..Len(r)
      /\ \A k \in 1 .. d - 1 : k < d /\ ~(d < k) /\ k \in 1..Len(r)
  BY <1>4, <1>5 DEF d
<1>7. InOrder(h, time)
  <2>1. /\ \A i, j \in 1..n : i <= j => h[i].at <= h[j].at
        /\ \A i \in 1..n : h[i].at <= h[n + 1].at
    BY <1>4, Zenon DEF InOrder, SeenRight, n
  <2>2. h[n + 1].at <= h[n + 1].at
    BY <1>4, <1>5
  <2>3. \A i \in 1..n : ~(n + 1 <= i)
    BY <1>5
  <2>4. \A i, j \in 1..Len(h) : i <= j => h[i].at <= h[j].at
    BY <1>6, <2>1, <2>2, <2>3, Zenon
  <2>. QED
    BY <1>4, <1>6, <2>1, <2>2, <2>4 DEF InOrder
<1>8. ASSUME NEW k \in 1 .. d - 1
      PROVE  /\ phi[k] \in 1..Len(t) /\ r[k] = t[phi[k]] /\ r[k].key # m
             /\ \A l \in 1 .. d - 1 : k < l => phi[k] < phi[l]
  BY <1>1, <1>3 DEF Kept, d
<1>9. Mentioned(r, h)
  <2>. SUFFICES ASSUME NEW k \in 1..Len(r)
                PROVE  \E i \in 1..Len(h) :
                          Last(h, i) /\ h[i].id = r[k].key /\ h[i].at = r[k].at
    BY DEF Mentioned
  <2>1. CASE k = d
    BY <1>1, <1>2, <1>4, <1>6, <2>1, Zenon
  <2>2. CASE k \in 1 .. d - 1
    <3>1. PICK i \in 1..n :
             Last(g, i) /\ g[i].id = t[phi[k]].key /\ g[i].at = t[phi[k]].at
      BY <1>8, <2>2, Zenon DEF SeenRight, Mentioned, n
    <3>2. Last(h, i) /\ h[i].id = r[k].key /\ h[i].at = r[k].at
      BY <1>4, <1>8, <2>2, <3>1, Zenon
    <3>. QED
      BY <1>6, <3>2
  <2>. QED
    BY <1>6, <2>1, <2>2, Zenon
<1>10. Follows(r, h)
  <2>. SUFFICES ASSUME NEW k \in 1..Len(r), NEW l \in 1..Len(r),
                       NEW i \in 1..Len(h), NEW j \in 1..Len(h),
                       k < l, Last(h, i), Last(h, j),
                       h[i].id = r[k].key, h[j].id = r[l].key
                PROVE  i < j
    BY Zenon DEF Follows
  <2>1. k \in 1 .. d - 1
    BY <1>5 DEF d
  <2>2. i \in 1..n /\ Last(g, i) /\ g[i].id = r[k].key
    BY <1>4, <1>6, <1>8, <2>1, Zenon
  <2>3. CASE l = d
    <3>1. h[j].id = m
      BY <1>1, <1>2, <2>3
    <3>2. j = n + 1
      BY <1>4, <1>6, <3>1, Zenon
    <3>. QED
      BY <1>6, <2>2, <3>2
  <2>4. CASE l \in 1 .. d - 1
    <3>1. j \in 1..n /\ Last(g, j) /\ g[j].id = r[l].key
      BY <1>4, <1>6, <1>8, <2>4, Zenon
    <3>2. /\ phi[k] \in 1..Len(t) /\ phi[l] \in 1..Len(t) /\ phi[k] < phi[l]
          /\ r[k] = t[phi[k]] /\ r[l] = t[phi[l]]
      BY <1>8, <2>1, <2>4, Zenon
    <3>. QED
      BY <2>2, <3>1, <3>2, Zenon DEF SeenRight, Follows, n
  <2>. QED
    BY <1>6, <2>3, <2>4, Zenon
<1>11. UniqueKeys(r)
  BY <1>2, <1>4, <1>9, <1>10, SeenUnique
<1>12. ASSUME NEW i \in 1..n, Last(g, i), NEW q \in 1..Len(t), t[q].key = g[i].id,
              d = MAX_SEEN_IDS, \A k \in 1 .. d - 1 : q < phi[k]
       PROVE  Crowded(h, i, Len(h) + 1)
  <2>. DEFINE At(k) == CHOOSE j \in 1..Len(h) : Last(h, j) /\ h[j].id = r[k].key
              f == [k \in 1..MAX_SEEN_IDS |-> At(k)]
  <2>1. 1..MAX_SEEN_IDS = 1..Len(r)
    BY <1>12 DEF d
  <2>2. ASSUME NEW k \in 1..Len(r)
        PROVE  f[k] \in 1..Len(h) /\ Last(h, f[k]) /\ h[f[k]].id = r[k].key
    <3>1. \E j \in 1..Len(h) : Last(h, j) /\ h[j].id = r[k].key
      BY <1>9, Zenon DEF Mentioned
    <3>2. At(k) \in 1..Len(h) /\ Last(h, At(k)) /\ h[At(k)].id = r[k].key
      BY <3>1, Zenon
    <3>. QED
      BY <2>1, <3>2, Zenon
  <2>3. f = [k \in 1..MAX_SEEN_IDS |-> f[k]]
    OBVIOUS
  <2>. HIDE DEF f
  <2>4. ASSUME NEW k \in 1..Len(r) PROVE i < f[k]
    <3>1. CASE k = d
      <4>1. h[f[k]].id = m
        BY <1>1, <1>2, <2>2, <3>1, Zenon
      <4>2. f[k] = n + 1
        BY <1>4, <1>6, <2>2, <4>1, ZenonT(30)
      <4>. QED
        BY <1>6, <4>2, Zenon
    <3>2. CASE k \in 1 .. d - 1
      <4>0. /\ f[k] \in 1..Len(h) /\ Last(h, f[k])
            /\ h[f[k]].id = r[k].key /\ r[k].key # m
        BY <1>8, <2>2, <3>2, Zenon
      <4>a. f[k] \in 1..n
        BY <1>4, <1>6, <4>0, Zenon
      <4>1. f[k] \in 1..n /\ Last(g, f[k]) /\ g[f[k]].id = r[k].key
        BY <1>4, <4>0, <4>a, Zenon
      <4>2. phi[k] \in 1..Len(t) /\ r[k] = t[phi[k]] /\ q < phi[k]
        BY <1>8, <1>12, <3>2, Zenon
      <4>. QED
        BY <1>12, <4>1, <4>2, Zenon DEF SeenRight, Follows, n
    <3>. QED
      BY <1>6, <3>1, <3>2, Zenon
  <2>5. ASSUME NEW k \in 1..MAX_SEEN_IDS PROVE f[k] \in i + 1 .. Len(h) + 1 - 1
    <3>1. f[k] \in 1..Len(h) /\ i < f[k]
      BY <2>1, <2>2, <2>4, Zenon
    <3>2. i \in Nat /\ Len(h) \in Nat
      BY <1>4
    <3>. QED
      BY <3>1, <3>2
  <2>6. f \in [1..MAX_SEEN_IDS -> i + 1 .. Len(h) + 1 - 1]
    BY <2>3, <2>5
  <2>7. DOMAIN r = 1..Len(r)
    BY <1>2
  <2>8. \A k, l \in 1..MAX_SEEN_IDS : h[f[k]].id = h[f[l]].id => k = l
    BY <1>11, <2>1, <2>2, <2>7, ZenonT(30) DEF UniqueKeys
  <2>. QED
    <3>1. PICK b : b = Len(h) + 1
      OBVIOUS
    <3>2. f \in [1..MAX_SEEN_IDS -> i + 1 .. b - 1]
      BY <2>6, <3>1
    <3>3. Crowded(h, i, b)
      BY <2>8, <3>2, CrowdedBy, Zenon
    <3>. QED
      BY <3>1, <3>3
<1>13. Complete(r, h, time)
  <2>. SUFFICES ASSUME NEW i \in 1..Len(h), Last(h, i)
                PROVE  \/ \E k \in 1..Len(r) : r[k].key = h[i].id
                       \/ Forgettable(h, i, time)
    BY Zenon DEF Complete
  <2>1. CASE i = n + 1
    BY <1>1, <1>2, <1>4, <1>6, <2>1, Zenon
  <2>2. CASE i \in 1..n
    <3>1. Last(g, i) /\ g[i].id # m /\ h[i] = g[i]
      BY <1>4, <2>2, Zenon
    <3>2. CASE Forgettable(g, i, time)
      <4>1. CASE time - g[i].at > SEEN_TTL
        BY <3>1, <4>1, Zenon DEF Forgettable
      <4>2. CASE Crowded(g, i, n + 1)
        <5>1. [id |-> m, at |-> time] \in Mention
          BY Zenon DEF Mention
        <5>2. /\ n + 1 \in 1 .. Len(g) + 1 /\ i \in 1..i /\ i \in 1..Len(g)
              /\ Len(h) + 1 \in Nat /\ n + 1 <= Len(h) + 1
          BY <1>4, <1>5, <2>2 DEF n
        <5>3. Crowded(h, i, Len(h) + 1)
          BY <4>2, <5>1, <5>2, CrowdedWider, Zenon DEF h
        <5>. QED
          BY <5>3 DEF Forgettable
      <4>. QED
        BY <3>2, <4>1, <4>2, Zenon DEF Forgettable, n
    <3>3. CASE \E q \in 1..Len(t) : t[q].key = g[i].id
      <4>1. PICK q \in 1..Len(t) : t[q].key = g[i].id
        BY <3>3, Zenon
      <4>2. t[q].at = g[i].at
        <5>1. PICK j \in 1..n : Last(g, j) /\ g[j].id = t[q].key /\ g[j].at = t[q].at
          BY Zenon DEF SeenRight, Mentioned, n
        <5>2. i = j
          BY <2>2, <3>1, <4>1, <5>1, LastUnique, Zenon DEF n
        <5>. QED
          BY <5>1, <5>2
      <4>3. \/ \E k \in 1 .. d - 1 : phi[k] = q
            \/ time - t[q].at > SEEN_TTL
            \/ d = MAX_SEEN_IDS /\ \A k \in 1 .. d - 1 : q < phi[k]
        BY <1>1, <1>3, <3>1, <4>1, Zenon DEF Kept, d
      <4>4. CASE \E k \in 1 .. d - 1 : phi[k] = q
        <5>1. PICK k \in 1 .. d - 1 : phi[k] = q
          BY <4>4, Zenon
        <5>2. r[k] = t[q] /\ k \in 1..Len(r)
          BY <1>6, <1>8, <5>1, Zenon
        <5>. QED
          BY <3>1, <4>1, <5>2
      <4>5. CASE time - t[q].at > SEEN_TTL
        BY <3>1, <4>2, <4>5, Zenon DEF Forgettable
      <4>6. CASE d = MAX_SEEN_IDS /\ \A k \in 1 .. d - 1 : q < phi[k]
        BY <1>12, <2>2, <3>1, <4>1, <4>6, Zenon DEF Forgettable
      <4>. QED
        BY <4>3, <4>4, <4>5, <4>6, Zenon
    <3>. QED
      BY <2>2, <3>1, <3>2, <3>3, Zenon DEF SeenRight, Complete, n
  <2>. QED
    BY <1>6, <2>1, <2>2, Zenon
<1>. QED
  BY <1>7, <1>9, <1>10, <1>13 DEF SeenRight, r, h, e
\* Of two places in a log that has grown by one the first is an old one.
LEMMA OldPlace ==
    ASSUME NEW n \in Nat, NEW i \in 1 .. n + 1, NEW j \in 1 .. n + 1, i < j
    PROVE  i \in 1..n /\ (j \in 1..n \/ j = n + 1)
OBVIOUS

\* What was before something long ago was long ago.
LEMMA LongAgo ==
    ASSUME NEW c \in Nat, NEW a \in Nat, NEW b \in Nat, NEW d \in Nat,
           a <= b, c - b >= d \/ c - b > d
    PROVE  c - a >= d
OBVIOUS

\* remember_message mentions a message again only when it may.
LEMMA OnceStep ==
    ASSUME NEW t \in Seq(SeenEntry), NEW g \in Seq(Mention), NEW m \in 1..MaxMessages,
           NEW time \in 0..MaxClock, SeenRight(t, g, time), Once(g),
           \A k \in 1..Len(t) : t[k].key = m => time - t[k].at >= SEEN_TTL
    PROVE  Once(Append(g, [id |-> m, at |-> time]))
<1>. DEFINE x == [id |-> m, at |-> time]
            h == Append(g, x)
            n == Len(g)
<1>1. /\ h \in Seq(Mention) /\ Len(h) = n + 1
      /\ h[n + 1].id = m /\ h[n + 1].at = time
      /\ \A i \in 1..n : h[i] = g[i]
  BY LastAppend
<1>2. x \in Mention
  BY Zenon DEF Mention
<1>. HIDE DEF x
<1>3. \A i \in 1..n : \A j \in 1 .. n + 1, a \in 1..i, b \in Nat :
         Crowded(g, i, j) /\ j <= b => Crowded(h, a, b)
  BY <1>2, CrowdedWider
<1>. HIDE DEF h
<1>4. n \in Nat /\ time \in Nat /\ SEEN_TTL \in Nat
  BY TableAssumption
<1>5. ASSUME NEW i \in 1..n, NEW j \in 1..n, i < j, g[i].id = g[j].id
      PROVE  h[j].at - h[i].at >= SEEN_TTL \/ Crowded(h, i, j)
  <2>1. g[j].at - g[i].at >= SEEN_TTL \/ Crowded(g, i, j)
    BY <1>5 DEF Once
  <2>2. j \in 1 .. n + 1 /\ i \in 1..i /\ j \in Nat /\ j <= j
    BY <1>4
  <2>. QED
    BY <1>1, <1>3, <2>1, <2>2, Zenon
<1>6. ASSUME NEW i \in 1..n, g[i].id = m
      PROVE  time - h[i].at >= SEEN_TTL \/ Crowded(h, i, n + 1)
  <2>1. PICK q \in 1..n : q >= i /\ g[q].id = g[i].id /\ Last(g, q)
    BY LastMention, Zenon
  <2>2. g[i].at <= g[q].at /\ g[i].at \in Nat /\ g[q].at \in Nat
    BY <2>1, MentionFields DEF SeenRight, InOrder
  <2>0. h[i].at = g[i].at
    BY <1>1, Zenon
  <2>3. CASE \E k \in 1..Len(t) : t[k].key = g[q].id
    <3>1. PICK k \in 1..Len(t) : t[k].key = g[q].id
      BY <2>3, Zenon
    <3>2. PICK j \in 1..n : Last(g, j) /\ g[j].id = t[k].key /\ g[j].at = t[k].at
      BY Zenon DEF SeenRight, Mentioned
    <3>3. j = q
      BY <2>1, <3>1, <3>2, LastUnique, Zenon
    <3>4. time - g[q].at >= SEEN_TTL
      BY <1>6, <2>1, <3>1, <3>2, <3>3
    <3>. QED
      BY <1>4, <2>0, <2>2, <3>4, LongAgo, Zenon
  <2>4. CASE time - g[q].at > SEEN_TTL
    BY <1>4, <2>0, <2>2, <2>4, LongAgo, Zenon
  <2>5. CASE Crowded(g, q, n + 1)
    <3>1. n + 1 \in 1 .. n + 1 /\ i \in 1..q /\ n + 1 \in Nat /\ n + 1 <= n + 1
      BY <1>4, <2>1
    <3>. QED
      BY <1>3, <2>5, <3>1, Zenon
  <2>. QED
    BY <2>1, <2>3, <2>4, <2>5 DEF SeenRight, Complete, Forgettable
<1>. SUFFICES ASSUME NEW i \in 1..Len(h), NEW j \in 1..Len(h),
                     i < j, h[i].id = h[j].id
              PROVE  h[j].at - h[i].at >= SEEN_TTL \/ Crowded(h, i, j)
  BY Zenon DEF Once, h, x
<1>7. Len(h) = n + 1
  BY <1>1
<1>. HIDE DEF n
<1>8. i \in 1 .. n + 1 /\ j \in 1 .. n + 1
  BY <1>7
<1>9. i \in 1..n /\ (j \in 1..n \/ j = n + 1)
  BY <1>4, <1>8, OldPlace
<1>. QED
  BY <1>1, <1>5, <1>6, <1>9, Zenon

\* Time does no harm.
LEMMA SeenTick ==
    ASSUME NEW t \in Seq(SeenEntry), NEW g \in Seq(Mention), NEW c \in Nat,
           SeenRight(t, g, c)
    PROVE  SeenRight(t, g, c + 1)
<1>1. \A i \in 1..Len(g) : g[i].at \in Nat
  BY MentionFields, Zenon
<1>2. InOrder(g, c + 1)
  BY <1>1 DEF SeenRight, InOrder
<1>3. \A i \in 1..Len(g) : Forgettable(g, i, c) => Forgettable(g, i, c + 1)
  BY <1>1, TableAssumption DEF Forgettable
<1>4. Complete(t, g, c + 1)
  BY <1>3, Zenon DEF SeenRight, Complete
<1>. QED
  BY <1>2, <1>4 DEF SeenRight

-----------------------------------------------------------------------------
(* The table of routes.                                                    *)

HintsRight(t) ==
    t \in Seq(HintEntry) /\ Len(t) <= MAX_ROUTE_HINTS /\ UniqueKeys(t)

\* learn_route keeps the table of routes right.
LEMMA HintInsert ==
    ASSUME NEW t, HintsRight(t), NEW n \in Node, NEW p \in Server,
           NEW time \in 0..MaxClock
    PROVE  HintsRight(insert(t, [key |-> n, peer |-> p, at |-> time],
                             MAX_ROUTE_HINTS, ROUTE_TTL))
<1>. DEFINE e == [key |-> n, peer |-> p, at |-> time]
            r == insert(t, e, MAX_ROUTE_HINTS, ROUTE_TTL)
            d == Len(r)
<1>1. e \in HintEntry /\ e.at = time /\ time \in Nat
  BY TableAssumption DEF HintEntry
<1>. HIDE DEF e
<1>2. \A x \in HintEntry : x.at \in Nat
  BY TableAssumption DEF HintEntry
<1>3. MAX_ROUTE_HINTS \in Nat \ {0} /\ ROUTE_TTL \in Nat
  BY TableAssumption
<1>4. t \in Seq(HintEntry) /\ Len(t) <= MAX_ROUTE_HINTS /\ UniqueKeys(t)
  BY Zenon DEF HintsRight
<1>5. /\ r \in Seq(HintEntry) /\ Len(r) \in 1..MAX_ROUTE_HINTS /\ r[Len(r)] = e
      /\ \E phi : Kept(t, r, phi, e, MAX_ROUTE_HINTS, ROUTE_TTL)
  BY <1>1, <1>2, <1>3, <1>4, InsertIs, Zenon
<1>6. PICK phi : Kept(t, r, phi, e, MAX_ROUTE_HINTS, ROUTE_TTL)
  BY <1>5
<1>. HIDE DEF r
<1>7. d \in Nat \ {0} /\ DOMAIN r = 1..d /\ DOMAIN t = 1..Len(t) /\ Len(t) \in Nat
  BY <1>3, <1>4, <1>5
<1>8. 1..d = (1 .. d - 1) \cup {d}
  BY <1>7
<1>9. ASSUME NEW k \in 1 .. d - 1
      PROVE  /\ phi[k] \in 1..Len(t) /\ r[k] = t[phi[k]] /\ r[k].key # e.key
             /\ \A l \in 1 .. d - 1 : k < l => phi[k] < phi[l]
  BY <1>6 DEF Kept
<1>. HIDE DEF d
<1>10. ASSUME NEW k \in 1 .. d - 1, NEW l \in 1 .. d - 1, r[k].key = r[l].key
       PROVE  k = l
  <2>1. phi[k] = phi[l]
    BY <1>4, <1>7, <1>9, <1>10 DEF UniqueKeys
  <2>2. ~(k < l) /\ ~(l < k)
    <3>1. phi[k] \in Nat /\ phi[l] \in Nat
      BY <1>7, <1>9
    <3>. QED
      BY <1>9, <2>1, <3>1
  <2>. QED
    BY <1>7, <2>2
<1>11. UniqueKeys(r)
  <2>1. r[d] = e
    BY <1>5 DEF d
  <2>. QED
    BY <1>7, <1>8, <1>9, <1>10, <2>1 DEF UniqueKeys
<1>12. HintsRight(r)
  BY <1>3, <1>5, <1>11 DEF HintsRight
<1>. QED
  BY <1>12 DEF r, e

\* The places of a table that is left when place i is skipped.
LEMMA Skipped ==
    ASSUME NEW n \in Nat, NEW d \in Nat, NEW i \in 1 .. n + 1,
           IF i = n + 1 THEN d = n ELSE d = n - 1
    PROVE  d <= n /\ \A k \in 1..d : IF k < i THEN k \in 1..n ELSE k + 1 \in 1..n
OBVIOUS

\* So does lookup_route, which removes a route that is too old.
LEMMA HintRemove ==
    ASSUME NEW t, HintsRight(t), NEW n
    PROVE  HintsRight(without(t, n))
<1>. DEFINE r == without(t, n)
<1>1. t \in Seq(HintEntry) /\ Len(t) <= MAX_ROUTE_HINTS /\ UniqueKeys(t)
  BY DEF HintsRight
<1>2. r \in Seq(HintEntry) /\ \E i \in 1 .. Len(t) + 1 : Dropped(t, r, n, i)
  BY <1>1, WithoutIs
<1>3. PICK i \in 1 .. Len(t) + 1 : Dropped(t, r, n, i)
  BY <1>2
<1>. HIDE DEF r
<1>4. /\ Len(t) \in Nat /\ Len(r) \in Nat
      /\ DOMAIN t = 1..Len(t) /\ DOMAIN r = 1..Len(r)
  BY <1>1, <1>2
<1>5. IF i = Len(t) + 1 THEN Len(r) = Len(t) ELSE Len(r) = Len(t) - 1
  BY <1>3 DEF Dropped
<1>0. /\ Len(r) <= Len(t)
      /\ \A k \in 1..Len(r) : IF k < i THEN k \in 1..Len(t) ELSE k + 1 \in 1..Len(t)
  BY <1>4, <1>5, Skipped, Zenon
<1>6. Len(r) <= MAX_ROUTE_HINTS
  <2>1. MAX_ROUTE_HINTS \in Nat
    BY TableAssumption
  <2>. QED
    BY <1>0, <1>1, <1>4, <2>1
<1>. DEFINE At(k) == IF k < i THEN k ELSE k + 1
<1>7. ASSUME NEW k \in 1..Len(r) PROVE At(k) \in 1..Len(t) /\ r[k] = t[At(k)]
  <2>1. At(k) \in 1..Len(t)
    BY <1>0, Zenon
  <2>2. IF k < i THEN r[k] = t[k] ELSE r[k] = t[k + 1]
    BY <1>3 DEF Dropped
  <2>. QED
    BY <2>1, <2>2
<1>8. \A k, l \in 1..Len(r) : At(k) = At(l) => k = l
  BY <1>4
<1>. HIDE DEF At
<1>9. UniqueKeys(r)
  BY <1>1, <1>4, <1>7, <1>8 DEF UniqueKeys
<1>. QED
  BY <1>2, <1>6, <1>9 DEF HintsRight, r

-----------------------------------------------------------------------------
(* Sequences that lose their first element or get another.                 *)

LEMMA TailIs ==
    ASSUME NEW S, NEW q \in Seq(S), q # <<>>
    PROVE  /\ Head(q) \in S /\ Head(q) = q[1] /\ 1 \in 1..Len(q)
           /\ Tail(q) \in Seq(S) /\ Len(Tail(q)) = Len(q) - 1
           /\ \A i \in 1..Len(Tail(q)) :
                 i + 1 \in 1..Len(q) /\ i + 1 # 1 /\ Tail(q)[i] = q[i + 1]
<1>1. /\ Len(q) \in Nat \ {0} /\ Head(q) = q[1] /\ Head(q) \in S
      /\ Tail(q) \in Seq(S) /\ Len(Tail(q)) = Len(q) - 1
  OBVIOUS
<1>2. \A i \in 1 .. Len(q) - 1 : Tail(q)[i] = q[i + 1]
  OBVIOUS
<1>3. \A n \in Nat \ {0} : 1 \in 1..n /\ \A i \in 1 .. n - 1 : i + 1 \in 1..n /\ i + 1 # 1
  OBVIOUS
<1>. QED
  BY <1>1, <1>2, <1>3

LEMMA AppendIs ==
    ASSUME NEW S, NEW q \in Seq(S), NEW x \in S
    PROVE  /\ Append(q, x) \in Seq(S) /\ Len(Append(q, x)) = Len(q) + 1
           /\ Len(q) \in Nat
           /\ 1..Len(Append(q, x)) = 1..Len(q) \cup {Len(q) + 1}
           /\ Append(q, x)[Len(q) + 1] = x
           /\ \A i \in 1..Len(q) : Append(q, x)[i] = q[i] /\ i # Len(q) + 1
<1>1. /\ Append(q, x) \in Seq(S) /\ Len(Append(q, x)) = Len(q) + 1
      /\ Len(q) \in Nat /\ Append(q, x)[Len(q) + 1] = x
      /\ \A i \in 1..Len(q) : Append(q, x)[i] = q[i]
  OBVIOUS
<1>2. \A n \in Nat : 1 .. n + 1 = 1..n \cup {n + 1} /\ \A i \in 1..n : i # n + 1
  OBVIOUS
<1>. QED
  BY <1>1, <1>2, Zenon

-----------------------------------------------------------------------------
(* The server.                                                             *)

\* A crowd is MAX_SEEN_IDS different messages.
LEMMA CrowdCount ==
    ASSUME NEW g \in Seq(Mention), NEW i, NEW j, Crowded(g, i, j)
    PROVE  AtLeast(MAX_SEEN_IDS, {g[k].id : k \in i + 1 .. j - 1})
<1>. DEFINE T == {g[k].id : k \in i + 1 .. j - 1}
<1>1. PICK f \in [1..MAX_SEEN_IDS -> i + 1 .. j - 1] :
         \A k, l \in 1..MAX_SEEN_IDS : g[f[k]].id = g[f[l]].id => k = l
  BY Zenon DEF Crowded
<1>. DEFINE F == [k \in 1..MAX_SEEN_IDS |-> g[f[k]].id]
<1>2. \A k \in 1..MAX_SEEN_IDS : F[k] \in T
  BY <1>1, Zenon
<1>3. F \in [1..MAX_SEEN_IDS -> T]
  BY <1>2, Zenon
<1>4. \A k, l \in 1..MAX_SEEN_IDS : F[k] = F[l] => k = l
  BY <1>1
<1>. HIDE DEF F, T
<1>5. AtLeast(MAX_SEEN_IDS, T)
  BY <1>3, <1>4, Zenon DEF AtLeast
<1>. QED
  BY <1>5 DEF T


-----------------------------------------------------------------------------
(* The inductive invariant.                                                *)

Message == [transport: Transport, from: Node, to: Node]

\* The frames on the links and in the handlers are of messages sent.
FramesSent ==
    /\ links \subseteq Pair
    /\ wire \in [Pair -> Seq(Frame)]
    /\ handler \in [Pair -> Frame \cup {None}]
    /\ msgs \in Seq(Message) /\ Len(msgs) <= MaxMessages
    /\ \A l \in Pair : \A i \in 1..Len(wire[l]) : wire[l][i].id <= Len(msgs)
    /\ \A l \in Pair : handler[l] # None => handler[l].id <= Len(msgs)

\* Whoever waits for a packet has a frame, and waits for one packet only.
Waiting(s) ==
    /\ \A i \in 1..Len(to_local[s]) :
          to_local[s][i].waiter # None =>
             /\ <<to_local[s][i].waiter, s>> \in Pair
             /\ handler[<<to_local[s][i].waiter, s>>] # None
    /\ \A i, j \in 1..Len(to_local[s]) :
          to_local[s][i].waiter = to_local[s][j].waiter =>
             i = j \/ to_local[s][i].waiter = None

PacketsRight ==
    /\ to_local \in [Server -> Seq(Packet)]
    /\ \A s \in Server : Waiting(s)

\* The tables, and the logs.
TablesRight ==
    /\ route_hints \in [Server -> Seq(HintEntry)]
    /\ \A s \in Server : HintsRight(route_hints[s])
    /\ seen_ids \in [Server -> Seq(SeenEntry)]
    /\ log \in [Server -> Seq(Mention)]
    /\ \A s \in Server :
          /\ Len(seen_ids[s]) <= MAX_SEEN_IDS
          /\ SeenRight(seen_ids[s], log[s], now)
          /\ Once(log[s])
          /\ \A i \in 1..Len(log[s]) : log[s][i].id <= Len(msgs)

PlaceTypes ==
    /\ home \in [Node \X Transport -> SUBSET Server]
    /\ now \in 0..MaxClock /\ events \in 0..MaxEvents

MeshInv == FramesSent /\ PacketsRight /\ TablesRight /\ PlaceTypes

LEMMA MessageCount ==
    ASSUME FramesSent
    PROVE  Len(msgs) \in Nat /\ Len(msgs) <= MaxMessages
<1>1. msgs \in Seq(Message) /\ Len(msgs) <= MaxMessages
  BY DEF FramesSent
<1>. QED
  BY <1>1

\* What send makes: the next message, and its frame.
LEMMA NewMessage ==
    ASSUME NEW q \in Seq(Message), NEW transport \in Transport,
           NEW from \in Node, NEW to \in Node,
           Len(q) + 1 <= MaxMessages
    PROVE  /\ Append(q, [transport |-> transport, from |-> from, to |-> to]) \in Seq(Message)
           /\ Len(Append(q, [transport |-> transport, from |-> from, to |-> to])) = Len(q) + 1
           /\ Len(q) \in Nat /\ Len(q) + 1 \in Nat /\ Len(q) + 1 \in 1..MaxMessages
           /\ Len(q) < Len(q) + 1 /\ Len(q) <= Len(q) + 1 /\ Len(q) + 1 <= Len(q) + 1
           /\ 1 .. Len(q) + 1 = 1..Len(q) \cup {Len(q) + 1}
<1>1. Len(q) \in Nat /\ MaxMessages \in Nat
  BY TableAssumption
<1>2. [transport |-> transport, from |-> from, to |-> to] \in Message
  BY DEF Message
<1>. QED
  BY <1>1, <1>2

LEMMA NewFrame ==
    ASSUME NEW m \in 1..MaxMessages, NEW transport \in Transport,
           NEW from \in Node, NEW to \in Node
    PROVE  LET f == [id |-> m, transport |-> transport, from |-> from, to |-> to,
                     hops |-> max_hops]
           IN  f \in Frame /\ f.id = m /\ f.hops = max_hops
BY MeshAssumption DEF Frame

LEMMA FrameFields ==
    ASSUME NEW f \in Frame
    PROVE  /\ f.id \in 1..MaxMessages /\ f.id \in Nat
           /\ f.transport \in Transport /\ f.from \in Node /\ f.to \in Node
           /\ f.hops \in 0..max_hops
           /\ f.hops # 0 => [f EXCEPT !.hops = @ - 1] \in Frame
           /\ [f EXCEPT !.hops = @ - 1].id = f.id
<1>1. /\ f.id \in 1..MaxMessages /\ f.id \in Nat
      /\ f.transport \in Transport /\ f.from \in Node /\ f.to \in Node
      /\ f.hops \in 0..max_hops
  BY MeshAssumption, TableAssumption DEF Frame
<1>2. ASSUME f.hops # 0 PROVE f.hops - 1 \in 0..max_hops
  BY <1>1, <1>2, MeshAssumption, TableAssumption
<1>3. ASSUME f.hops # 0 PROVE [f EXCEPT !.hops = @ - 1] \in Frame
  BY <1>2, <1>3 DEF Frame
<1>4. [f EXCEPT !.hops = @ - 1].id = f.id
  BY DEF Frame
<1>. QED
  BY <1>1, <1>3, <1>4, Zenon

LEMMA MeshInit == Init => MeshInv
<1>. SUFFICES ASSUME Init PROVE MeshInv
  BY Zenon
<1>0. /\ MaxMessages \in Nat /\ MaxClock \in Nat /\ MaxEvents \in Nat
      /\ MAX_SEEN_IDS \in Nat /\ MAX_ROUTE_HINTS \in Nat
  BY MeshAssumption, TableAssumption, Zenon
<1>1. PICK b \in Starts : links = b.links /\ home = b.home
  BY DEF Init
<1>2. links \subseteq Pair /\ home \in [Node \X Transport -> SUBSET Server]
  BY <1>1, MeshAssumption, TableAssumption, Zenon DEF Pair
<1>3. \A S : <<>> \in Seq(S) /\ Len(<<>>) = 0 /\ 1..0 = {}
  OBVIOUS
<1>4. FramesSent
  BY <1>0, <1>2, <1>3 DEF Init, FramesSent
<1>5. PacketsRight
  BY <1>3 DEF Init, PacketsRight, Waiting
<1>6. HintsRight(<<>>)
  BY <1>0, <1>3 DEF HintsRight, UniqueKeys
<1>7. SeenRight(<<>>, <<>>, 0) /\ Once(<<>>)
  BY <1>3, Zenon DEF SeenRight, InOrder, Mentioned, Follows, Complete, Once
<1>8. TablesRight
  BY <1>0, <1>3, <1>6, <1>7 DEF Init, TablesRight
<1>9. PlaceTypes
  BY <1>0, <1>2 DEF Init, PlaceTypes
<1>. QED
  BY <1>4, <1>5, <1>8, <1>9, Zenon DEF MeshInv
-----------------------------------------------------------------------------
(* What the operations of Mesh do to the invariant.                        *)

\* forward_to_target sends a frame of a message sent.
LEMMA Forwards ==
    ASSUME MeshInv, NEW s \in Server, NEW exclude, NEW f \in Frame,
           NEW N \in Nat, f.id <= N, Len(msgs) <= N,
           forward_to_target(s, exclude, f)
    PROVE  /\ wire' \in [Pair -> Seq(Frame)]
           /\ \A l \in Pair : \A i \in 1..Len(wire'[l]) : wire'[l][i].id <= N
           /\ route_hints' \in [Server -> Seq(HintEntry)]
           /\ \A q \in Server : HintsRight(route_hints'[q])
<1>1. /\ wire' = [l \in Pair |->
                     IF l[1] = s /\ l[2] \in next_hops(s, exclude, f.to)
                     THEN Append(wire[l], f) ELSE wire[l]]
      /\ route_hints' = [route_hints EXCEPT ![s] =
            IF lookup_route(s, f.to) = None
            THEN without(route_hints[s], f.to) ELSE route_hints[s]]
  BY Zenon DEF forward_to_target
<1>2. ASSUME NEW l \in Pair
      PROVE  wire'[l] = wire[l] \/ wire'[l] = Append(wire[l], f)
  BY <1>1, Zenon
<1>3. ASSUME NEW l \in Pair, NEW i \in 1..Len(wire[l])
      PROVE  wire[l][i].id <= N
  <2>1. wire[l] \in Seq(Frame) /\ wire[l][i].id <= Len(msgs) /\ Len(msgs) \in Nat
    BY MessageCount, Zenon DEF MeshInv, FramesSent
  <2>2. wire[l][i] \in Frame
    BY <2>1
  <2>3. wire[l][i].id \in Nat
    BY <2>2, FrameFields, Zenon
  <2>. QED
    BY <2>1, <2>3
<1>4. ASSUME NEW l \in Pair
      PROVE  /\ wire'[l] \in Seq(Frame)
             /\ \A i \in 1..Len(wire'[l]) : wire'[l][i].id <= N
  <2>1. wire[l] \in Seq(Frame)
    BY Zenon DEF MeshInv, FramesSent
  <2>2. CASE wire'[l] = wire[l]
    BY <1>3, <2>1, <2>2, Zenon
  <2>3. CASE wire'[l] = Append(wire[l], f)
    BY <1>3, <2>1, <2>3, AppendIs
  <2>. QED
    BY <1>2, <2>2, <2>3, Zenon
<1>5. wire' \in [Pair -> Seq(Frame)]
  <2>1. wire' = [l \in Pair |-> wire'[l]]
    BY <1>1, Zenon
  <2>. QED
    BY <1>4, <2>1, Zenon
<1>6. ASSUME NEW q \in Server PROVE HintsRight(route_hints'[q])
  <2>1. HintsRight(route_hints[q]) /\ HintsRight(without(route_hints[q], f.to))
    BY HintRemove, Zenon DEF MeshInv, TablesRight
  <2>2. \/ route_hints'[q] = route_hints[q]
        \/ route_hints'[q] = without(route_hints[q], f.to)
    BY <1>1, Zenon DEF MeshInv, TablesRight
  <2>. QED
    BY <2>1, <2>2, Zenon
<1>7. route_hints' \in [Server -> Seq(HintEntry)]
  <2>1. route_hints' = [q \in Server |-> route_hints'[q]]
    BY <1>1, Zenon DEF MeshInv, TablesRight
  <2>. QED
    BY <1>6, <2>1, Zenon DEF HintsRight
<1>. QED
  BY <1>4, <1>5, <1>6, <1>7, Zenon

\* What go_on does to a frame and to the routes.
LEMMA GoesOn ==
    ASSUME MeshInv, NEW s \in Server, NEW p, NEW f \in Frame,
           f.id <= Len(msgs), go_on(p, s, f)
    PROVE  /\ wire' \in [Pair -> Seq(Frame)]
           /\ \A l \in Pair : \A i \in 1..Len(wire'[l]) :
                 wire'[l][i].id <= Len(msgs)
           /\ route_hints' \in [Server -> Seq(HintEntry)]
           /\ \A q \in Server : HintsRight(route_hints'[q])
<1>. DEFINE g == [f EXCEPT !.hops = @ - 1]
<1>1. CASE f.hops = 0
  BY <1>1 DEF go_on, MeshInv, FramesSent, TablesRight
<1>2. CASE f.hops # 0
  <2>1. g \in Frame /\ g.id <= Len(msgs)
    BY <1>2, FrameFields
  <2>2. forward_to_target(s, p, g)
    BY <1>2, Zenon DEF go_on
  <2>3. Len(msgs) \in Nat /\ Len(msgs) <= Len(msgs)
    BY MessageCount DEF MeshInv, FramesSent
  <2>. HIDE DEF g
  <2>. QED
    BY <2>1, <2>2, <2>3, Forwards, Zenon
<1>. QED
  BY <1>1, <1>2, Zenon

\* remember_message, for a message that is not seen.
LEMMA Remembers ==
    ASSUME MeshInv, NEW s \in Server, NEW m \in 1..MaxMessages,
           NEW N \in Nat, m <= N, Len(msgs) <= N,
           ~seen(s, m), remember_message(s, m)
    PROVE  /\ seen_ids' \in [Server -> Seq(SeenEntry)]
           /\ log' \in [Server -> Seq(Mention)]
           /\ \A q \in Server :
                 /\ Len(seen_ids'[q]) <= MAX_SEEN_IDS
                 /\ SeenRight(seen_ids'[q], log'[q], now)
                 /\ Once(log'[q])
                 /\ \A i \in 1..Len(log'[q]) : log'[q][i].id <= N
<1>. DEFINE t == seen_ids[s]
            g == log[s]
            x == [id |-> m, at |-> now]
            r == insert(t, [key |-> m, at |-> now], MAX_SEEN_IDS, SEEN_TTL)
<1>1. /\ t \in Seq(SeenEntry) /\ g \in Seq(Mention) /\ now \in 0..MaxClock
      /\ Len(t) <= MAX_SEEN_IDS /\ SeenRight(t, g, now) /\ Once(g)
      /\ \A i \in 1..Len(g) : g[i].id <= Len(msgs)
      /\ Len(msgs) \in Nat
  <2>1. Len(msgs) \in Nat
    BY MessageCount DEF MeshInv, FramesSent
  <2>. QED
    BY <2>1, ZenonT(30) DEF MeshInv, TablesRight, PlaceTypes
<1>2. /\ seen_ids' = [seen_ids EXCEPT ![s] = r]
      /\ log' = [log EXCEPT ![s] = Append(g, x)]
  BY DEF remember_message
<1>3. x \in Mention /\ x.id = m
  BY <1>1 DEF Mention
<1>4. \A k \in 1..Len(t) : t[k].key = m => now - t[k].at >= SEEN_TTL
  <2>. SUFFICES ASSUME NEW k \in 1..Len(t), t[k].key = m
                PROVE  now - t[k].at >= SEEN_TTL
    BY Zenon
  <2>1. k \in DOMAIN t
    BY <1>1
  <2>2. ~(now - t[k].at < SEEN_TTL)
    BY <2>1, Zenon DEF seen
  <2>3. t[k].at \in Nat
    BY <1>1, SeenEntryFields, ZenonT(30)
  <2>4. now \in Nat /\ SEEN_TTL \in Nat
    BY <1>1, TableAssumption
  <2>. QED
    BY <2>2, <2>3, <2>4, NotBefore, Zenon
<1>5. SeenRight(r, Append(g, x), now) /\ Once(Append(g, x))
  BY <1>1, <1>4, SeenStep, OnceStep, Zenon
<1>6. r \in Seq(SeenEntry) /\ Len(r) <= MAX_SEEN_IDS
  <2>1. r \in Seq(SeenEntry) /\ Len(r) \in 1..MAX_SEEN_IDS
    BY <1>1, SeenInsert
  <2>. HIDE DEF r
  <2>. QED
    BY <2>1, UpTo, Zenon
<1>. HIDE DEF r, x
<1>older. \A k \in Nat : k <= Len(msgs) => k <= N
  <2>1. Len(msgs) \in Nat
    BY <1>1, Zenon
  <2>. QED
    BY <2>1
<1>7. Append(g, x) \in Seq(Mention) /\ \A i \in 1..Len(Append(g, x)) : Append(g, x)[i].id <= N
  <2>1. \A i \in 1..Len(g) : g[i].id \in Nat
    BY <1>1, MentionIds, Zenon
  <2>2. \A i \in 1..Len(g) : g[i].id <= N
    BY <1>1, <1>older, <2>1, Zenon
  <2>. QED
    BY <1>1, <1>3, <2>2, AppendIs
<1>8. /\ seen_ids \in [Server -> Seq(SeenEntry)] /\ log \in [Server -> Seq(Mention)]
  BY Zenon DEF MeshInv, TablesRight
<1>9. seen_ids' \in [Server -> Seq(SeenEntry)] /\ log' \in [Server -> Seq(Mention)]
  BY <1>2, <1>6, <1>7, <1>8, Zenon
<1>10. ASSUME NEW q \in Server
       PROVE  /\ Len(seen_ids'[q]) <= MAX_SEEN_IDS
              /\ SeenRight(seen_ids'[q], log'[q], now)
              /\ Once(log'[q])
              /\ \A i \in 1..Len(log'[q]) : log'[q][i].id <= N
  <2>1. CASE q = s
    <3>1. seen_ids'[q] = r /\ log'[q] = Append(g, x)
      BY <1>2, <1>8, <2>1, Zenon
    <3>. QED
      BY <1>5, <1>6, <1>7, <3>1, Zenon
  <2>2. CASE q # s
    <3>1. seen_ids'[q] = seen_ids[q] /\ log'[q] = log[q]
      BY <1>2, <1>8, <2>2, ZenonT(30)
    <3>2. /\ Len(seen_ids[q]) <= MAX_SEEN_IDS
          /\ SeenRight(seen_ids[q], log[q], now) /\ Once(log[q])
          /\ \A i \in 1..Len(log[q]) : log[q][i].id <= Len(msgs)
          /\ log[q] \in Seq(Mention)
      BY DEF MeshInv, TablesRight
    <3>3. \A i \in 1..Len(log[q]) : log[q][i].id \in Nat
      BY <3>2, MentionIds, Zenon
    <3>4. \A i \in 1..Len(log[q]) : log[q][i].id <= N
      BY <1>older, <3>2, <3>3, Zenon
    <3>. QED
      BY <3>1, <3>2, <3>4, Zenon
  <2>. QED
    BY <2>1, <2>2, Zenon
<1>. QED
  BY <1>9, <1>10, ZenonT(30)
\* A server whose packets and whose waiting handlers stay as they are.
LEMMA WaitingKept ==
    ASSUME NEW s \in Server, Waiting(s), to_local'[s] = to_local[s],
           \A w \in Server : <<w, s>> \in Pair /\ handler[<<w, s>>] # None =>
              handler'[<<w, s>>] # None,
           to_local \in [Server -> Seq(Packet)]
    PROVE  Waiting(s)'
<1>1. \A i \in 1..Len(to_local[s]) : to_local[s][i] \in Packet
  OBVIOUS
<1>2. \A k \in Packet : k.waiter # None => k.waiter \in Server
  BY Zenon DEF Packet
<1>. QED
  BY <1>1, <1>2, Zenon DEF Waiting

\* The messages a server has seen were sent.
LEMMA NewUnseen ==
    ASSUME MeshInv, NEW s \in Server, NEW m \in Nat, Len(msgs) < m
    PROVE  ~seen(s, m)
<1>. SUFFICES ASSUME NEW k \in DOMAIN seen_ids[s], seen_ids[s][k].key = m
              PROVE  FALSE
  BY Zenon DEF seen
<1>1. /\ seen_ids[s] \in Seq(SeenEntry) /\ Mentioned(seen_ids[s], log[s])
      /\ \A i \in 1..Len(log[s]) : log[s][i].id <= Len(msgs)
  BY Zenon DEF MeshInv, TablesRight, SeenRight
<1>0. Len(msgs) \in Nat
  BY MessageCount, Zenon DEF MeshInv, FramesSent
<1>2. k \in 1..Len(seen_ids[s])
  BY <1>1
<1>3. PICK i \in 1..Len(log[s]) : log[s][i].id = m
  BY <1>1, <1>2, Zenon DEF Mentioned
<1>. QED
  BY <1>0, <1>1, <1>3

LEMMA SendStep ==
    ASSUME MeshInv, NEW s \in Server, NEW transport \in Transport,
           NEW from \in Node, NEW to \in Node,
           send(s, transport, from, to)
    PROVE  MeshInv'
<1>. DEFINE m == Len(msgs) + 1
            f == [id |-> m, transport |-> transport, from |-> from, to |-> to,
                  hops |-> max_hops]
<1>1. /\ m <= MaxMessages /\ remember_message(s, m)
      /\ forward_to_target(s, None, f)
      /\ msgs' = Append(msgs, [transport |-> transport, from |-> from, to |-> to])
      /\ UNCHANGED <<to_local, handler, links, home, now, events>>
  BY ZenonT(30) DEF send, place
<1>2. Len(msgs) \in Nat /\ msgs \in Seq(Message) /\ MaxMessages \in Nat
  BY MessageCount, TableAssumption, Zenon DEF MeshInv, FramesSent
<1>3. m \in Nat /\ m \in 1..MaxMessages /\ Len(msgs) < m /\ Len(msgs) <= m /\ m <= m
  BY <1>1, <1>2, NewMessage, Zenon
<1>4. f \in Frame /\ f.id <= m
  BY <1>3, NewFrame, Zenon
<1>5. msgs' \in Seq(Message) /\ Len(msgs') = m
  BY <1>1, <1>2, NewMessage, Zenon
<1>. HIDE DEF f, m
<1>6. /\ wire' \in [Pair -> Seq(Frame)]
      /\ \A l \in Pair : \A i \in 1..Len(wire'[l]) : wire'[l][i].id <= m
      /\ route_hints' \in [Server -> Seq(HintEntry)]
      /\ \A q \in Server : HintsRight(route_hints'[q])
  BY <1>1, <1>3, <1>4, Forwards, ZenonT(30)
<1>7. ~seen(s, m)
  BY <1>3, NewUnseen, Zenon
<1>8. /\ seen_ids' \in [Server -> Seq(SeenEntry)]
      /\ log' \in [Server -> Seq(Mention)]
      /\ \A q \in Server :
            /\ Len(seen_ids'[q]) <= MAX_SEEN_IDS
            /\ SeenRight(seen_ids'[q], log'[q], now)
            /\ Once(log'[q])
            /\ \A i \in 1..Len(log'[q]) : log'[q][i].id <= m
  BY <1>1, <1>3, <1>7, Remembers, ZenonT(30)
<1>9. \A l \in Pair : handler[l] # None => handler[l].id <= m
  <2>. SUFFICES ASSUME NEW l \in Pair, handler[l] # None PROVE handler[l].id <= m
    BY Zenon
  <2>1. handler[l] \in Frame /\ handler[l].id <= Len(msgs)
    BY DEF MeshInv, FramesSent
  <2>2. handler[l].id \in Nat
    BY <2>1, FrameFields, Zenon
  <2>. QED
    BY <1>2, <1>3, <2>1, <2>2
<1>10. FramesSent'
  BY <1>1, <1>5, <1>6, <1>9, ZenonT(30) DEF FramesSent, MeshInv
<1>11. PacketsRight'
  BY <1>1, ZenonT(30) DEF MeshInv, PacketsRight, Waiting
<1>12. TablesRight'
  BY <1>1, <1>5, <1>6, <1>8, ZenonT(30) DEF TablesRight
<1>13. PlaceTypes'
  BY <1>1, Zenon DEF MeshInv, PlaceTypes
<1>. QED
  BY <1>10, <1>11, <1>12, <1>13 DEF MeshInv

LEMMA HandleFrameStep ==
    ASSUME MeshInv, NEW p \in Server, NEW s \in Server, <<p, s>> \in Pair,
           handle_frame(p, s)
    PROVE  MeshInv'
<1>. DEFINE l == <<p, s>>
            f == Head(wire[l])
<1>1. /\ wire[l] # <<>> /\ handler[l] = None
      /\ wire' = [wire EXCEPT ![l] = Tail(wire[l])]
      /\ UNCHANGED <<links, home, now, events, msgs>>
  BY ZenonT(30) DEF handle_frame, place
<1>2. /\ wire \in [Pair -> Seq(Frame)] /\ handler \in [Pair -> Frame \cup {None}]
      /\ \A i \in 1..Len(wire[l]) : wire[l][i].id <= Len(msgs)
      /\ Len(msgs) \in Nat /\ Len(msgs) <= MaxMessages
  BY MessageCount, Zenon DEF MeshInv, FramesSent
<1>. HIDE DEF l
<1>3. wire[l] \in Seq(Frame)
  BY <1>2, Zenon DEF l
<1>4. /\ f \in Frame /\ f.id <= Len(msgs) /\ Tail(wire[l]) \in Seq(Frame)
      /\ \A i \in 1..Len(Tail(wire[l])) : Tail(wire[l])[i].id <= Len(msgs)
  BY <1>1, <1>2, <1>3, TailIs, ZenonT(30)
<1>5. /\ wire' \in [Pair -> Seq(Frame)]
      /\ \A k \in Pair : \A i \in 1..Len(wire'[k]) : wire'[k][i].id <= Len(msgs)
  <2>1. wire' \in [Pair -> Seq(Frame)]
    BY <1>1, <1>2, <1>4, Zenon
  <2>2. \A k \in Pair : wire'[k] = wire[k] \/ wire'[k] = Tail(wire[l])
    BY <1>1, <1>2, Zenon
  <2>. QED
    BY <1>4, <2>1, <2>2, Zenon DEF MeshInv, FramesSent
<1>6. PlaceTypes'
  BY <1>1 DEF MeshInv, PlaceTypes
<1>7. CASE seen(s, f.id)
  <2>1. UNCHANGED <<to_local, handler, seen_ids, route_hints, log>>
    BY <1>7, Zenon DEF handle_frame, table, l
  <2>2. FramesSent'
    BY <1>1, <1>5, <2>1 DEF MeshInv, FramesSent
  <2>3. PacketsRight' /\ TablesRight'
    BY <1>1, <2>1, ZenonT(30) DEF MeshInv, PacketsRight, Waiting, TablesRight
  <2>. QED
    BY <1>6, <2>2, <2>3 DEF MeshInv
<1>8. CASE ~seen(s, f.id)
  <2>. DEFINE k == [id |-> f.id, transport |-> f.transport, to |-> f.to,
                    waiter |-> p]
  <2>1. /\ remember_message(s, f.id) /\ learn_route(s, f.from, p)
        /\ to_local' = [to_local EXCEPT ![s] = Append(to_local[s], k)]
        /\ handler' = [handler EXCEPT ![l] = f]
    BY <1>8, Zenon DEF handle_frame, l
  <2>. HIDE DEF f
  <2>2. /\ f.id \in 1..MaxMessages /\ f.id \in Nat
        /\ f.transport \in Transport /\ f.from \in Node /\ f.to \in Node
    BY <1>4, FrameFields, Zenon
  <2>3. Len(msgs) <= Len(msgs)
    BY <1>2
  <2>4. FramesSent'
    <3>1. handler' \in [Pair -> Frame \cup {None}]
      BY <1>2, <1>4, <2>1, Zenon
    <3>2. \A q \in Pair : handler'[q] = handler[q] \/ handler'[q] = f
      BY <1>2, <2>1
    <3>3. \A q \in Pair : handler'[q] # None => handler'[q].id <= Len(msgs)
      BY <1>4, <3>2, Zenon DEF MeshInv, FramesSent
    <3>. QED
      BY <1>1, <1>5, <3>1, <3>3, Zenon DEF MeshInv, FramesSent
  <2>5. /\ seen_ids' \in [Server -> Seq(SeenEntry)]
        /\ log' \in [Server -> Seq(Mention)]
        /\ \A q \in Server :
              /\ Len(seen_ids'[q]) <= MAX_SEEN_IDS
              /\ SeenRight(seen_ids'[q], log'[q], now)
              /\ Once(log'[q])
              /\ \A i \in 1..Len(log'[q]) : log'[q][i].id <= Len(msgs)
    BY <1>2, <1>4, <1>8, <2>1, <2>2, <2>3, Remembers, ZenonT(30)
  <2>6. /\ route_hints' \in [Server -> Seq(HintEntry)]
        /\ \A q \in Server : HintsRight(route_hints'[q])
    <3>. DEFINE r == insert(route_hints[s], [key |-> f.from, peer |-> p, at |-> now],
                            MAX_ROUTE_HINTS, ROUTE_TTL)
    <3>1. route_hints' = [route_hints EXCEPT ![s] = r]
      BY <2>1 DEF learn_route
    <3>2. HintsRight(r)
      BY <2>2, HintInsert, ZenonT(30) DEF MeshInv, TablesRight, PlaceTypes
    <3>. HIDE DEF r
    <3>3. /\ route_hints \in [Server -> Seq(HintEntry)]
          /\ \A q \in Server : HintsRight(route_hints[q])
      BY Zenon DEF MeshInv, TablesRight
    <3>4. r \in Seq(HintEntry)
      BY <3>2 DEF HintsRight
    <3>. QED
      BY <3>1, <3>2, <3>3, <3>4, ZenonT(30)
  <2>7. TablesRight'
    BY <1>1, <2>5, <2>6, Zenon DEF TablesRight
  <2>8. PacketsRight'
    <3>1. k \in Packet /\ k.waiter = p
      BY <2>2, Zenon DEF Packet
    <3>. HIDE DEF k
    <3>2. to_local \in [Server -> Seq(Packet)] /\ \A q \in Server : Waiting(q)
      BY Zenon DEF MeshInv, PacketsRight
    <3>3. Append(to_local[s], k) \in Seq(Packet)
      BY <3>1, <3>2, AppendIs, Zenon
    <3>4. to_local' \in [Server -> Seq(Packet)]
      BY <2>1, <3>2, <3>3, ZenonT(30)
    <3>5. handler'[l] # None /\ \A q \in Pair : handler[q] # None => handler'[q] # None
      BY <1>2, <1>4, <2>1, NoFrame DEF l
    <3>6. ASSUME NEW q \in Server, q # s PROVE Waiting(q)'
      BY <2>1, <3>2, <3>5, <3>6, WaitingKept, Zenon
    <3>7. Waiting(s)'
      <4>. DEFINE v == to_local[s]
      <4>1. /\ to_local'[s] = Append(v, k) /\ v \in Seq(Packet)
        BY <2>1, <3>2, Zenon
      <4>2. /\ 1..Len(to_local'[s]) = 1..Len(v) \cup {Len(v) + 1}
            /\ to_local'[s][Len(v) + 1] = k
            /\ \A i \in 1..Len(v) : to_local'[s][i] = v[i]
        BY <3>1, <4>1, AppendIs
      <4>3. /\ \A i \in 1..Len(v) : v[i].waiter # None =>
                   <<v[i].waiter, s>> \in Pair /\ handler[<<v[i].waiter, s>>] # None
            /\ \A i, j \in 1..Len(v) :
                  v[i].waiter = v[j].waiter => i = j \/ v[i].waiter = None
        BY <3>2, Zenon DEF Waiting
      <4>4. \A i \in 1..Len(v) : v[i].waiter = None \/ v[i].waiter # p
        BY <1>1, <4>3, Zenon DEF l
      <4>. HIDE DEF v
      <4>5. ASSUME NEW i \in 1..Len(to_local'[s]), to_local'[s][i].waiter # None
            PROVE  /\ <<to_local'[s][i].waiter, s>> \in Pair
                   /\ handler'[<<to_local'[s][i].waiter, s>>] # None
        BY <3>1, <3>5, <4>2, <4>3, <4>5, Zenon DEF l
      <4>6. ASSUME NEW i \in 1..Len(to_local'[s]), NEW j \in 1..Len(to_local'[s]),
                   to_local'[s][i].waiter = to_local'[s][j].waiter
            PROVE  i = j \/ to_local'[s][i].waiter = None
        BY <3>1, <4>2, <4>3, <4>4, <4>6, Zenon
      <4>. QED
        BY <4>5, <4>6, Zenon DEF Waiting
    <3>. QED
      BY <3>4, <3>6, <3>7, Zenon DEF PacketsRight
  <2>. QED
    BY <1>6, <2>4, <2>7, <2>8, Zenon DEF MeshInv
<1>. QED
  BY <1>7, <1>8
LEMMA RelayStep ==
    ASSUME MeshInv, NEW s \in Server, relay(s)
    PROVE  MeshInv'
<1>. DEFINE v == to_local[s]
            k == Head(v)
            p == k.waiter
            l == <<p, s>>
<1>1. /\ v # <<>> /\ to_local' = [to_local EXCEPT ![s] = Tail(v)]
      /\ handler' = IF p = None THEN handler ELSE [handler EXCEPT ![l] = None]
      /\ \/ UNCHANGED <<wire, route_hints>>
         \/ p # None /\ go_on(p, s, handler[l])
      /\ UNCHANGED <<seen_ids, links, home, now, events, msgs, log>>
  BY Zenon DEF relay, place
<1>2. /\ to_local \in [Server -> Seq(Packet)] /\ \A q \in Server : Waiting(q)
      /\ handler \in [Pair -> Frame \cup {None}]
  BY DEF MeshInv, PacketsRight, FramesSent
<1>3. v \in Seq(Packet)
  BY <1>2
<1>4. /\ k = v[1] /\ k \in Packet /\ 1 \in 1..Len(v) /\ Tail(v) \in Seq(Packet)
      /\ \A i \in 1..Len(Tail(v)) :
            i + 1 \in 1..Len(v) /\ i + 1 # 1 /\ Tail(v)[i] = v[i + 1]
  BY <1>1, <1>3, TailIs, ZenonT(30)
<1>5. /\ \A i \in 1..Len(v) : v[i].waiter # None =>
             <<v[i].waiter, s>> \in Pair /\ handler[<<v[i].waiter, s>>] # None
      /\ \A i, j \in 1..Len(v) :
             v[i].waiter = v[j].waiter => i = j \/ v[i].waiter = None
  BY <1>2, Zenon DEF Waiting
<1>. HIDE DEF v, k
<1>6. p # None => l \in Pair /\ handler[l] # None
  BY <1>4, <1>5
<1>7. handler' \in [Pair -> Frame \cup {None}]
  BY <1>1, <1>2, ZenonT(30)
<1>8. \A q \in Pair : handler'[q] = handler[q] \/ handler'[q] = None
  BY <1>1, <1>2, Zenon
<1>9. \A q \in Pair : q # l => handler'[q] = handler[q]
  BY <1>1, <1>2, ZenonT(30)
<1>10. /\ wire' \in [Pair -> Seq(Frame)]
       /\ \A q \in Pair : \A i \in 1..Len(wire'[q]) : wire'[q][i].id <= Len(msgs)
       /\ route_hints' \in [Server -> Seq(HintEntry)]
       /\ \A q \in Server : HintsRight(route_hints'[q])
  <2>1. CASE UNCHANGED <<wire, route_hints>>
    BY <2>1, ZenonT(30) DEF MeshInv, FramesSent, TablesRight
  <2>2. CASE p # None /\ go_on(p, s, handler[l])
    <3>1. handler[l] \in Frame /\ handler[l].id <= Len(msgs)
      BY <1>2, <1>6, <2>2 DEF MeshInv, FramesSent
    <3>. QED
      BY <2>2, <3>1, GoesOn, ZenonT(30)
  <2>. QED
    BY <1>1, <2>1, <2>2
<1>11. FramesSent'
  BY <1>1, <1>7, <1>8, <1>10, ZenonT(30) DEF MeshInv, FramesSent
<1>12. TablesRight'
  BY <1>1, <1>10, ZenonT(30) DEF MeshInv, TablesRight
<1>13. PlaceTypes'
  BY <1>1, Zenon DEF MeshInv, PlaceTypes
<1>14. to_local' \in [Server -> Seq(Packet)]
  BY <1>1, <1>2, <1>4, Zenon
<1>15. ASSUME NEW q \in Server, q # s PROVE Waiting(q)'
  <2>1. \A w \in Server : <<w, q>> # l
    BY <1>15, Zenon
  <2>2. to_local'[q] = to_local[q]
    BY <1>1, <1>2, <1>15, Zenon
  <2>. QED
    BY <1>2, <1>9, <2>1, <2>2, WaitingKept, Zenon
<1>16. Waiting(s)'
  <2>1. to_local'[s] = Tail(v)
    BY <1>1, <1>2
  <2>2. ASSUME NEW i \in 1..Len(Tail(v)), Tail(v)[i].waiter # None
        PROVE  /\ <<Tail(v)[i].waiter, s>> \in Pair
               /\ handler'[<<Tail(v)[i].waiter, s>>] # None
    <3>. DEFINE w == Tail(v)[i].waiter
    <3>1. /\ w = v[i + 1].waiter /\ i + 1 \in 1..Len(v) /\ i + 1 # 1 /\ w # None
      BY <1>4, <2>2, Zenon
    <3>. HIDE DEF w
    <3>2. <<w, s>> \in Pair /\ handler[<<w, s>>] # None
      BY <1>5, <3>1
    <3>3. w # p
      BY <1>4, <1>5, <3>1, Zenon
    <3>4. <<w, s>> # l
      BY <3>3
    <3>. QED
      BY <1>9, <3>2, <3>4, ZenonT(30) DEF w
  <2>3. ASSUME NEW i \in 1..Len(Tail(v)), NEW j \in 1..Len(Tail(v)),
               Tail(v)[i].waiter = Tail(v)[j].waiter
        PROVE  i = j \/ Tail(v)[i].waiter = None
    <3>1. i + 1 = j + 1 \/ v[i + 1].waiter = None
      BY <1>4, <1>5, <2>3, Zenon
    <3>2. i \in Nat /\ j \in Nat
      OBVIOUS
    <3>3. i + 1 = j + 1 => i = j
      BY <3>2, SameNext, Zenon
    <3>4. Tail(v)[i] = v[i + 1]
      BY <1>4, Zenon
    <3>. QED
      BY <3>1, <3>3, <3>4, ZenonT(30)
  <2>. QED
    BY <2>1, <2>2, <2>3, Zenon DEF Waiting
<1>17. PacketsRight'
  BY <1>14, <1>15, <1>16, Zenon DEF PacketsRight
<1>. QED
  BY <1>11, <1>12, <1>13, <1>17, Zenon DEF MeshInv

LEMMA TimedOutStep ==
    ASSUME MeshInv, NEW p \in Server, NEW s \in Server, <<p, s>> \in Pair,
           timed_out(p, s)
    PROVE  MeshInv'
<1>. DEFINE v == to_local[s]
            l == <<p, s>>
            r == [i \in DOMAIN v |->
                     IF v[i].waiter = p THEN [v[i] EXCEPT !.waiter = None] ELSE v[i]]
<1>1. /\ handler[l] # None /\ handler' = [handler EXCEPT ![l] = None]
      /\ to_local' = [to_local EXCEPT ![s] = r]
      /\ go_on(p, s, handler[l])
      /\ UNCHANGED <<seen_ids, links, home, now, events, msgs, log>>
  BY ZenonT(30) DEF timed_out, place, history
<1>2. /\ to_local \in [Server -> Seq(Packet)] /\ \A q \in Server : Waiting(q)
      /\ handler \in [Pair -> Frame \cup {None}]
  BY DEF MeshInv, PacketsRight, FramesSent
<1>3. v \in Seq(Packet) /\ DOMAIN v = 1..Len(v) /\ Len(v) \in Nat
  BY <1>2
<1>4. /\ \A i \in 1..Len(v) : v[i].waiter # None =>
             <<v[i].waiter, s>> \in Pair /\ handler[<<v[i].waiter, s>>] # None
      /\ \A i, j \in 1..Len(v) :
             v[i].waiter = v[j].waiter => i = j \/ v[i].waiter = None
  BY <1>2 DEF Waiting
<1>. HIDE DEF v
<1>5. ASSUME NEW i \in 1..Len(v)
      PROVE  /\ r[i] \in Packet
             /\ IF v[i].waiter = p THEN r[i].waiter = None
                ELSE r[i].waiter = v[i].waiter
  <2>1. v[i] \in Packet
    BY <1>3
  <2>2. [v[i] EXCEPT !.waiter = None] \in Packet
        /\ [v[i] EXCEPT !.waiter = None].waiter = None
    BY <2>1 DEF Packet
  <2>3. IF v[i].waiter = p THEN r[i] = [v[i] EXCEPT !.waiter = None] ELSE r[i] = v[i]
    BY <1>3
  <2>. QED
    BY <2>1, <2>2, <2>3, Zenon
<1>6. r \in Seq(Packet) /\ Len(r) = Len(v)
  BY <1>3, <1>5
<1>. HIDE DEF r
<1>7. handler' \in [Pair -> Frame \cup {None}]
  BY <1>1, <1>2, Zenon
<1>8. /\ \A q \in Pair : handler'[q] = handler[q] \/ handler'[q] = None
      /\ \A q \in Pair : q # l => handler'[q] = handler[q]
  BY <1>1, <1>2, Zenon
<1>9. handler[l] \in Frame /\ handler[l].id <= Len(msgs)
  BY <1>1, <1>2 DEF MeshInv, FramesSent
<1>10. /\ wire' \in [Pair -> Seq(Frame)]
       /\ \A q \in Pair : \A i \in 1..Len(wire'[q]) : wire'[q][i].id <= Len(msgs)
       /\ route_hints' \in [Server -> Seq(HintEntry)]
       /\ \A q \in Server : HintsRight(route_hints'[q])
  BY <1>1, <1>9, GoesOn, ZenonT(30)
<1>11. FramesSent'
  BY <1>1, <1>7, <1>8, <1>10, Zenon DEF MeshInv, FramesSent
<1>12. TablesRight'
  BY <1>1, <1>10, Zenon DEF MeshInv, TablesRight
<1>13. PlaceTypes'
  BY <1>1, Zenon DEF MeshInv, PlaceTypes
<1>14. to_local' \in [Server -> Seq(Packet)]
  BY <1>1, <1>2, <1>6, Zenon
<1>15. ASSUME NEW q \in Server, q # s PROVE Waiting(q)'
  <2>1. \A w \in Server : <<w, q>> # l
    BY <1>15, Zenon
  <2>2. to_local'[q] = to_local[q]
    BY <1>1, <1>2, <1>15
  <2>. QED
    BY <1>2, <1>8, <2>1, <2>2, WaitingKept, Zenon
<1>16. Waiting(s)'
  <2>1. to_local'[s] = r
    BY <1>1, <1>2, Zenon
  <2>2. ASSUME NEW i \in 1..Len(r), r[i].waiter # None
        PROVE  <<r[i].waiter, s>> \in Pair /\ handler'[<<r[i].waiter, s>>] # None
    <3>1. r[i].waiter = v[i].waiter /\ v[i].waiter # p
      BY <1>5, <1>6, <2>2, Zenon
    <3>2. <<v[i].waiter, s>> # l
      BY <3>1, Zenon
    <3>. QED
      BY <1>4, <1>6, <1>8, <2>2, <3>1, <3>2, Zenon
  <2>3. ASSUME NEW i \in 1..Len(r), NEW j \in 1..Len(r), r[i].waiter = r[j].waiter
        PROVE  i = j \/ r[i].waiter = None
    BY <1>4, <1>5, <1>6, <2>3, Zenon
  <2>. QED
    BY <2>1, <2>2, <2>3, ZenonT(30) DEF Waiting
<1>17. PacketsRight'
  BY <1>14, <1>15, <1>16 DEF PacketsRight
<1>. QED
  BY <1>11, <1>12, <1>13, <1>17, ZenonT(30) DEF MeshInv

LEMMA MoveStep ==
    ASSUME MeshInv, NEW n, NEW H \in SUBSET Server, move(n, H)
    PROVE  MeshInv'
<1>1. /\ events < MaxEvents /\ events' = events + 1
      /\ home' = [home EXCEPT ![n] = H]
      /\ UNCHANGED <<wire, to_local, handler, seen_ids, route_hints, links, now,
                     msgs, log>>
  BY DEF move, Event, table
<1>2. FramesSent' /\ PacketsRight' /\ TablesRight'
  BY <1>1, Zenon DEF MeshInv, FramesSent, PacketsRight, Waiting, TablesRight
<1>3. home' \in [Node \X Transport -> SUBSET Server]
  BY <1>1, Zenon DEF MeshInv, PlaceTypes
<1>4. events' \in 0..MaxEvents
  BY <1>1, NextWithin, MeshAssumption, TableAssumption, Zenon DEF MeshInv, PlaceTypes
<1>5. PlaceTypes'
  BY <1>1, <1>3, <1>4, Zenon DEF MeshInv, PlaceTypes
<1>. QED
  BY <1>2, <1>5, ZenonT(30) DEF MeshInv

LEMMA CutStep ==
    ASSUME MeshInv, NEW s, NEW p, cut(s, p)
    PROVE  MeshInv'
<1>1. /\ events < MaxEvents /\ events' = events + 1
      /\ links' = links \ {<<s, p>>, <<p, s>>}
      /\ wire' = [wire EXCEPT ![<<s, p>>] = <<>>, ![<<p, s>>] = <<>>]
      /\ UNCHANGED <<to_local, handler, seen_ids, route_hints, home, now, msgs, log>>
  BY Zenon DEF cut, Event, table
<1>2. wire \in [Pair -> Seq(Frame)] /\ links \subseteq Pair
  BY DEF MeshInv, FramesSent
<1>3. \A S : <<>> \in Seq(S) /\ Len(<<>>) = 0 /\ 1..0 = {}
  OBVIOUS
<1>4. wire' \in [Pair -> Seq(Frame)]
  BY <1>1, <1>2, <1>3, Zenon
<1>5. \A l \in Pair : wire'[l] = wire[l] \/ wire'[l] = <<>>
  BY <1>1, <1>2, Zenon
<1>6. \A l \in Pair : \A i \in 1..Len(wire'[l]) : wire'[l][i].id <= Len(msgs)
  BY <1>3, <1>5 DEF MeshInv, FramesSent
<1>7. FramesSent'
  BY <1>1, <1>2, <1>4, <1>6, Zenon DEF MeshInv, FramesSent
<1>8. PacketsRight' /\ TablesRight'
  BY <1>1, ZenonT(30) DEF MeshInv, PacketsRight, Waiting, TablesRight
<1>9. events' \in 0..MaxEvents
  BY <1>1, NextWithin, MeshAssumption, TableAssumption, Zenon DEF MeshInv, PlaceTypes
<1>10. PlaceTypes'
  BY <1>1, <1>9, Zenon DEF MeshInv, PlaceTypes
<1>. QED
  BY <1>7, <1>8, <1>10, Zenon DEF MeshInv

LEMMA TickStep ==
    ASSUME MeshInv, tick
    PROVE  MeshInv'
<1>1. /\ now < MaxClock /\ now' = now + 1
      /\ UNCHANGED <<wire, to_local, handler, seen_ids, route_hints, links, home,
                     events, msgs, log>>
  BY DEF tick, table, history
<1>2. FramesSent' /\ PacketsRight'
  BY <1>1, ZenonT(30) DEF MeshInv, FramesSent, PacketsRight, Waiting
<1>3. now \in Nat /\ now' \in 0..MaxClock
  BY <1>1, NextWithin, MeshAssumption, TableAssumption DEF MeshInv, PlaceTypes
<1>4. \A s \in Server : SeenRight(seen_ids[s], log[s], now + 1)
  BY <1>3, SeenTick, ZenonT(30) DEF MeshInv, TablesRight
<1>5. TablesRight'
  BY <1>1, <1>4, Zenon DEF MeshInv, TablesRight
<1>6. PlaceTypes'
  BY <1>1, <1>3, Zenon DEF MeshInv, PlaceTypes
<1>. QED
  BY <1>2, <1>5, <1>6, Zenon DEF MeshInv

LEMMA MeshNext == MeshInv /\ [Next]_vars => MeshInv'
<1>. SUFFICES ASSUME MeshInv, [Next]_vars PROVE MeshInv'
  OBVIOUS
<1>1. ASSUME NEW s \in Server, NEW transport \in Transport,
             NEW from \in Node, NEW to \in Node, send(s, transport, from, to)
      PROVE  MeshInv'
  BY <1>1, SendStep, Zenon
<1>2. ASSUME NEW l \in Pair, handle_frame(l[1], l[2]) \/ timed_out(l[1], l[2])
      PROVE  MeshInv'
  <2>1. l[1] \in Server /\ l[2] \in Server /\ <<l[1], l[2]>> = l
    BY DEF Pair
  <2>. QED
    BY <1>2, <2>1, HandleFrameStep, TimedOutStep, ZenonT(30)
<1>3. ASSUME NEW s \in Server, relay(s) PROVE MeshInv'
  BY <1>3, RelayStep, Zenon
<1>4. ASSUME NEW n \in Mobile, NEW H \in {{}} \cup {{s} : s \in Server}, move(n, H)
      PROVE  MeshInv'
  <2>1. H \in SUBSET Server
    OBVIOUS
  <2>. QED
    BY <1>4, <2>1, MoveStep, Zenon
<1>5. ASSUME NEW l \in Fragile, cut(l[1], l[2]) PROVE MeshInv'
  BY <1>5, CutStep
<1>6. CASE UNCHANGED vars
  BY <1>6, Zenon DEF vars, table, place, history, MeshInv, FramesSent, PacketsRight,
              Waiting, TablesRight, PlaceTypes
<1>. QED
  BY <1>1, <1>2, <1>3, <1>4, <1>5, <1>6, TickStep, Zenon DEF Next

\* The invariant of the mesh.
THEOREM MeshInvariant == Spec => []MeshInv
<1>. QED
  BY MeshInit, MeshNext, PTL DEF Spec

\* For any mesh, limits and times: the tables of seen messages and of routes
\* never grow past MAX_SEEN_IDS and MAX_ROUTE_HINTS, and a packet that a relay
\* answers belongs to a handler that has a frame to go on with.
THEOREM MeshTyped == Spec => []TypeOK
<1>1. MeshInv => TypeOK
  BY Zenon DEF MeshInv, FramesSent, PacketsRight, TablesRight, PlaceTypes, HintsRight,
         TypeOK, SeenEntry, HintEntry
<1>. QED
  BY <1>1, MeshInvariant, PTL

\* For any mesh, limits and times, whatever copies arrive by whatever path: a
\* server handles a message again (remember_message) only SEEN_TTL later, or
\* after MAX_SEEN_IDS other messages.
THEOREM MessagesHandledOnce == Spec => []HandledOnce
<1>1. MeshInv => HandledOnce
  <2>. SUFFICES ASSUME MeshInv, NEW s \in Server,
                       NEW i \in DOMAIN log[s], NEW j \in DOMAIN log[s],
                       i < j, log[s][i].id = log[s][j].id
                PROVE  \/ log[s][j].at - log[s][i].at >= SEEN_TTL
                       \/ AtLeast(MAX_SEEN_IDS,
                                  {log[s][k].id : k \in i + 1 .. j - 1})
    BY Zenon DEF HandledOnce
  <2>1. log[s] \in Seq(Mention) /\ Once(log[s])
    BY Zenon DEF MeshInv, TablesRight
  <2>2. i \in 1..Len(log[s]) /\ j \in 1..Len(log[s])
    BY <2>1, MentionPlaces, Zenon
  <2>3. log[s][j].at - log[s][i].at >= SEEN_TTL \/ Crowded(log[s], i, j)
    BY <2>1, <2>2 DEF Once
  <2>. QED
    BY <2>1, <2>2, <2>3, CrowdCount, ZenonT(30)
<1>. QED
  BY <1>1, MeshInvariant, PTL
=============================================================================
