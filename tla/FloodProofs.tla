---------------------------- MODULE FloodProofs ----------------------------
(***************************************************************************)
(* How often all servers of a mesh together handle a message: the ways     *)
(* that its copies can take, how many there are, and that no step makes    *)
(* more of them.                                                           *)
(***************************************************************************)
EXTENDS MeshProofs, FiniteSetTheorems

-----------------------------------------------------------------------------
(* The ways a frame may still take.                                        *)

\* A server forwards a frame to the others but the one it came from.
Letters == 1 .. Cardinality(Server) - 2

\* A word is a way of at most h steps; it ends with the first 0.
Words(h) ==
    {x \in [Nat -> Nat] : \E n \in 0..h :
        \A i \in Nat : IF i < n THEN x[i] \in Letters ELSE x[i] = 0}

NoWord == [i \in Nat |-> 0]

Cons(k, x) == [i \in Nat |-> IF i = 0 THEN k ELSE x[i - 1]]

Rest(x) == [i \in Nat |-> x[i + 1]]

LEMMA NoWordIn ==
    ASSUME NEW h \in Nat
    PROVE  NoWord \in Words(h)
<1>1. NoWord \in [Nat -> Nat]
  BY DEF NoWord
<1>2. 0 \in 0..h
  OBVIOUS
<1>3. \A i \in Nat : IF i < 0 THEN NoWord[i] \in Letters ELSE NoWord[i] = 0
  BY DEF NoWord
<1>. QED
  BY <1>1, <1>2, <1>3, Zenon DEF Words

LEMMA ConsIn ==
    ASSUME NEW h \in Nat, NEW k \in Letters, NEW x \in Words(h)
    PROVE  /\ Cons(k, x) \in Words(h + 1) /\ Cons(k, x) # NoWord
           /\ Cons(k, x)[0] = k /\ Rest(Cons(k, x)) = x
<1>. DEFINE z == Cons(k, x)
<1>1. x \in [Nat -> Nat] /\ k \in Nat \ {0}
  BY DEF Words, Letters
<1>2. PICK n \in 0..h : \A i \in Nat : IF i < n THEN x[i] \in Letters ELSE x[i] = 0
  BY DEF Words
<1>3. z[0] = k /\ \A i \in Nat \ {0} : z[i] = x[i - 1]
  BY DEF Cons
<1>4. z \in [Nat -> Nat]
  BY <1>1 DEF Cons
<1>5. Rest(z) = x
  <2>1. Rest(z) = [i \in Nat |-> x[i]]
    BY <1>3 DEF Rest
  <2>. QED
    BY <1>1, <2>1
<1>6. z # NoWord
  BY <1>1, <1>3 DEF NoWord
<1>. HIDE DEF z
<1>7. n + 1 \in 0 .. h + 1
  BY <1>2
<1>8. \A i \in Nat : IF i < n + 1 THEN z[i] \in Letters ELSE z[i] = 0
  <2>. SUFFICES ASSUME NEW i \in Nat
                PROVE  IF i < n + 1 THEN z[i] \in Letters ELSE z[i] = 0
    OBVIOUS
  <2>1. CASE i = 0
    BY <1>2, <1>3, <2>1
  <2>2. CASE i # 0
    <3>1. z[i] = x[i - 1] /\ i - 1 \in Nat
      BY <1>3, <2>2
    <3>2. IF i - 1 < n THEN x[i - 1] \in Letters ELSE x[i - 1] = 0
      BY <1>2, <3>1
    <3>3. i - 1 < n <=> i < n + 1
      BY <1>2
    <3>. QED
      BY <3>1, <3>2, <3>3, Zenon
  <2>. QED
    BY <2>1, <2>2
<1>9. z \in Words(h + 1)
  BY <1>4, <1>7, <1>8, Zenon DEF Words
<1>. QED
  BY <1>3, <1>5, <1>6, <1>9, Zenon DEF z

LEMMA WordIsCons ==
    ASSUME NEW h \in Nat, NEW x \in Words(h + 1), x # NoWord
    PROVE  \E k \in Letters, y \in Words(h) : x = Cons(k, y)
<1>1. x \in [Nat -> Nat]
  BY DEF Words
<1>2. PICK n \in 0 .. h + 1 :
         \A i \in Nat : IF i < n THEN x[i] \in Letters ELSE x[i] = 0
  BY DEF Words
<1>3. n # 0
  <2>. SUFFICES ASSUME n = 0 PROVE FALSE
    OBVIOUS
  <2>1. \A i \in Nat : x[i] = 0
    BY <1>2
  <2>2. x = [i \in Nat |-> x[i]]
    BY <1>1, Zenon
  <2>. QED
    BY <2>1, <2>2 DEF NoWord
<1>. DEFINE y == Rest(x)
<1>4. \A i \in Nat : y[i] = x[i + 1]
  BY DEF Rest
<1>5. y \in [Nat -> Nat]
  BY <1>1 DEF Rest
<1>6. x[0] \in Letters
  BY <1>2, <1>3
<1>7. x = Cons(x[0], y)
  <2>1. x = [i \in Nat |-> x[i]]
    BY <1>1
  <2>2. \A i \in Nat : x[i] = IF i = 0 THEN x[0] ELSE y[i - 1]
    BY <1>4
  <2>. HIDE DEF y
  <2>3. Cons(x[0], y) = [i \in Nat |-> x[i]]
    BY <2>2 DEF Cons
  <2>. QED
    BY <2>1, <2>3, Zenon
<1>. HIDE DEF y
<1>8. n - 1 \in 0..h
  BY <1>2, <1>3
<1>9. \A i \in Nat : IF i < n - 1 THEN y[i] \in Letters ELSE y[i] = 0
  <2>. SUFFICES ASSUME NEW i \in Nat
                PROVE  IF i < n - 1 THEN y[i] \in Letters ELSE y[i] = 0
    OBVIOUS
  <2>1. i + 1 \in Nat /\ (i + 1 < n <=> i < n - 1)
    BY <1>2
  <2>2. IF i + 1 < n THEN x[i + 1] \in Letters ELSE x[i + 1] = 0
    BY <1>2, <2>1
  <2>. QED
    BY <1>4, <2>1, <2>2, Zenon
<1>10. y \in Words(h)
  BY <1>5, <1>8, <1>9, Zenon DEF Words
<1>. QED
  BY <1>6, <1>7, <1>10, Zenon

-----------------------------------------------------------------------------
(* How many ways there are.                                                *)

LEMMA NoWordOnly == Words(0) = {NoWord}
<1>1. NoWord \in Words(0)
  BY NoWordIn
<1>2. ASSUME NEW x \in Words(0) PROVE x = NoWord
  <2>1. x \in [Nat -> Nat] /\ \A i \in Nat : x[i] = 0
    BY DEF Words
  <2>2. x = [i \in Nat |-> x[i]]
    BY <2>1
  <2>. QED
    BY <2>1, <2>2, Zenon DEF NoWord
<1>. QED
  BY <1>1, <1>2

\* A set is no larger than one that covers it.
LEMMA CoverCount ==
    ASSUME NEW S, NEW T, NEW f, IsFiniteSet(S),
           \A t \in T : \E v \in S : f[v] = t
    PROVE  IsFiniteSet(T) /\ Cardinality(T) <= Cardinality(S)
<1>. DEFINE S0 == {v \in S : f[v] \in T}
            F == [v \in S0 |-> f[v]]
<1>1. S0 \in SUBSET S
  OBVIOUS
<1>2. IsFiniteSet(S0) /\ Cardinality(S0) <= Cardinality(S)
  BY <1>1, FS_Subset, Zenon
<1>3. F \in [S0 -> T]
  OBVIOUS
<1>4. \A t \in T : \E v \in S0 : F[v] = t
  OBVIOUS
<1>5. F \in Surjection(S0, T)
  BY <1>3, <1>4, Zenon DEF Surjection
<1>6. IsFiniteSet(T) /\ Cardinality(T) <= Cardinality(S0)
  <2>. HIDE DEF F, S0
  <2>. QED
    BY <1>2, <1>5, FS_Surjection, Zenon
<1>7. Cardinality(T) \in Nat /\ Cardinality(S0) \in Nat /\ Cardinality(S) \in Nat
  BY <1>2, <1>6, FS_CardinalityType, Zenon
<1>. QED
  BY <1>2, <1>6, <1>7

LEMMA MoreWords ==
    ASSUME NEW h \in Nat, IsFiniteSet(Words(h)), IsFiniteSet(Letters)
    PROVE  /\ IsFiniteSet(Words(h + 1))
           /\ Cardinality(Words(h + 1)) <=
                 1 + Cardinality(Letters) * Cardinality(Words(h))
<1>. DEFINE S == Letters \X Words(h)
            T == Words(h + 1) \ {NoWord}
            f == [v \in S |-> Cons(v[1], v[2])]
<1>1. IsFiniteSet(S) /\ Cardinality(S) = Cardinality(Letters) * Cardinality(Words(h))
  BY FS_Product
<1>2. ASSUME NEW t \in T PROVE \E v \in S : f[v] = t
  <2>1. PICK k \in Letters, y \in Words(h) : t = Cons(k, y)
    BY WordIsCons
  <2>2. <<k, y>> \in S /\ f[<<k, y>>] = Cons(k, y)
    OBVIOUS
  <2>. QED
    BY <2>1, <2>2, Zenon
<1>. HIDE DEF f, S
<1>3. IsFiniteSet(T) /\ Cardinality(T) <= Cardinality(S)
  BY <1>1, <1>2, CoverCount, Zenon
<1>4. NoWord \in Words(h + 1)
  BY NoWordIn
<1>5. Words(h + 1) = T \cup {NoWord} /\ NoWord \notin T
  BY <1>4
<1>. HIDE DEF T
<1>6. IsFiniteSet(T \cup {NoWord}) /\ Cardinality(T \cup {NoWord}) = Cardinality(T) + 1
  BY <1>3, <1>5, FS_AddElement, Zenon
<1>7. Cardinality(T) \in Nat /\ Cardinality(S) \in Nat
  BY <1>1, <1>3, FS_CardinalityType, Zenon
<1>8. Cardinality(T) + 1 <= 1 + Cardinality(S)
  BY <1>3, <1>7
<1>. QED
  BY <1>1, <1>5, <1>6, <1>8, Zenon

LEMMA LettersCount ==
    ASSUME IsFiniteSet(Server), Server # {}
    PROVE  /\ IsFiniteSet(Letters)
           /\ Cardinality(Server) \in Nat \ {0}
           /\ Cardinality(Letters) =
                 IF Cardinality(Server) = 1 THEN 0 ELSE Cardinality(Server) - 2
<1>1. Cardinality(Server) \in Nat \ {0}
  BY FS_CardinalityType, FS_EmptySet, Zenon
<1>2. Cardinality(Server) - 2 \in Int /\ 1 \in Int
  BY <1>1
<1>3. /\ IsFiniteSet(Letters)
      /\ Cardinality(Letters) = IF 1 > Cardinality(Server) - 2 THEN 0
                                ELSE Cardinality(Server) - 2 - 1 + 1
  BY <1>2, FS_Interval, Zenon DEF Letters
<1>. QED
  BY <1>1, <1>3

LEMMA TimesLeq ==
    ASSUME NEW a \in Nat, NEW b \in Nat, NEW c \in Nat, a <= b
    PROVE  c * a <= c * b
<1>1. PICK k \in Nat : b = a + k
  <2>1. b - a \in Nat /\ b = a + (b - a)
    OBVIOUS
  <2>. QED
    BY <2>1
<1>2. c * b = c * a + c * k
  BY <1>1
<1>3. c * k \in Nat /\ c * a \in Nat
  OBVIOUS
<1>. QED
  BY <1>2, <1>3

LEMMA TimesStep ==
    ASSUME NEW d \in Nat, NEW c \in Nat, NEW k \in Nat, NEW F \in Nat,
           d # 0, d * c <= F, k <= 1 + (d - 1) * c
    PROVE  d * k <= d + (d - 1) * F
<1>. DEFINE e == d - 1
<1>1. e \in Nat /\ d = e + 1
  OBVIOUS
<1>. HIDE DEF e
<1>2. k <= 1 + e * c /\ 1 + e * c \in Nat
  BY <1>1 DEF e
<1>3. d * k <= d * (1 + e * c)
  BY <1>2, TimesLeq, Zenon
<1>4. d * (1 + e * c) = d + e * (d * c)
  BY <1>1
<1>5. d * c \in Nat
  OBVIOUS
<1>6. e * (d * c) <= e * F
  BY <1>1, <1>5, TimesLeq, ZenonT(30)
<1>7. d * k \in Nat /\ e * (d * c) \in Nat /\ e * F \in Nat
  BY <1>1, <1>5
<1>8. d * k <= d + e * F
  BY <1>3, <1>4, <1>6, <1>7
<1>. QED
  BY <1>8 DEF e

\* A recursive function on an interval exists.
LEMMA CopiesExist ==
    ASSUME NEW d \in Int, NEW n \in Nat
    PROVE  \E g : g = [h \in 0..n |-> IF h = 0 THEN d ELSE d + (d - 1) * g[h - 1]]
<1>. DEFINE Good(g, m) == /\ g \in [0..m -> Int]
                          /\ \A h \in 0..m :
                                g[h] = IF h = 0 THEN d ELSE d + (d - 1) * g[h - 1]
            Bad == {m \in Nat : ~\E g : Good(g, m)}
<1>1. Bad = {}
  <2>. SUFFICES ASSUME Bad # {} PROVE FALSE
    OBVIOUS
  <2>1. PICK m \in Bad : \A k \in Bad : m <= k
    BY LeastNat, ZenonT(30)
  <2>2. CASE m = 0
    <3>. DEFINE g == [h \in 0..0 |-> d]
    <3>1. Good(g, 0)
      OBVIOUS
    <3>. QED
      BY <2>1, <2>2, <3>1, Zenon
  <2>3. CASE m # 0
    <3>1. m - 1 \in Nat /\ ~(m <= m - 1) /\ m \in Nat
      BY <2>1, <2>3
    <3>2. PICK g : Good(g, m - 1)
      BY <2>1, <3>1, ZenonT(30)
    <3>. DEFINE k == [h \in 0..m |-> IF h < m THEN g[h] ELSE d + (d - 1) * g[m - 1]]
    <3>3. \A h \in 0 .. m - 1 : h \in 0..m /\ h < m /\ k[h] = g[h] /\ k[h] \in Int
      BY <3>1, <3>2
    <3>4. m - 1 \in 0 .. m - 1 /\ g[m - 1] \in Int
      BY <3>1, <3>2
    <3>5. k[m] = d + (d - 1) * g[m - 1] /\ k[m] \in Int
      BY <3>1, <3>4
    <3>6. DOMAIN k = 0..m /\ k = [h \in 0..m |-> k[h]]
      OBVIOUS
    <3>. HIDE DEF k
    <3>7. \A h \in 0..m : h = m \/ h \in 0 .. m - 1
      BY <3>1
    <3>8. k \in [0..m -> Int]
      <4>1. \A h \in 0..m : k[h] \in Int
        BY <3>3, <3>5, <3>7, Zenon
      <4>. QED
        BY <3>6, <4>1, Zenon
    <3>9. ASSUME NEW h \in 0..m
          PROVE  k[h] = IF h = 0 THEN d ELSE d + (d - 1) * k[h - 1]
      <4>1. CASE h = m
        BY <2>3, <3>3, <3>4, <3>5, <4>1, ZenonT(30)
      <4>2. CASE h # m
        <5>1. h \in 0 .. m - 1
          BY <3>7, <4>2
        <5>2. h # 0 => h - 1 \in 0 .. m - 1
          BY <3>1, <5>1
        <5>. QED
          BY <3>2, <3>3, <5>1, <5>2, ZenonT(30)
      <4>. QED
        BY <4>1, <4>2, Zenon
    <3>10. Good(k, m)
      BY <3>8, <3>9, Zenon
    <3>. QED
      BY <2>1, <3>10, Zenon
  <2>. QED
    BY <2>2, <2>3, Zenon
<1>2. PICK g : Good(g, n)
  BY <1>1, ZenonT(30)
<1>3. g = [h \in 0..n |-> g[h]]
  BY <1>2
<1>4. g = [h \in 0..n |-> IF h = 0 THEN d ELSE d + (d - 1) * g[h - 1]]
  BY <1>2, <1>3
<1>. QED
  BY <1>4

\* The numbers of a set name every element of another.
Names(A, S) == \E name : \A q \in S : \E a \in A : name[a] = q

LEMMA Numbered ==
    ASSUME NEW S, IsFiniteSet(S)
    PROVE  Names(1..Cardinality(S), S)
<1>1. ExistsBijection(1..Cardinality(S), S)
  BY FS_CardinalityType
<1>. QED
  BY <1>1, Zenon DEF Names, ExistsBijection, Bijection, Surjection

\* The servers but one have a number each, and the servers but two a letter.
LEMMA OthersNumbered ==
    ASSUME IsFiniteSet(Server), NEW s \in Server
    PROVE  Names(1 .. Cardinality(Server) - 1, Server \ {s})
<1>1. IsFiniteSet(Server \ {s})
  BY FS_RemoveElement
<1>2. Cardinality(Server \ {s}) = Cardinality(Server) - 1
  BY FS_RemoveElement
<1>3. Names(1..Cardinality(Server \ {s}), Server \ {s})
  BY <1>1, Numbered, Zenon
<1>. QED
  BY <1>2, <1>3, Zenon

LEMMA OthersLettered ==
    ASSUME IsFiniteSet(Server), NEW s \in Server, NEW p \in Server, p # s
    PROVE  Names(Letters, Server \ {s, p})
<1>. DEFINE S == (Server \ {s}) \ {p}
<1>1. Cardinality(Server) \in Nat
  BY FS_CardinalityType
<1>2. /\ IsFiniteSet(Server \ {s})
      /\ Cardinality(Server \ {s}) = Cardinality(Server) - 1
  BY FS_RemoveElement
<1>3. p \in Server \ {s}
  OBVIOUS
<1>4. IsFiniteSet(S) /\ Cardinality(S) = Cardinality(Server) - 1 - 1
  BY <1>2, <1>3, FS_RemoveElement, Zenon
<1>5. S = Server \ {s, p} /\ 1..Cardinality(S) = Letters
  BY <1>1, <1>4 DEF Letters
<1>. HIDE DEF S
<1>6. Names(1..Cardinality(S), S)
  BY <1>4, Numbered, Zenon
<1>. QED
  BY <1>5, <1>6, Zenon

LEMMA ConsInto ==
    ASSUME NEW h \in Nat, h # 0, NEW k \in Letters, NEW x \in Words(h - 1)
    PROVE  /\ Cons(k, x) \in Words(h) /\ Cons(k, x) # NoWord
           /\ Cons(k, x)[0] = k /\ Rest(Cons(k, x)) = x
<1>1. h - 1 \in Nat /\ (h - 1) + 1 = h
  OBVIOUS
<1>. QED
  BY <1>1, ConsIn, Zenon

-----------------------------------------------------------------------------
(* The ways that the copies of a message can still take and the times it   *)
(* was handled are covered by the ways there were when it was sent.        *)

LEMMA HopsNat ==
    ASSUME NEW f \in Frame
    PROVE  f.hops \in Nat
<1>1. f.hops \in 0..max_hops
  BY DEF Frame
<1>. QED
  BY <1>1

LEMMA PairIs ==
    ASSUME NEW l \in Pair
    PROVE  l = <<l[1], l[2]>> /\ l[1] \in Server /\ l[2] \in Server /\ l[1] # l[2]
<1>. QED
  BY DEF Pair

\* r is q with x at its end.
Grown(r, q, x) ==
    /\ 1..Len(r) = 1..Len(q) \cup {Len(q) + 1}
    /\ r[Len(q) + 1] = x
    /\ \A i \in 1..Len(q) : r[i] = q[i]

LEMMA AppendedIs ==
    ASSUME NEW S, NEW q \in Seq(S), NEW x \in S
    PROVE  Grown(Append(q, x), q, x)
<1>. QED
  BY AppendIs DEF Grown

\* A way that a message can take: handled where it is sent, or sent to one of
\* the others and on from there.
Budget == {<<0, NoWord>>} \cup ((1 .. Cardinality(Server) - 1) \X Words(max_hops))

\* A cover tells what each element of Budget has become.
Reached(c, t) == \E v \in Budget : c[v] = t

\* A way of a frame on a link, by its link and its place there.
WireCovered(c, w, m) ==
    \A l \in Pair : \A i \in 1..Len(w[l]) : w[l][i].id = m =>
        \A y \in Words(w[l][i].hops) : Reached(c, <<"wire", l, i, y>>)

\* A way of the frame of a handler: it goes on at least one step.
HandlerCovered(c, h, m) ==
    \A l \in Pair : h[l] # None /\ h[l].id = m =>
        \A y \in Words(h[l].hops) \ {NoWord} : Reached(c, <<"handler", l, 0, y>>)

\* An entry of a log, by its server and its place there.
LogCovered(c, g, m) ==
    \A s \in Server : \A i \in 1..Len(g[s]) : g[s][i].id = m =>
        Reached(c, <<"log", s, i, NoWord>>)

Covered(w, h, g, m) ==
    \E c : WireCovered(c, w, m) /\ HandlerCovered(c, h, m) /\ LogCovered(c, g, m)

\* What handle_frame does to the wires, the handlers and the logs.
Takes(l0, w, w2, h, h2, g, g2) ==
    /\ w[l0] # <<>> /\ w2 = [w EXCEPT ![l0] = Tail(w[l0])]
    /\ \A l \in Pair : h2[l] = h[l] \/ (l = l0 /\ h2[l] = Head(w[l0]))
    /\ \A s \in Server :
          \/ g2[s] = g[s]
          \/ /\ s = l0[2]
             /\ \E e \in Mention : e.id = Head(w[l0]).id /\ g2[s] = Append(g[s], e)

\* Where the ways of the frames on link l0 are then; n is the place in the log
\* of server s.
Shifted(t, l0, s, n) ==
    IF t[1] # "wire" \/ t[2] # l0 THEN t
    ELSE IF t[3] # 1 THEN <<"wire", l0, t[3] - 1, t[4]>>
    ELSE IF t[4] # NoWord THEN <<"handler", l0, 0, t[4]>>
    ELSE <<"log", s, n, NoWord>>

Shifts(l0, s, n) ==
    /\ \A l, i, y : l # l0 =>
          Shifted(<<"wire", l, i, y>>, l0, s, n) = <<"wire", l, i, y>>
    /\ \A l, i, y : Shifted(<<"handler", l, i, y>>, l0, s, n) = <<"handler", l, i, y>>
    /\ \A l, i, y : Shifted(<<"log", l, i, y>>, l0, s, n) = <<"log", l, i, y>>
    /\ \A i \in Nat : \A y : i + 1 # 1 =>
          Shifted(<<"wire", l0, i + 1, y>>, l0, s, n) = <<"wire", l0, i, y>>
    /\ \A y : y # NoWord =>
          Shifted(<<"wire", l0, 1, y>>, l0, s, n) = <<"handler", l0, 0, y>>
    /\ Shifted(<<"wire", l0, 1, NoWord>>, l0, s, n) = <<"log", s, n, NoWord>>

LEMMA ShiftedIs ==
    ASSUME NEW l0, NEW s, NEW n
    PROVE  Shifts(l0, s, n)
<1>1. \A i \in Nat : (i + 1) - 1 = i
  OBVIOUS
<1>2. \A i \in Nat : \A y : i + 1 # 1 =>
         Shifted(<<"wire", l0, i + 1, y>>, l0, s, n) = <<"wire", l0, i, y>>
  BY <1>1, Zenon DEF Shifted
<1>. QED
  BY <1>2, Zenon DEF Shifts, Shifted

\* handle_frame: the first frame of a link is dropped, or its ways go on from
\* the handler and the empty one is used up for the log.
LEMMA CoverShift ==
    ASSUME NEW w \in [Pair -> Seq(Frame)], NEW h, NEW g \in [Server -> Seq(Mention)],
           NEW w2, NEW h2, NEW g2, NEW m, NEW l0 \in Pair,
           Takes(l0, w, w2, h, h2, g, g2), Covered(w, h, g, m)
    PROVE  Covered(w2, h2, g2, m)
<1>0. /\ w[l0] # <<>> /\ w2 = [w EXCEPT ![l0] = Tail(w[l0])]
      /\ \A l \in Pair : h2[l] = h[l] \/ (l = l0 /\ h2[l] = Head(w[l0]))
      /\ \A s \in Server :
            \/ g2[s] = g[s]
            \/ /\ s = l0[2]
               /\ \E e \in Mention : e.id = Head(w[l0]).id /\ g2[s] = Append(g[s], e)
  BY Zenon DEF Takes
<1>. DEFINE f == Head(w[l0])
            s0 == l0[2]
            n0 == Len(g[s0]) + 1
            Moved(t) == Shifted(t, l0, s0, n0)
<1>1. PICK c : WireCovered(c, w, m) /\ HandlerCovered(c, h, m) /\ LogCovered(c, g, m)
  BY Zenon DEF Covered
<1>. DEFINE c2 == [v \in Budget |-> Moved(c[v])]
<1>2. w[l0] \in Seq(Frame) /\ g[s0] \in Seq(Mention)
  BY PairIs, Zenon
<1>3. /\ f \in Frame /\ f = w[l0][1] /\ 1 \in 1..Len(w[l0])
      /\ \A i \in 1..Len(Tail(w[l0])) :
            i + 1 \in 1..Len(w[l0]) /\ i + 1 # 1 /\ Tail(w[l0])[i] = w[l0][i + 1]
  BY <1>0, <1>2, TailIs, Zenon
<1>4. f.hops \in Nat
  BY <1>3, HopsNat, Zenon
<1>. HIDE DEF f
<1>5. Shifts(l0, s0, n0)
  BY ShiftedIs, Zenon
<1>6. /\ \A l, i, y : l # l0 => Moved(<<"wire", l, i, y>>) = <<"wire", l, i, y>>
      /\ \A l, i, y : Moved(<<"log", l, i, y>>) = <<"log", l, i, y>>
      /\ \A i \in Nat : \A y : i + 1 # 1 =>
            Moved(<<"wire", l0, i + 1, y>>) = <<"wire", l0, i, y>>
      /\ \A y : y # NoWord => Moved(<<"wire", l0, 1, y>>) = <<"handler", l0, 0, y>>
      /\ Moved(<<"wire", l0, 1, NoWord>>) = <<"log", s0, n0, NoWord>>
  BY <1>5, Zenon DEF Shifts
<1>handlers. \A l, i, y : Moved(<<"handler", l, i, y>>) = <<"handler", l, i, y>>
  BY <1>5, Zenon DEF Shifts
<1>. HIDE DEF Moved
<1>7. \A t : Reached(c, t) => Reached(c2, Moved(t))
  BY Zenon DEF Reached
<1>. HIDE DEF c2
<1>8. WireCovered(c2, w2, m)
  <2>. SUFFICES ASSUME NEW l \in Pair, NEW i \in 1..Len(w2[l]), w2[l][i].id = m,
                       NEW y \in Words(w2[l][i].hops)
                PROVE  Reached(c2, <<"wire", l, i, y>>)
    BY Zenon DEF WireCovered
  <2>1. CASE l = l0
    <3>1. w2[l] = Tail(w[l0])
      BY <1>0, <2>1, Zenon
    <3>2. i + 1 \in 1..Len(w[l0]) /\ i + 1 # 1 /\ w2[l][i] = w[l0][i + 1]
      BY <1>3, <3>1, Zenon
    <3>3. Reached(c, <<"wire", l0, i + 1, y>>)
      BY <1>1, <3>2, Zenon DEF WireCovered
    <3>4. i \in Nat
      OBVIOUS
    <3>5. Moved(<<"wire", l0, i + 1, y>>) = <<"wire", l0, i, y>>
      BY <1>6, <3>2, <3>4, Zenon
    <3>. QED
      BY <1>7, <2>1, <3>3, <3>5, Zenon
  <2>2. CASE l # l0
    <3>1. w2[l] = w[l]
      BY <1>0, <2>2, ZenonT(30)
    <3>2. Reached(c, <<"wire", l, i, y>>)
      BY <1>1, <3>1, Zenon DEF WireCovered
    <3>3. Moved(<<"wire", l, i, y>>) = <<"wire", l, i, y>>
      BY <1>6, <2>2, Zenon
    <3>. QED
      BY <1>7, <3>2, <3>3, Zenon
  <2>. QED
    BY <2>1, <2>2, Zenon
<1>9. HandlerCovered(c2, h2, m)
  <2>. SUFFICES ASSUME NEW l \in Pair, h2[l] # None, h2[l].id = m,
                       NEW y \in Words(h2[l].hops) \ {NoWord}
                PROVE  Reached(c2, <<"handler", l, 0, y>>)
    BY Zenon DEF HandlerCovered
  <2>1. CASE h2[l] = h[l]
    <3>1. Reached(c, <<"handler", l, 0, y>>)
      BY <1>1, <2>1, Zenon DEF HandlerCovered
    <3>2. Moved(<<"handler", l, 0, y>>) = <<"handler", l, 0, y>>
      BY <1>handlers, Zenon
    <3>. QED
      BY <1>7, <3>1, <3>2, Zenon
  <2>2. CASE l = l0 /\ h2[l] = f
    <3>1. Reached(c, <<"wire", l0, 1, y>>)
      BY <1>1, <1>3, <2>2, Zenon DEF WireCovered
    <3>2. Moved(<<"wire", l0, 1, y>>) = <<"handler", l0, 0, y>>
      BY <1>6, Zenon
    <3>. QED
      BY <1>7, <2>2, <3>1, <3>2, Zenon
  <2>. QED
    BY <1>0, <2>1, <2>2, Zenon DEF f
<1>10. LogCovered(c2, g2, m)
  <2>. SUFFICES ASSUME NEW s \in Server, NEW i \in 1..Len(g2[s]), g2[s][i].id = m
                PROVE  Reached(c2, <<"log", s, i, NoWord>>)
    BY Zenon DEF LogCovered
  <2>1. ASSUME i \in 1..Len(g[s]), g2[s][i] = g[s][i]
        PROVE  Reached(c2, <<"log", s, i, NoWord>>)
    <3>1. Reached(c, <<"log", s, i, NoWord>>)
      BY <1>1, <2>1, Zenon DEF LogCovered
    <3>2. Moved(<<"log", s, i, NoWord>>) = <<"log", s, i, NoWord>>
      BY <1>6, Zenon
    <3>. QED
      BY <1>7, <3>1, <3>2, Zenon
  <2>2. CASE g2[s] = g[s]
    BY <2>1, <2>2, Zenon
  <2>3. ASSUME s = s0, NEW e \in Mention, e.id = f.id, g2[s] = Append(g[s], e)
        PROVE  Reached(c2, <<"log", s, i, NoWord>>)
    <3>grown. Grown(Append(g[s], e), g[s], e)
      BY <1>2, <2>3, AppendedIs, Zenon
    <3>1. /\ 1..Len(g2[s]) = 1..Len(g[s]) \cup {Len(g[s]) + 1}
          /\ g2[s][Len(g[s]) + 1] = e
          /\ \A j \in 1..Len(g[s]) : g2[s][j] = g[s][j]
      BY <2>3, <3>grown, Zenon DEF Grown
    <3>2. CASE i \in 1..Len(g[s])
      BY <2>1, <3>1, <3>2, Zenon
    <3>3. CASE i = Len(g[s]) + 1
      <4>1. f.id = m
        BY <2>3, <3>1, <3>3, Zenon
      <4>2. NoWord \in Words(f.hops)
        BY <1>4, NoWordIn, Zenon
      <4>3. Reached(c, <<"wire", l0, 1, NoWord>>)
        BY <1>1, <1>3, <4>1, <4>2, Zenon DEF WireCovered
      <4>. QED
        BY <1>6, <1>7, <2>3, <3>3, <4>3, Zenon
    <3>. QED
      BY <3>1, <3>2, <3>3, Zenon
  <2>. QED
    BY <1>0, <2>2, <2>3, Zenon DEF f
<1>. QED
  BY <1>8, <1>9, <1>10, Zenon DEF Covered

\* Frames that are lost, handlers that end and steps of other messages.
LEMMA CoverKept ==
    ASSUME NEW w \in [Pair -> Seq(Frame)], NEW h, NEW g \in [Server -> Seq(Mention)],
           NEW w2, NEW h2, NEW g2, NEW m,
           \A l \in Pair : \/ w2[l] = w[l] \/ w2[l] = <<>>
                           \/ \E f \in Frame : f.id # m /\ w2[l] = Append(w[l], f),
           \A l \in Pair : h2[l] = h[l] \/ h2[l] = None,
           \A s \in Server : \/ g2[s] = g[s]
                             \/ \E e \in Mention : e.id # m /\ g2[s] = Append(g[s], e),
           Covered(w, h, g, m)
    PROVE  Covered(w2, h2, g2, m)
<1>1. PICK c : WireCovered(c, w, m) /\ HandlerCovered(c, h, m) /\ LogCovered(c, g, m)
  BY Zenon DEF Covered
<1>2. ASSUME NEW l \in Pair, NEW i \in 1..Len(w2[l]), w2[l][i].id = m
      PROVE  i \in 1..Len(w[l]) /\ w2[l][i] = w[l][i]
  <2>1. w[l] \in Seq(Frame)
    OBVIOUS
  <2>2. w2[l] # <<>>
    BY <1>2
  <2>3. ASSUME NEW f \in Frame, f.id # m, w2[l] = Append(w[l], f)
        PROVE  i \in 1..Len(w[l]) /\ w2[l][i] = w[l][i]
    BY <1>2, <2>1, <2>3, AppendIs
  <2>. QED
    BY <2>2, <2>3, Zenon
<1>3. WireCovered(c, w2, m)
  BY <1>1, <1>2, Zenon DEF WireCovered
<1>4. HandlerCovered(c, h2, m)
  BY <1>1, Zenon DEF HandlerCovered
<1>5. ASSUME NEW s \in Server, NEW i \in 1..Len(g2[s]), g2[s][i].id = m
      PROVE  i \in 1..Len(g[s]) /\ g2[s][i] = g[s][i]
  <2>1. g[s] \in Seq(Mention)
    BY Zenon
  <2>2. ASSUME NEW e \in Mention, e.id # m, g2[s] = Append(g[s], e)
        PROVE  i \in 1..Len(g[s]) /\ g2[s][i] = g[s][i]
    BY <1>5, <2>1, <2>2, AppendIs
  <2>. QED
    BY <2>2, Zenon
<1>6. LogCovered(c, g2, m)
  BY <1>1, <1>5, Zenon DEF LogCovered
<1>. QED
  BY <1>1, <1>3, <1>4, <1>6, Zenon DEF Covered

\* What forward_to_target does to the wires, and the end of a handler.
Sends(s, V, f, w, w2) ==
    w2 = [l \in Pair |-> IF l[1] = s /\ l[2] \in V THEN Append(w[l], f) ELSE w[l]]

Finishes(l0, h, h2) ==
    h2[l0] = None /\ \A l \in Pair : l # l0 => h2[l] = h[l]

Shorter(f, f2) == f.hops # 0 /\ f2.id = f.id /\ f2.hops = f.hops - 1

\* A frame f goes on from s, with a hop less, and not to p.
PassesOn(p, s, f, w, w2) ==
    \E V \in SUBSET (Server \ {s, p}), f2 \in Frame :
        Shorter(f, f2) /\ Sends(s, V, f2, w, w2)

\* Where the ways of the frame of handler l0 at server s are then.
Passed(t, l0, s, name, w) ==
    LET l == <<s, name[t[4][0]]>> IN
    IF t[1] = "handler" /\ t[2] = l0 THEN <<"wire", l, Len(w[l]) + 1, Rest(t[4])>> ELSE t

Passes(l0, s, name, w) ==
    /\ \A l, i, y : Passed(<<"wire", l, i, y>>, l0, s, name, w) = <<"wire", l, i, y>>
    /\ \A l, i, y : l # l0 =>
          Passed(<<"handler", l, i, y>>, l0, s, name, w) = <<"handler", l, i, y>>
    /\ \A l, i, y : Passed(<<"log", l, i, y>>, l0, s, name, w) = <<"log", l, i, y>>
    /\ \A y, a, l : y[0] = a /\ l = <<s, name[a]>> =>
          Passed(<<"handler", l0, 0, y>>, l0, s, name, w) =
             <<"wire", l, Len(w[l]) + 1, Rest(y)>>

LEMMA PassedIs ==
    ASSUME NEW l0, NEW s, NEW name, NEW w
    PROVE  Passes(l0, s, name, w)
<1>. QED
  BY Zenon DEF Passes, Passed

\* forward_to_target, for a handler: a way of its frame goes on to the server
\* that its first letter names.
LEMMA CoverForward ==
    ASSUME IsFiniteSet(Server),
           NEW w \in [Pair -> Seq(Frame)], NEW h, NEW g, NEW w2, NEW h2, NEW m,
           NEW p \in Server, NEW s \in Server, p # s, h[<<p, s>>] \in Frame,
           PassesOn(p, s, h[<<p, s>>], w, w2), Finishes(<<p, s>>, h, h2),
           Covered(w, h, g, m)
    PROVE  Covered(w2, h2, g, m)
<1>. DEFINE l0 == <<p, s>>
            f == h[l0]
<1>0. PICK V \in SUBSET (Server \ {s, p}), f2 \in Frame :
         Shorter(f, f2) /\ Sends(s, V, f2, w, w2)
  BY Zenon DEF PassesOn
<1>1. PICK c : WireCovered(c, w, m) /\ HandlerCovered(c, h, m) /\ LogCovered(c, g, m)
  BY Zenon DEF Covered
<1>2. PICK name : \A q \in Server \ {s, p} : \E a \in Letters : name[a] = q
  BY OthersLettered, ZenonT(30) DEF Names
<1>. DEFINE Moved(t) == Passed(t, l0, s, name, w)
            c2 == [v \in Budget |-> Moved(c[v])]
<1>3. l0 \in Pair
  BY Zenon DEF Pair
<1>4. f.hops \in Nat /\ f.hops # 0 /\ f # None
  <2>1. f.hops \in Nat
    BY HopsNat, Zenon
  <2>2. f # None
    BY NoFrame, Zenon
  <2>. QED
    BY <1>0, <2>1, <2>2, Zenon DEF Shorter
<1>. HIDE DEF l0, f
<1>5. Passes(l0, s, name, w)
  BY PassedIs, Zenon
<1>6. /\ \A l, i, y : Moved(<<"wire", l, i, y>>) = <<"wire", l, i, y>>
      /\ \A l, i, y : l # l0 => Moved(<<"handler", l, i, y>>) = <<"handler", l, i, y>>
      /\ \A l, i, y : Moved(<<"log", l, i, y>>) = <<"log", l, i, y>>
      /\ \A y, a, l : y[0] = a /\ l = <<s, name[a]>> =>
            Moved(<<"handler", l0, 0, y>>) = <<"wire", l, Len(w[l]) + 1, Rest(y)>>
  BY <1>5, Zenon DEF Passes
<1>. HIDE DEF Moved
<1>7. \A t : Reached(c, t) => Reached(c2, Moved(t))
  BY Zenon DEF Reached
<1>. HIDE DEF c2
<1>8. WireCovered(c2, w2, m)
  <2>. SUFFICES ASSUME NEW l \in Pair, NEW i \in 1..Len(w2[l]), w2[l][i].id = m,
                       NEW y \in Words(w2[l][i].hops)
                PROVE  Reached(c2, <<"wire", l, i, y>>)
    BY Zenon DEF WireCovered
  <2>1. w[l] \in Seq(Frame)
    BY Zenon
  <2>2. ASSUME i \in 1..Len(w[l]), w2[l][i] = w[l][i]
        PROVE  Reached(c2, <<"wire", l, i, y>>)
    <3>1. Reached(c, <<"wire", l, i, y>>)
      BY <1>1, <2>2, Zenon DEF WireCovered
    <3>2. Moved(<<"wire", l, i, y>>) = <<"wire", l, i, y>>
      BY <1>6, Zenon
    <3>. QED
      BY <1>7, <3>1, <3>2, Zenon
  <2>3. CASE ~(l[1] = s /\ l[2] \in V)
    <3>1. w2[l] = w[l]
      BY <1>0, <2>3, Zenon DEF Sends
    <3>. QED
      BY <2>2, <3>1, Zenon
  <2>4. CASE l[1] = s /\ l[2] \in V
    <3>1. w2[l] = Append(w[l], f2)
      BY <1>0, <2>4, Zenon DEF Sends
    <3>grown. Grown(Append(w[l], f2), w[l], f2)
      BY <2>1, AppendedIs, Zenon
    <3>2. /\ 1..Len(w2[l]) = 1..Len(w[l]) \cup {Len(w[l]) + 1}
          /\ w2[l][Len(w[l]) + 1] = f2
          /\ \A j \in 1..Len(w[l]) : w2[l][j] = w[l][j]
      BY <3>grown, <3>1, Zenon DEF Grown
    <3>3. CASE i \in 1..Len(w[l])
      BY <2>2, <3>2, <3>3, Zenon
    <3>4. CASE i = Len(w[l]) + 1
      <4>1. f.id = m /\ y \in Words(f.hops - 1)
        BY <1>0, <3>2, <3>4, Zenon DEF Shorter
      <4>2. PICK a \in Letters : name[a] = l[2]
        BY <1>2, <2>4, ZenonT(30)
      <4>. DEFINE z == Cons(a, y)
      <4>3. z \in Words(f.hops) /\ z # NoWord /\ z[0] = a /\ Rest(z) = y
        BY <1>4, <4>1, ConsInto, Zenon
      <4>. HIDE DEF z
      <4>4. Reached(c, <<"handler", l0, 0, z>>)
        <5>1. h[l0] = f
          BY ZenonT(30) DEF f
        <5>. QED
          BY <1>1, <1>3, <1>4, <4>1, <4>3, <5>1, Zenon DEF HandlerCovered
      <4>5. l = <<s, name[a]>>
        BY <2>4, <4>2, PairIs, Zenon
      <4>6. Moved(<<"handler", l0, 0, z>>) = <<"wire", l, Len(w[l]) + 1, Rest(z)>>
        BY <1>6, <4>3, <4>5, Zenon
      <4>7. Moved(<<"handler", l0, 0, z>>) = <<"wire", l, i, y>>
        BY <3>4, <4>3, <4>6, Zenon
      <4>. QED
        BY <1>7, <4>4, <4>7, Zenon
    <3>. QED
      BY <3>2, <3>3, <3>4, Zenon
  <2>. QED
    BY <2>3, <2>4, ZenonT(30)
<1>9. HandlerCovered(c2, h2, m)
  <2>. SUFFICES ASSUME NEW l \in Pair, h2[l] # None, h2[l].id = m,
                       NEW y \in Words(h2[l].hops) \ {NoWord}
                PROVE  Reached(c2, <<"handler", l, 0, y>>)
    BY Zenon DEF HandlerCovered
  <2>1. l # l0 /\ h2[l] = h[l]
    BY Zenon DEF l0, Finishes
  <2>2. Reached(c, <<"handler", l, 0, y>>)
    BY <1>1, <2>1, Zenon DEF HandlerCovered
  <2>3. Moved(<<"handler", l, 0, y>>) = <<"handler", l, 0, y>>
    BY <1>6, <2>1, Zenon
  <2>. QED
    BY <1>7, <2>2, <2>3, Zenon
<1>10. LogCovered(c2, g, m)
  <2>. SUFFICES ASSUME NEW q \in Server, NEW i \in 1..Len(g[q]), g[q][i].id = m
                PROVE  Reached(c2, <<"log", q, i, NoWord>>)
    BY Zenon DEF LogCovered
  <2>1. Reached(c, <<"log", q, i, NoWord>>)
    BY <1>1, Zenon DEF LogCovered
  <2>2. Moved(<<"log", q, i, NoWord>>) = <<"log", q, i, NoWord>>
    BY <1>6, Zenon
  <2>. QED
    BY <1>7, <2>1, <2>2, Zenon
<1>. QED
  BY <1>8, <1>9, <1>10, Zenon DEF Covered

\* A message of which there is nothing yet.
Fresh(w, h, g, m) ==
    /\ \A l \in Pair : \A i \in 1..Len(w[l]) : w[l][i].id # m
    /\ \A l \in Pair : h[l] # None => h[l].id # m
    /\ \A q \in Server : \A i \in 1..Len(g[q]) : g[q][i].id # m

\* send: the ways of a new message are all of Budget.
LEMMA CoverNew ==
    ASSUME IsFiniteSet(Server),
           NEW w \in [Pair -> Seq(Frame)], NEW h, NEW g \in [Server -> Seq(Mention)],
           NEW w2, NEW g2, NEW m,
           NEW s \in Server, NEW V \in SUBSET (Server \ {s}),
           NEW f \in Frame, f.hops = max_hops, NEW e \in Mention,
           Sends(s, V, f, w, w2), g2 = [g EXCEPT ![s] = Append(g[s], e)],
           Fresh(w, h, g, m)
    PROVE  Covered(w2, h, g2, m)
<1>1. PICK name : \A q \in Server \ {s} :
                     \E a \in 1 .. Cardinality(Server) - 1 : name[a] = q
  BY OthersNumbered, Zenon DEF Names
<1>. DEFINE c == [v \in Budget |->
                     IF v[1] = 0 THEN <<"log", s, Len(g[s]) + 1, NoWord>>
                     ELSE <<"wire", <<s, name[v[1]]>>,
                            Len(w[<<s, name[v[1]]>>]) + 1, v[2]>>]
<1>2. Reached(c, <<"log", s, Len(g[s]) + 1, NoWord>>)
  <2>1. <<0, NoWord>> \in Budget
    BY DEF Budget
  <2>2. c[<<0, NoWord>>] = <<"log", s, Len(g[s]) + 1, NoWord>>
    BY <2>1, Zenon
  <2>. QED
    BY <2>1, <2>2, Zenon DEF Reached
<1>3. ASSUME NEW l \in Pair, l[1] = s, NEW y \in Words(max_hops)
      PROVE  Reached(c, <<"wire", l, Len(w[l]) + 1, y>>)
  <2>1. l[2] \in Server \ {s} /\ l = <<s, l[2]>>
    BY <1>3 DEF Pair
  <2>2. PICK a \in 1 .. Cardinality(Server) - 1 : name[a] = l[2]
    BY <1>1, <2>1, Zenon
  <2>3. <<a, y>> \in Budget
    BY DEF Budget
  <2>4. a # 0
    OBVIOUS
  <2>5. c[<<a, y>>] = <<"wire", <<s, name[a]>>, Len(w[<<s, name[a]>>]) + 1, y>>
    BY <2>3, <2>4, ZenonT(30)
  <2>6. <<s, name[a]>> = l
    BY <2>1, <2>2, Zenon
  <2>7. c[<<a, y>>] = <<"wire", l, Len(w[l]) + 1, y>>
    BY <2>5, <2>6, Zenon
  <2>. QED
    BY <2>3, <2>7, Zenon DEF Reached
<1>. HIDE DEF c
<1>4. WireCovered(c, w2, m)
  <2>. SUFFICES ASSUME NEW l \in Pair, NEW i \in 1..Len(w2[l]), w2[l][i].id = m,
                       NEW y \in Words(w2[l][i].hops)
                PROVE  Reached(c, <<"wire", l, i, y>>)
    BY Zenon DEF WireCovered
  <2>1. w[l] \in Seq(Frame)
    BY Zenon
  <2>2. l[1] = s /\ w2[l] = Append(w[l], f)
    <3>1. w2[l] # w[l]
      BY Zenon DEF Fresh
    <3>. QED
      BY <3>1, Zenon DEF Sends
  <2>grown. Grown(Append(w[l], f), w[l], f)
    BY <2>1, AppendedIs, Zenon
  <2>3. /\ 1..Len(w2[l]) = 1..Len(w[l]) \cup {Len(w[l]) + 1}
        /\ w2[l][Len(w[l]) + 1] = f
        /\ \A j \in 1..Len(w[l]) : w2[l][j] = w[l][j]
    BY <2>grown, <2>2, Zenon DEF Grown
  <2>4. i = Len(w[l]) + 1
    BY <2>3, Zenon DEF Fresh
  <2>5. y \in Words(max_hops)
    BY <2>3, <2>4, Zenon
  <2>. QED
    BY <1>3, <2>2, <2>4, <2>5, Zenon
<1>5. HandlerCovered(c, h, m)
  BY Zenon DEF HandlerCovered, Fresh
<1>6. LogCovered(c, g2, m)
  <2>. SUFFICES ASSUME NEW q \in Server, NEW i \in 1..Len(g2[q]), g2[q][i].id = m
                PROVE  Reached(c, <<"log", q, i, NoWord>>)
    BY Zenon DEF LogCovered
  <2>1. g[q] \in Seq(Mention)
    OBVIOUS
  <2>2. q = s /\ g2[q] = Append(g[q], e)
    <3>1. g2[q] # g[q]
      BY Zenon DEF Fresh
    <3>. QED
      BY <3>1, Zenon
  <2>grown. Grown(Append(g[q], e), g[q], e)
    BY <2>1, AppendedIs, Zenon
  <2>3. /\ 1..Len(g2[q]) = 1..Len(g[q]) \cup {Len(g[q]) + 1}
        /\ \A j \in 1..Len(g[q]) : g2[q][j] = g[q][j]
    BY <2>grown, <2>2, Zenon DEF Grown
  <2>4. i = Len(g[q]) + 1
    BY <2>3, Zenon DEF Fresh
  <2>. QED
    BY <1>2, <2>2, <2>4, Zenon
<1>. QED
  BY <1>4, <1>5, <1>6, Zenon DEF Covered

\* What Copies counts.
LEMMA CopiesCount ==
    ASSUME IsFiniteSet(Server), Server # {}
    PROVE  /\ IsFiniteSet(Words(max_hops))
           /\ (Cardinality(Server) - 1) * Cardinality(Words(max_hops)) <= Copies
           /\ Copies \in Nat
<1>. DEFINE d == Cardinality(Server) - 1
            f[h \in 0..max_hops] == IF h = 0 THEN d ELSE d + (d - 1) * f[h - 1]
<1>1. d \in Nat /\ max_hops \in Nat
  BY LettersCount, MeshAssumption
<1>2. Copies = f[max_hops]
  BY DEF Copies
<1>3. f = [h \in 0..max_hops |-> IF h = 0 THEN d ELSE d + (d - 1) * f[h - 1]]
  <2>. HIDE DEF d
  <2>1. d \in Int
    BY <1>1
  <2>2. \E g : g = [h \in 0..max_hops |-> IF h = 0 THEN d ELSE d + (d - 1) * g[h - 1]]
    BY <1>1, <2>1, CopiesExist, Zenon
  <2>. QED
    BY <2>2, Zenon DEF f
<1>. HIDE DEF f
<1>4. \A h \in 0..max_hops : f[h] = IF h = 0 THEN d ELSE d + (d - 1) * f[h - 1]
  BY <1>3, Zenon
<1>5. IsFiniteSet(Letters) /\ Cardinality(Letters) = IF d = 0 THEN 0 ELSE d - 1
  BY LettersCount
<1>. HIDE DEF d
<1>. DEFINE Good(h) == /\ IsFiniteSet(Words(h)) /\ f[h] \in Nat
                       /\ d * Cardinality(Words(h)) <= f[h]
                       /\ d = 0 => f[h] = 0
            Bad == {h \in 0..max_hops : ~Good(h)}
<1>6. Good(0)
  <2>1. 0 \in 0..max_hops
    BY <1>1
  <2>2. f[0] = d
    BY <1>4, <2>1, Zenon
  <2>3. IsFiniteSet(Words(0)) /\ Cardinality(Words(0)) = 1
    BY NoWordOnly, FS_Singleton, ZenonT(30)
  <2>. QED
    BY <1>1, <2>2, <2>3
<1>7. ASSUME NEW h \in Nat, h + 1 \in 0..max_hops, Good(h) PROVE Good(h + 1)
  <2>. DEFINE c == Cardinality(Words(h))
              k == Cardinality(Words(h + 1))
  <2>1. f[h + 1] = d + (d - 1) * f[h]
    <3>1. f[h + 1] = IF h + 1 = 0 THEN d ELSE d + (d - 1) * f[(h + 1) - 1]
      BY <1>4, <1>7, Zenon
    <3>2. h + 1 # 0 /\ (h + 1) - 1 = h
      OBVIOUS
    <3>. QED
      BY <3>1, <3>2, Zenon
  <2>2. IsFiniteSet(Words(h + 1)) /\ k <= 1 + Cardinality(Letters) * c
    BY <1>5, <1>7, MoreWords, ZenonT(30)
  <2>3. c \in Nat /\ k \in Nat
    BY <1>7, <2>2, FS_CardinalityType, ZenonT(30)
  <2>4. f[h] \in Nat /\ d * c <= f[h] /\ (d = 0 => f[h] = 0)
    BY <1>7, Zenon
  <2>. HIDE DEF c, k
  <2>5. CASE d = 0
    <3>1. f[h + 1] = 0
      BY <2>1, <2>4, <2>5
    <3>. QED
      BY <2>2, <2>3, <2>5, <3>1 DEF k
  <2>6. CASE d # 0
    <3>1. k <= 1 + (d - 1) * c
      BY <1>5, <2>2, <2>6, ZenonT(30)
    <3>2. d * k <= d + (d - 1) * f[h]
      BY <1>1, <2>3, <2>4, <2>6, <3>1, TimesStep, ZenonT(30)
    <3>3. d - 1 \in Nat
      BY <1>1, <2>6
    <3>4. d + (d - 1) * f[h] \in Nat
      BY <1>1, <2>4, <3>3
    <3>. QED
      BY <2>1, <2>2, <2>6, <3>2, <3>4, ZenonT(30) DEF k
  <2>. QED
    BY <2>5, <2>6, Zenon
<1>. HIDE DEF Good
<1>8. Bad = {}
  <2>. SUFFICES ASSUME Bad # {} PROVE FALSE
    OBVIOUS
  <2>1. Bad \in SUBSET Nat
    OBVIOUS
  <2>2. PICK h \in Bad : \A k \in Bad : h <= k
    BY <2>1, LeastNat, ZenonT(30)
  <2>3. h \in 0..max_hops /\ ~Good(h)
    BY <2>2, Zenon
  <2>4. h - 1 \in Nat /\ h - 1 \in 0..max_hops /\ (h - 1) + 1 = h /\ ~(h <= h - 1)
    BY <1>1, <1>6, <2>3
  <2>5. Good(h - 1)
    BY <2>2, <2>4, Zenon
  <2>6. Good((h - 1) + 1)
    BY <1>7, <2>3, <2>4, <2>5, ZenonT(30)
  <2>. QED
    BY <2>3, <2>4, <2>6, ZenonT(30)
<1>9. max_hops \in 0..max_hops
  BY <1>1
<1>10. Good(max_hops)
  BY <1>8, <1>9, ZenonT(30)
<1>. QED
  BY <1>2, <1>10, Zenon DEF Good, d

\* The times that a message was handled.
Handlings(g, m) ==
    UNION {{<<s, i>> : i \in {j \in DOMAIN g[s] : g[s][j].id = m}} : s \in Server}

\* A message that is covered was handled no more often than Copies allows.
LEMMA CoveredCount ==
    ASSUME IsFiniteSet(Server), Server # {}, NEW w, NEW h,
           NEW g \in [Server -> Seq(Mention)], NEW m, Covered(w, h, g, m)
    PROVE  Cardinality(Handlings(g, m)) <= 1 + Copies
<1>. DEFINE T == Handlings(g, m)
            D == 1 .. Cardinality(Server) - 1
            S == D \X Words(max_hops)
<1>1. PICK c : LogCovered(c, g, m)
  BY Zenon DEF Covered
<1>. DEFINE f == [v \in Budget |-> <<c[v][2], c[v][3]>>]
<1>2. ASSUME NEW t \in T PROVE \E v \in Budget : f[v] = t
  <2>1. PICK s \in Server : \E i \in DOMAIN g[s] : g[s][i].id = m /\ t = <<s, i>>
    BY DEF Handlings
  <2>2. PICK i \in DOMAIN g[s] : g[s][i].id = m /\ t = <<s, i>>
    BY <2>1, Zenon
  <2>3. i \in 1..Len(g[s])
    <3>1. g[s] \in Seq(Mention)
      OBVIOUS
    <3>. QED
      BY <3>1
  <2>4. Reached(c, <<"log", s, i, NoWord>>)
    BY <1>1, <2>2, <2>3, Zenon DEF LogCovered
  <2>5. PICK v \in Budget : c[v] = <<"log", s, i, NoWord>>
    BY <2>4, Zenon DEF Reached
  <2>6. f[v] = <<s, i>>
    BY <2>5
  <2>. QED
    BY <2>2, <2>5, <2>6, Zenon
<1>. HIDE DEF f, T
<1>3. /\ IsFiniteSet(Words(max_hops)) /\ Copies \in Nat
      /\ (Cardinality(Server) - 1) * Cardinality(Words(max_hops)) <= Copies
  BY CopiesCount, Zenon
<1>4. Cardinality(Server) - 1 \in Nat
  BY LettersCount
<1>5. IsFiniteSet(D) /\ Cardinality(D) = Cardinality(Server) - 1
  BY <1>4, FS_Interval
<1>. HIDE DEF D
<1>6. IsFiniteSet(S) /\ Cardinality(S) = Cardinality(D) * Cardinality(Words(max_hops))
  BY <1>3, <1>5, FS_Product, Zenon
<1>7. Cardinality(S) \in Nat /\ Cardinality(S) <= Copies
  BY <1>3, <1>5, <1>6, FS_CardinalityType, ZenonT(30)
<1>8. Budget = S \cup {<<0, NoWord>>}
  BY DEF Budget, D
<1>. HIDE DEF S
<1>9. IsFiniteSet(Budget) /\ Cardinality(Budget) <= Cardinality(S) + 1
  <2>1. /\ IsFiniteSet(S \cup {<<0, NoWord>>})
        /\ Cardinality(S \cup {<<0, NoWord>>}) =
              IF <<0, NoWord>> \in S THEN Cardinality(S) ELSE Cardinality(S) + 1
    BY <1>6, FS_AddElement, Zenon
  <2>. QED
    BY <1>7, <1>8, <2>1
<1>10. IsFiniteSet(T) /\ Cardinality(T) <= Cardinality(Budget)
  BY <1>2, <1>9, CoverCount, Zenon
<1>11. Cardinality(T) \in Nat /\ Cardinality(Budget) \in Nat
  BY <1>9, <1>10, FS_CardinalityType, ZenonT(30)
<1>12. Cardinality(T) <= 1 + Copies
  BY <1>3, <1>7, <1>9, <1>10, <1>11
<1>. QED
  BY <1>12 DEF T

-----------------------------------------------------------------------------
(* The flood of a message.                                                 *)

FloodInv == \A m \in 1..Len(msgs) : Server # {} /\ Covered(wire, handler, log, m)

\* A frame goes to others, and not back.
LEMMA HopsAreOthers ==
    ASSUME MeshInv, NEW s \in Server, NEW exclude, NEW n
    PROVE  next_hops(s, exclude, n) \in SUBSET (Server \ {s, exclude})
<1>1. links \subseteq Pair
  BY Zenon DEF MeshInv, FramesSent
<1>2. \A p \in Peers(s) : p \in Server \ {s}
  BY <1>1, Zenon DEF Peers, Pair
<1>. QED
  BY <1>2, Zenon DEF next_hops

LEMMA FloodGoesOn ==
    ASSUME MeshInv, NEW p \in Server, NEW s \in Server, <<p, s>> \in Pair,
           handler[<<p, s>>] # None, go_on(p, s, handler[<<p, s>>]),
           handler' = [handler EXCEPT ![<<p, s>>] = None], log' = log,
           NEW m, Covered(wire, handler, log, m)
    PROVE  Covered(wire', handler', log', m)
<1>. DEFINE f == handler[<<p, s>>]
            f2 == [f EXCEPT !.hops = @ - 1]
            V == next_hops(s, p, f2.to)
<1>1. /\ wire \in [Pair -> Seq(Frame)] /\ log \in [Server -> Seq(Mention)]
      /\ handler \in [Pair -> Frame \cup {None}]
  BY ZenonT(30) DEF MeshInv, FramesSent, TablesRight
<1>2. p # s /\ f \in Frame
  BY <1>1, Zenon DEF Pair
<1>3. /\ handler'[<<p, s>>] = None
      /\ \A l \in Pair : l # <<p, s>> => handler'[l] = handler[l]
      /\ \A l \in Pair : handler'[l] = handler[l] \/ handler'[l] = None
  BY <1>1, Zenon
<1>4. CASE f.hops = 0
  <2>1. wire' = wire
    BY <1>4, Zenon DEF go_on
  <2>. QED
    BY <1>1, <1>3, <2>1, CoverKept, Zenon
<1>5. CASE f.hops # 0
  <2>1. f2 \in Frame /\ f2.id = f.id
    BY <1>2, <1>5, FrameFields, Zenon
  <2>2. Shorter(f, f2)
    <3>1. f2.hops = f.hops - 1
      BY <1>2 DEF Frame
    <3>. QED
      BY <1>5, <2>1, <3>1, Zenon DEF Shorter
  <2>3. forward_to_target(s, p, f2)
    BY <1>5, Zenon DEF go_on
  <2>. HIDE DEF f, f2
  <2>4. Sends(s, V, f2, wire, wire')
    BY <2>3, Zenon DEF forward_to_target, Sends
  <2>5. V \in SUBSET (Server \ {s, p})
    BY HopsAreOthers, Zenon
  <2>. HIDE DEF V
  <2>6. PassesOn(p, s, f, wire, wire')
    BY <2>1, <2>2, <2>4, <2>5, Zenon DEF PassesOn
  <2>7. Finishes(<<p, s>>, handler, handler') /\ IsFiniteSet(Server)
    BY <1>3, MeshAssumption, Zenon DEF Finishes
  <2>8. Covered(wire', handler', log, m)
    BY <1>1, <1>2, <2>6, <2>7, CoverForward DEF f
  <2>. QED
    BY <2>8, Zenon
<1>. QED
  BY <1>4, <1>5, ZenonT(30)

LEMMA FloodSend ==
    ASSUME MeshInv, FloodInv, NEW s \in Server, NEW transport \in Transport,
           NEW from \in Node, NEW to \in Node,
           send(s, transport, from, to)
    PROVE  FloodInv'
<1>. DEFINE n == Len(msgs) + 1
            f == [id |-> n, transport |-> transport, from |-> from, to |-> to,
                  hops |-> max_hops]
            e == [id |-> n, at |-> now]
            V == next_hops(s, None, f.to)
<1>1. /\ n <= MaxMessages /\ remember_message(s, n)
      /\ forward_to_target(s, None, f)
      /\ msgs' = Append(msgs, [transport |-> transport, from |-> from, to |-> to])
      /\ handler' = handler
  BY ZenonT(30) DEF send
<1>2. Len(msgs) \in Nat /\ msgs \in Seq(Message) /\ MaxMessages \in Nat
  BY MessageCount, TableAssumption, Zenon DEF MeshInv, FramesSent
<1>3. n \in 1..MaxMessages /\ 1 .. Len(msgs') = 1..Len(msgs) \cup {n}
  BY <1>1, <1>2, NewMessage, Zenon
<1>4. f \in Frame /\ f.id = n /\ f.hops = max_hops
  BY <1>3, NewFrame, Zenon
<1>5. e \in Mention /\ e.id = n
  BY <1>3, Zenon DEF Mention, MeshInv, PlaceTypes
<1>6. /\ wire \in [Pair -> Seq(Frame)] /\ log \in [Server -> Seq(Mention)]
      /\ handler \in [Pair -> Frame \cup {None}]
  BY Zenon DEF MeshInv, FramesSent, TablesRight
<1>. HIDE DEF f
<1>7. Sends(s, V, f, wire, wire')
  BY <1>1, Zenon DEF forward_to_target, Sends
<1>8. log' = [log EXCEPT ![s] = Append(log[s], e)]
  BY <1>1, Zenon DEF remember_message
<1>9. V \in SUBSET (Server \ {s, None})
  BY HopsAreOthers, Zenon
<1>. HIDE DEF V, e
<1>10. V \in SUBSET (Server \ {s})
  BY <1>9, Zenon
<1>11. \A k \in Nat : k <= Len(msgs) => k # n
  BY <1>2
<1>12. Fresh(wire, handler, log, n)
  <2>. HIDE DEF n
  <2>1. ASSUME NEW l \in Pair, NEW i \in 1..Len(wire[l]) PROVE wire[l][i].id # n
    <3>1. wire[l] \in Seq(Frame) /\ wire[l][i].id <= Len(msgs)
      BY Zenon DEF MeshInv, FramesSent
    <3>2. wire[l][i] \in Frame
      BY <3>1
    <3>3. wire[l][i].id \in Nat
      BY <3>2, FrameFields, Zenon
    <3>. QED
      BY <1>11, <3>1, <3>3, Zenon
  <2>2. ASSUME NEW l \in Pair, handler[l] # None PROVE handler[l].id # n
    <3>1. handler[l] \in Frame /\ handler[l].id <= Len(msgs)
      BY <2>2, Zenon DEF MeshInv, FramesSent
    <3>2. handler[l].id \in Nat
      BY <3>1, FrameFields, Zenon
    <3>. QED
      BY <1>11, <3>1, <3>2, Zenon
  <2>3. ASSUME NEW q \in Server, NEW i \in 1..Len(log[q]) PROVE log[q][i].id # n
    <3>1. log[q] \in Seq(Mention) /\ log[q][i].id <= Len(msgs)
      BY ZenonT(30) DEF MeshInv, TablesRight
    <3>2. log[q][i].id \in Nat
      BY <3>1, MentionIds, Zenon
    <3>. QED
      BY <1>11, <3>1, <3>2, Zenon
  <2>. QED
    BY <2>1, <2>2, <2>3, Zenon DEF Fresh
<1>13. Covered(wire', handler, log', n)
  <2>. HIDE DEF n
  <2>1. IsFiniteSet(Server)
    BY MeshAssumption, Zenon
  <2>. QED
    BY <1>4, <1>5, <1>6, <1>7, <1>8, <1>10, <1>12, <2>1, CoverNew, Zenon
<1>14. ASSUME NEW m \in 1..Len(msgs) PROVE Covered(wire', handler, log', m)
  <2>1. m # n
    BY <1>2
  <2>. HIDE DEF n
  <2>2. \A l \in Pair : \/ wire'[l] = wire[l]
                        \/ f.id # m /\ wire'[l] = Append(wire[l], f)
    BY <1>4, <1>7, <2>1, Zenon DEF Sends
  <2>3. \A q \in Server : \/ log'[q] = log[q]
                          \/ e.id # m /\ log'[q] = Append(log[q], e)
    BY <1>5, <1>6, <1>8, <2>1, ZenonT(30)
  <2>4. Covered(wire, handler, log, m)
    BY DEF FloodInv
  <2>. QED
    BY <1>4, <1>5, <1>6, <2>2, <2>3, <2>4, CoverKept, Zenon
<1>15. Server # {}
  BY Zenon
<1>. HIDE DEF n
<1>. QED
  BY <1>1, <1>3, <1>13, <1>14, <1>15, Zenon DEF FloodInv

LEMMA FloodNext == MeshInv /\ FloodInv /\ [Next]_vars => FloodInv'
<1>. SUFFICES ASSUME MeshInv, FloodInv, [Next]_vars PROVE FloodInv'
  OBVIOUS
<1>1. /\ wire \in [Pair -> Seq(Frame)] /\ log \in [Server -> Seq(Mention)]
      /\ handler \in [Pair -> Frame \cup {None}]
  BY Zenon DEF MeshInv, FramesSent, TablesRight
<1>2. ASSUME msgs' = msgs,
             ASSUME NEW m, Covered(wire, handler, log, m)
             PROVE  Covered(wire', handler', log', m)
      PROVE  FloodInv'
  BY <1>2, Zenon DEF FloodInv
<1>3. ASSUME msgs' = msgs, log' = log, handler' = handler,
             \A l \in Pair : wire'[l] = wire[l] \/ wire'[l] = <<>>
      PROVE  FloodInv'
  BY <1>1, <1>2, <1>3, CoverKept, Zenon
<1>4. ASSUME NEW s \in Server, NEW transport \in Transport,
             NEW from \in Node, NEW to \in Node, send(s, transport, from, to)
      PROVE  FloodInv'
  BY <1>4, FloodSend, Zenon
<1>5. ASSUME NEW l \in Pair, handle_frame(l[1], l[2]) PROVE FloodInv'
  <2>. DEFINE f == Head(wire[l])
              e == [id |-> f.id, at |-> now]
  <2>1. l[1] \in Server /\ l[2] \in Server /\ <<l[1], l[2]>> = l
    BY DEF Pair
  <2>2. /\ wire[l] # <<>> /\ wire' = [wire EXCEPT ![l] = Tail(wire[l])]
        /\ msgs' = msgs
        /\ \/ UNCHANGED <<handler, log>>
           \/ /\ handler' = [handler EXCEPT ![l] = f]
              /\ log' = [log EXCEPT ![l[2]] = Append(log[l[2]], e)]
    BY <1>5, <2>1, ZenonT(30) DEF handle_frame, remember_message, table
  <2>3. f \in Frame
    BY <1>1, <2>2, TailIs, ZenonT(30)
  <2>4. e \in Mention /\ e.id = f.id
    <3>1. f.id \in 1..MaxMessages
      BY <2>3, FrameFields, Zenon
    <3>. QED
      BY <3>1, Zenon DEF Mention, MeshInv, PlaceTypes
  <2>. HIDE DEF e
  <2>5. \A q \in Pair : handler'[q] = handler[q] \/ (q = l /\ handler'[q] = f)
    BY <1>1, <2>2, ZenonT(30)
  <2>6. \A q \in Server : \/ log'[q] = log[q]
                          \/ q = l[2] /\ log'[q] = Append(log[q], e)
    BY <1>1, <2>2, ZenonT(30)
  <2>7. \A q \in Server : \/ log'[q] = log[q]
                          \/ /\ q = l[2]
                             /\ \E k \in Mention : k.id = f.id /\ log'[q] = Append(log[q], k)
    BY <2>4, <2>6, Zenon
  <2>8. Takes(l, wire, wire', handler, handler', log, log')
    BY <2>2, <2>5, <2>7, Zenon DEF Takes
  <2>9. ASSUME NEW m, Covered(wire, handler, log, m)
        PROVE  Covered(wire', handler', log', m)
    BY <1>1, <2>8, <2>9, CoverShift, Zenon
  <2>. QED
    BY <1>2, <2>2, <2>9, ZenonT(30)
<1>6. ASSUME NEW l \in Pair, timed_out(l[1], l[2]) PROVE FloodInv'
  <2>1. l[1] \in Server /\ l[2] \in Server /\ <<l[1], l[2]>> = l
    BY DEF Pair
  <2>2. /\ handler[<<l[1], l[2]>>] # None
        /\ handler' = [handler EXCEPT ![<<l[1], l[2]>>] = None]
        /\ go_on(l[1], l[2], handler[<<l[1], l[2]>>])
        /\ msgs' = msgs /\ log' = log
    BY <1>6, Zenon DEF timed_out, history
  <2>3. ASSUME NEW m, Covered(wire, handler, log, m)
        PROVE  Covered(wire', handler', log', m)
    BY <2>1, <2>2, <2>3, FloodGoesOn, ZenonT(30)
  <2>. QED
    BY <1>2, <2>2, <2>3, ZenonT(30)
<1>7. ASSUME NEW s \in Server, relay(s) PROVE FloodInv'
  <2>. DEFINE k == Head(to_local[s])
              p == k.waiter
  <2>1. /\ to_local[s] # <<>> /\ msgs' = msgs /\ log' = log
        /\ handler' = IF p = None THEN handler ELSE [handler EXCEPT ![<<p, s>>] = None]
        /\ \/ wire' = wire
           \/ p # None /\ go_on(p, s, handler[<<p, s>>])
    BY <1>7, Zenon DEF relay
  <2>2. to_local[s] \in Seq(Packet) /\ Waiting(s)
    BY DEF MeshInv, PacketsRight
  <2>3. k = to_local[s][1] /\ 1 \in 1..Len(to_local[s]) /\ k \in Packet
    BY <2>1, <2>2, TailIs, ZenonT(30)
  <2>4. p # None => p \in Server /\ <<p, s>> \in Pair /\ handler[<<p, s>>] # None
    <3>1. p # None => p \in Server
      BY <2>3 DEF Packet
    <3>. QED
      BY <2>2, <2>3, <3>1, ZenonT(30) DEF Waiting
  <2>. HIDE DEF p
  <2>5. CASE wire' = wire
    <3>1. \A l \in Pair : handler'[l] = handler[l] \/ handler'[l] = None
      BY <1>1, <2>1, ZenonT(30)
    <3>2. ASSUME NEW m, Covered(wire, handler, log, m)
          PROVE  Covered(wire', handler', log', m)
      BY <1>1, <2>1, <2>5, <3>1, <3>2, CoverKept, Zenon
    <3>. QED
      BY <1>2, <2>1, <3>2, ZenonT(30)
  <2>6. CASE p # None /\ go_on(p, s, handler[<<p, s>>])
    <3>1. ASSUME NEW m, Covered(wire, handler, log, m)
          PROVE  Covered(wire', handler', log', m)
      BY <2>1, <2>4, <2>6, <3>1, FloodGoesOn, Zenon
    <3>. QED
      BY <1>2, <2>1, <3>1, Zenon
  <2>. QED
    BY <2>1, <2>5, <2>6, ZenonT(30)
<1>8. ASSUME NEW n \in Mobile, NEW H, move(n, H) PROVE FloodInv'
  BY <1>3, <1>8, ZenonT(30) DEF move
<1>9. ASSUME NEW l \in Fragile, cut(l[1], l[2]) PROVE FloodInv'
  <2>1. /\ wire' = [wire EXCEPT ![<<l[1], l[2]>>] = <<>>, ![<<l[2], l[1]>>] = <<>>]
        /\ UNCHANGED <<handler, msgs, log>>
    BY <1>9 DEF cut
  <2>2. \A k \in Pair : wire'[k] = wire[k] \/ wire'[k] = <<>>
    BY <1>1, <2>1, Zenon
  <2>. QED
    BY <1>3, <2>1, <2>2, ZenonT(30)
<1>10. CASE tick
  BY <1>3, <1>10, ZenonT(30) DEF tick, history
<1>11. CASE UNCHANGED vars
  BY <1>3, <1>11, Zenon DEF vars, history
<1>. QED
  BY <1>4, <1>5, <1>6, <1>7, <1>8, <1>9, <1>10, <1>11, ZenonT(30) DEF Next

\* For any mesh, with tables of any size and whatever moves, time-outs and cuts
\* there are: a message is handled (remember_message) once where it was sent and
\* at most once for each copy that max_hops allows, since forward_to_target
\* never sends a frame back where it came from and go_on takes one hop.
THEOREM FloodBounded == Spec => []BoundedFlood
<1>1. Init => FloodInv
  <2>1. 1..Len(<<>>) = {}
    OBVIOUS
  <2>. QED
    BY <2>1 DEF Init, FloodInv
<1>2. MeshInv /\ FloodInv => BoundedFlood
  <2>. SUFFICES ASSUME MeshInv, FloodInv, NEW m \in Messages
                PROVE  Cardinality(Handlings(log, m)) <= 1 + Copies
    BY Zenon DEF BoundedFlood, Handlings
  <2>1. msgs \in Seq(Message) /\ log \in [Server -> Seq(Mention)]
    BY DEF MeshInv, FramesSent, TablesRight
  <2>2. m \in 1..Len(msgs)
    BY <2>1 DEF Messages
  <2>3. Server # {} /\ Covered(wire, handler, log, m)
    BY <2>2 DEF FloodInv
  <2>4. IsFiniteSet(Server)
    BY MeshAssumption, Zenon
  <2>. QED
    BY <2>1, <2>3, <2>4, CoveredCount, Zenon
<1>. QED
  BY <1>1, <1>2, FloodNext, MeshInvariant, PTL DEF Spec
=============================================================================
