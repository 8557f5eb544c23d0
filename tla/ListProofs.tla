------------------------------ MODULE ListProofs ------------------------------
(***************************************************************************)
(* Lemmas about lists: induction, and what Only returns.  A property of all *)
(* numbers or of all sequences is the set of those that have it.            *)
(***************************************************************************)
EXTENDS Lists, SequenceTheorems, WellFoundedInduction, TLAPS

Elements(s) == {s[i] : i \in DOMAIN s}

\* No two elements of a list are related by R.
Apart(s, R) == \A i, j \in DOMAIN s : <<s[i], s[j]>> \in R => i = j

-----------------------------------------------------------------------------
(* Induction. *)

LEMMA LeastElement ==
  ASSUME NEW S, S \subseteq Nat, S # {}
  PROVE  \E x \in S : \A y \in S : x <= y
<1> DEFINE R == {p \in Nat \X Nat : p[1] < p[2]}
<1>1. IsWellFoundedOn(R, Nat)
  BY NatLessThanWellFounded, Zenon DEF OpToRel
<1>2. PICK x \in S : \A y \in S : <<y, x>> \notin R
  <2> HIDE DEF R
  <2> QED BY <1>1, WFMin
<1>3. ASSUME NEW y \in S
      PROVE  x <= y
  <2>1. <<y, x>> \in Nat \X Nat /\ <<y, x>>[1] = y /\ <<y, x>>[2] = x
    OBVIOUS
  <2>2. ~(y < x)
    BY <1>2, <2>1
  <2> QED BY <2>2
<1> QED BY <1>3

LEMMA UpTo ==
  ASSUME NEW N \in Nat, NEW Q, 0 \in Q, \A n \in 0 .. N - 1 : n \in Q => n + 1 \in Q
  PROVE  0 .. N \subseteq Q
<1> DEFINE Bad == {n \in 0 .. N : n \notin Q}
<1> SUFFICES ASSUME Bad # {}
             PROVE  FALSE
  OBVIOUS
<1>1. PICK n \in Bad : \A k \in Bad : n <= k
  <2>1. Bad \subseteq Nat
    OBVIOUS
  <2> HIDE DEF Bad
  <2> QED BY <2>1, LeastElement
<1>2. n # 0 /\ n - 1 \in 0 .. N - 1 /\ (n - 1) + 1 = n /\ ~(n <= n - 1)
  BY <1>1
<1>3. n - 1 \notin Bad
  BY <1>1, <1>2
<1> QED BY <1>1, <1>2, <1>3

\* What holds of the empty sequence and of one element more, holds of all.
LEMMA AllSequences ==
  ASSUME NEW T, NEW Q, <<>> \in Q,
         \A s \in Seq(T) : \A e \in T : s \in Q => Append(s, e) \in Q
  PROVE  Seq(T) \subseteq Q
<1> SUFFICES ASSUME NEW t \in Seq(T)
             PROVE  t \in Q
  OBVIOUS
<1> DEFINE L == {n \in Nat : \A s \in Seq(T) : Len(s) = n => s \in Q}
<1>1. 0 \in L
  <2>1. \A s \in Seq(T) : Len(s) = 0 => s = <<>>
    BY EmptySeq
  <2> QED BY <2>1
<1>2. ASSUME NEW n \in Nat, n \in L
      PROVE  n + 1 \in L
  <2> SUFFICES ASSUME NEW s \in Seq(T), Len(s) = n + 1
               PROVE  s \in Q
    OBVIOUS
  <2>1. s # <<>>
    BY <1>2
  <2>2. PICK r \in Seq(T), e \in T : s = Append(r, e)
    BY <2>1, SequenceEmptyOrAppend
  <2>3. Len(r) = n
    BY <2>2, AppendProperties
  <2> QED BY <1>2, <2>2, <2>3
<1> HIDE DEF L
<1>3. Len(t) \in Nat
  OBVIOUS
<1>4. 0 .. Len(t) \subseteq L
  <2>1. \A n \in 0 .. Len(t) - 1 : n \in L => n + 1 \in L
    BY <1>2
  <2> QED BY <1>1, <1>3, <2>1, UpTo
<1>5. Len(t) \in L
  BY <1>3, <1>4
<1> QED BY <1>5 DEF L

-----------------------------------------------------------------------------
(* Appending. *)

LEMMA Appending ==
  ASSUME NEW T, NEW s \in Seq(T), NEW e \in T
  PROVE  /\ Append(s, e) \in Seq(T) /\ Len(s) \in Nat /\ Len(Append(s, e)) = Len(s) + 1
         /\ DOMAIN s = 1 .. Len(s) /\ DOMAIN Append(s, e) = 1 .. Len(s) + 1
         /\ Append(s, e)[Len(s) + 1] = e
         /\ \A i \in 1 .. Len(s) : Append(s, e)[i] = s[i]
         /\ Elements(Append(s, e)) = Elements(s) \cup {e}
<1>1. /\ Append(s, e) \in Seq(T) /\ Len(s) \in Nat /\ Len(Append(s, e)) = Len(s) + 1
      /\ DOMAIN s = 1 .. Len(s) /\ DOMAIN Append(s, e) = 1 .. Len(s) + 1
      /\ Append(s, e)[Len(s) + 1] = e
      /\ \A i \in 1 .. Len(s) : Append(s, e)[i] = s[i]
  OBVIOUS
<1>2. ASSUME NEW x
      PROVE  x \in Elements(Append(s, e)) <=> x \in Elements(s) \cup {e}
  <2>1. \A i \in 1 .. Len(s) + 1 : i \in 1 .. Len(s) \/ i = Len(s) + 1
    BY <1>1
  <2>2. Len(s) + 1 \in 1 .. Len(s) + 1 /\ 1 .. Len(s) \subseteq 1 .. Len(s) + 1
    BY <1>1
  <2> QED BY <1>1, <2>1, <2>2, Zenon DEF Elements
<1> QED BY <1>1, <1>2

-----------------------------------------------------------------------------
(* Selecting. *)

\* The function of the definition of Only.
Selects(f, s, S) ==
  f = [n \in 0..Len(s) |->
         IF n = 0 THEN <<>>
         ELSE IF s[n] \in S THEN Append(f[n - 1], s[n]) ELSE f[n - 1]]

LEMMA SelectsAt ==
  ASSUME NEW T, NEW s \in Seq(T), NEW S, NEW f
  PROVE  Selects(f, s, S) <=>
           /\ f = [n \in 0 .. Len(s) |-> f[n]]
           /\ f[0] = <<>>
           /\ \A n \in 1 .. Len(s) :
                f[n] = IF s[n] \in S THEN Append(f[n - 1], s[n]) ELSE f[n - 1]
<1> Len(s) \in Nat
  OBVIOUS
<1>1. 0 \in 0 .. Len(s) /\ \A n \in 1 .. Len(s) : n \in 0 .. Len(s) /\ n # 0
  OBVIOUS
<1>2. \A n \in 0 .. Len(s) : n = 0 \/ n \in 1 .. Len(s)
  OBVIOUS
<1> QED BY <1>1, <1>2 DEF Selects

LEMMA SelectsExists ==
  ASSUME NEW T, NEW S, NEW s \in Seq(T)
  PROVE  \E f : Selects(f, s, S)
<1> DEFINE Q == {t \in Seq(T) : \E f : Selects(f, t, S)}
<1>1. <<>> \in Q
  <2>1. Selects([n \in 0 .. 0 |-> <<>>], <<>>, S)
    <3> DEFINE f == [n \in 0 .. 0 |-> <<>>]
    <3>1. <<>> \in Seq(T) /\ Len(<<>>) = 0
      OBVIOUS
    <3>2. f = [n \in 0 .. 0 |-> f[n]] /\ f[0] = <<>>
      OBVIOUS
    <3> HIDE DEF f
    <3>3. \A n \in 1 .. 0 : FALSE
      OBVIOUS
    <3>4. Selects(f, <<>>, S)
      BY <3>1, <3>2, <3>3, SelectsAt
    <3> QED BY <3>4 DEF f
  <2> QED BY <2>1
<1>2. ASSUME NEW t \in Seq(T), NEW e \in T, t \in Q
      PROVE  Append(t, e) \in Q
  <2> DEFINE u == Append(t, e)
             m == Len(t)
  <2>1. PICK f : Selects(f, t, S)
    BY <1>2
  <2> DEFINE last == IF e \in S THEN Append(f[m], e) ELSE f[m]
             g == [n \in 0 .. m + 1 |-> IF n = m + 1 THEN last ELSE f[n]]
  <2>2. /\ u \in Seq(T) /\ m \in Nat /\ Len(u) = m + 1
        /\ u[m + 1] = e /\ \A i \in 1 .. m : u[i] = t[i]
    BY Appending
  <2>3. /\ f[0] = <<>>
        /\ \A n \in 1 .. m :
             f[n] = IF t[n] \in S THEN Append(f[n - 1], t[n]) ELSE f[n - 1]
    BY <2>1, SelectsAt
  <2> HIDE DEF u
  <2>4. \A n \in 0 .. m : g[n] = f[n]
    BY <2>2
  <2>5. g[m + 1] = last
    BY <2>2
  <2>6. g = [n \in 0 .. m + 1 |-> g[n]]
    OBVIOUS
  <2> HIDE DEF m, g
  <2>7. ASSUME NEW n \in 1 .. m + 1
        PROVE  g[n] = IF u[n] \in S THEN Append(g[n - 1], u[n]) ELSE g[n - 1]
    <3>1. CASE n = m + 1
      <4>1. n - 1 = m /\ m \in 0 .. m
        BY <2>2, <3>1
      <4>2. g[n - 1] = f[m] /\ u[n] = e /\ g[n] = last
        BY <2>2, <2>4, <2>5, <3>1, <4>1
      <4> QED BY <4>2
    <3>2. CASE n \in 1 .. m
      <4>1. n \in 0 .. m /\ n - 1 \in 0 .. m
        BY <2>2, <3>2
      <4>2. g[n] = f[n] /\ g[n - 1] = f[n - 1] /\ u[n] = t[n]
        BY <2>2, <2>4, <3>2, <4>1
      <4> QED BY <2>3, <3>2, <4>2
    <3> QED BY <2>2, <3>1, <3>2
  <2>8. g[0] = <<>>
    BY <2>2, <2>3, <2>4
  <2>9. Selects(g, u, S)
    BY <2>2, <2>6, <2>7, <2>8, SelectsAt
  <2> QED BY <2>2, <2>9 DEF u
<1> HIDE DEF Q
<1>3. Seq(T) \subseteq Q
  BY <1>1, <1>2, AllSequences
<1> QED BY <1>3 DEF Q

\* Two such functions, of a list and of the list with one element more, agree.
LEMMA SelectsAgree ==
  ASSUME NEW T, NEW S, NEW s \in Seq(T), NEW t \in Seq(T), Len(s) <= Len(t),
         \A i \in 1 .. Len(s) : t[i] = s[i],
         NEW f, Selects(f, s, S), NEW g, Selects(g, t, S)
  PROVE  f[Len(s)] = g[Len(s)]
<1> DEFINE Q == {n \in 0 .. Len(s) : f[n] = g[n]}
<1>1. Len(s) \in Nat /\ Len(t) \in Nat
  OBVIOUS
<1>2. /\ f[0] = <<>>
      /\ \A n \in 1 .. Len(s) :
           f[n] = IF s[n] \in S THEN Append(f[n - 1], s[n]) ELSE f[n - 1]
  BY SelectsAt
<1>3. /\ g[0] = <<>>
      /\ \A n \in 1 .. Len(t) :
           g[n] = IF t[n] \in S THEN Append(g[n - 1], t[n]) ELSE g[n - 1]
  BY SelectsAt
<1>4. 0 \in Q
  BY <1>1, <1>2, <1>3
<1>5. ASSUME NEW n \in 0 .. Len(s) - 1, n \in Q
      PROVE  n + 1 \in Q
  <2>1. n + 1 \in 1 .. Len(s) /\ n + 1 \in 1 .. Len(t) /\ (n + 1) - 1 = n /\ n + 1 \in 0 .. Len(s)
    BY <1>1
  <2>2. f[n] = g[n] /\ s[n + 1] = t[n + 1]
    BY <1>5, <2>1
  <2>3. f[n + 1] = IF s[n + 1] \in S THEN Append(f[n], s[n + 1]) ELSE f[n]
    BY <1>2, <2>1
  <2>4. g[n + 1] = IF t[n + 1] \in S THEN Append(g[n], t[n + 1]) ELSE g[n]
    BY <1>3, <2>1
  <2> QED BY <2>1, <2>2, <2>3, <2>4
<1> HIDE DEF Q
<1>6. 0 .. Len(s) \subseteq Q
  BY <1>1, <1>4, <1>5, UpTo
<1>7. Len(s) \in Q
  BY <1>1, <1>6
<1> QED BY <1>7 DEF Q

LEMMA OnlySelects ==
  ASSUME NEW T, NEW S, NEW s \in Seq(T)
  PROVE  \E f : Selects(f, s, S) /\ Only(s, S) = f[Len(s)]
<1> DEFINE f == CHOOSE f : Selects(f, s, S)
<1>1. Selects(f, s, S)
  BY SelectsExists
<1>2. Only(s, S) = f[Len(s)]
  BY DEF Only, Selects
<1> QED BY <1>1, <1>2

LEMMA OnlyEmpty ==
  ASSUME NEW S
  PROVE  Only(<<>>, S) = <<>>
<1>1. <<>> \in Seq({}) /\ Len(<<>>) = 0
  OBVIOUS
<1>2. PICK f : Selects(f, <<>>, S) /\ Only(<<>>, S) = f[Len(<<>>)]
  BY <1>1, OnlySelects
<1>3. f[0] = <<>>
  BY <1>1, <1>2 DEF Selects
<1> QED BY <1>1, <1>2, <1>3

LEMMA OnlyAppend ==
  ASSUME NEW T, NEW S, NEW s \in Seq(T), NEW e \in T
  PROVE  Only(Append(s, e), S) = IF e \in S THEN Append(Only(s, S), e) ELSE Only(s, S)
<1> DEFINE t == Append(s, e)
<1>1. /\ t \in Seq(T) /\ Len(s) \in Nat /\ Len(t) = Len(s) + 1
      /\ t[Len(s) + 1] = e /\ \A i \in 1 .. Len(s) : t[i] = s[i]
  BY Appending
<1> HIDE DEF t
<1>2. PICK f : Selects(f, s, S) /\ Only(s, S) = f[Len(s)]
  BY OnlySelects
<1>3. PICK g : Selects(g, t, S) /\ Only(t, S) = g[Len(t)]
  BY <1>1, OnlySelects
<1>4. f[Len(s)] = g[Len(s)]
  <2>1. Len(s) <= Len(t)
    BY <1>1
  <2> QED BY <1>1, <1>2, <1>3, <2>1, SelectsAgree
<1>5. g[Len(t)] = IF t[Len(t)] \in S THEN Append(g[Len(t) - 1], t[Len(t)]) ELSE g[Len(t) - 1]
  <2>1. Len(t) \in 1 .. Len(t)
    BY <1>1
  <2> QED BY <1>1, <1>3, <2>1, SelectsAt
<1>6. Len(t) - 1 = Len(s) /\ t[Len(t)] = e
  BY <1>1
<1> QED BY <1>2, <1>3, <1>4, <1>5, <1>6 DEF t

\* What is selected: the elements that are in the set.
LEMMA OnlyType ==
  ASSUME NEW T, NEW S, NEW s \in Seq(T)
  PROVE  /\ Only(s, S) \in Seq(T)
         /\ Elements(Only(s, S)) = Elements(s) \cap S
<1> DEFINE Q == {t \in Seq(T) : /\ Only(t, S) \in Seq(T)
                                /\ Elements(Only(t, S)) = Elements(t) \cap S}
<1>1. <<>> \in Q
  <2>1. <<>> \in Seq(T) /\ Elements(<<>>) = {}
    BY DEF Elements
  <2> QED BY <2>1, OnlyEmpty
<1>2. ASSUME NEW t \in Seq(T), NEW e \in T, t \in Q
      PROVE  Append(t, e) \in Q
  <2>1. Only(t, S) \in Seq(T) /\ Elements(Only(t, S)) = Elements(t) \cap S
    BY <1>2
  <2>2. Append(t, e) \in Seq(T) /\ Elements(Append(t, e)) = Elements(t) \cup {e}
    BY Appending
  <2>3. CASE e \in S
    <3>1. Only(Append(t, e), S) = Append(Only(t, S), e)
      BY <2>3, OnlyAppend
    <3>2. /\ Append(Only(t, S), e) \in Seq(T)
          /\ Elements(Append(Only(t, S), e)) = Elements(Only(t, S)) \cup {e}
      BY <2>1, Appending
    <3> QED BY <2>1, <2>2, <2>3, <3>1, <3>2
  <2>4. CASE e \notin S
    <3>1. Only(Append(t, e), S) = Only(t, S)
      BY <2>4, OnlyAppend
    <3> QED BY <2>1, <2>2, <2>4, <3>1
  <2> QED BY <2>3, <2>4
<1> HIDE DEF Q
<1>3. Seq(T) \subseteq Q
  BY <1>1, <1>2, AllSequences
<1> QED BY <1>3 DEF Q

\* Selecting twice.
LEMMA OnlyOnly ==
  ASSUME NEW T, NEW S, NEW U, NEW s \in Seq(T)
  PROVE  Only(Only(s, S), U) = Only(s, S \cap U)
<1> DEFINE Q == {t \in Seq(T) : Only(Only(t, S), U) = Only(t, S \cap U)}
<1>1. <<>> \in Q
  BY OnlyEmpty
<1>2. ASSUME NEW t \in Seq(T), NEW e \in T, t \in Q
      PROVE  Append(t, e) \in Q
  <2>1. Only(t, S) \in Seq(T)
    BY OnlyType
  <2>2. /\ Only(Append(t, e), S) = IF e \in S THEN Append(Only(t, S), e) ELSE Only(t, S)
        /\ Only(Append(t, e), S \cap U) = IF e \in S \cap U THEN Append(Only(t, S \cap U), e)
                                          ELSE Only(t, S \cap U)
        /\ Only(Append(Only(t, S), e), U) = IF e \in U THEN Append(Only(Only(t, S), U), e)
                                            ELSE Only(Only(t, S), U)
    BY <2>1, OnlyAppend
  <2>3. Only(Only(t, S), U) = Only(t, S \cap U) /\ Append(t, e) \in Seq(T)
    BY <1>2
  <2>4. CASE e \in S
    <3>1. /\ Only(Append(t, e), S) = Append(Only(t, S), e)
          /\ e \in S \cap U <=> e \in U
      BY <2>2, <2>4
    <3> QED BY <2>2, <2>3, <3>1
  <2>5. CASE e \notin S
    <3>1. /\ Only(Append(t, e), S) = Only(t, S)
          /\ e \notin S \cap U
      BY <2>2, <2>5
    <3> QED BY <2>2, <2>3, <3>1
  <2> QED BY <2>4, <2>5
<1> HIDE DEF Q
<1>3. Seq(T) \subseteq Q
  BY <1>1, <1>2, AllSequences
<1> QED BY <1>3 DEF Q

\* What is apart stays apart.
LEMMA ApartAppend ==
  ASSUME NEW T, NEW R, NEW s \in Seq(T), NEW e \in T
  PROVE  Apart(Append(s, e), R) <=>
           /\ Apart(s, R)
           /\ \A x \in Elements(s) : <<x, e>> \notin R /\ <<e, x>> \notin R
<1> DEFINE t == Append(s, e)
<1>1. /\ Len(s) \in Nat /\ DOMAIN s = 1 .. Len(s) /\ DOMAIN t = 1 .. Len(s) + 1
      /\ t[Len(s) + 1] = e /\ \A i \in 1 .. Len(s) : t[i] = s[i]
  BY Appending
<1> HIDE DEF t
<1>2. /\ \A i \in DOMAIN t : i \in DOMAIN s \/ i = Len(s) + 1
      /\ DOMAIN s \subseteq DOMAIN t /\ Len(s) + 1 \in DOMAIN t /\ Len(s) + 1 \notin DOMAIN s
      /\ \A i \in DOMAIN s : t[i] = s[i]
  BY <1>1
<1>3. ASSUME Apart(t, R)
      PROVE  Apart(s, R) /\ \A x \in Elements(s) : <<x, e>> \notin R /\ <<e, x>> \notin R
  <2>1. ASSUME NEW i \in DOMAIN s
        PROVE  <<s[i], e>> \notin R /\ <<e, s[i]>> \notin R
    BY <1>1, <1>2, <1>3 DEF Apart
  <2> QED BY <1>2, <1>3, <2>1 DEF Apart, Elements
<1>4. ASSUME Apart(s, R), \A x \in Elements(s) : <<x, e>> \notin R /\ <<e, x>> \notin R
      PROVE  Apart(t, R)
  <2>1. \A i \in DOMAIN s : s[i] \in Elements(s)
    BY DEF Elements
  <2> SUFFICES ASSUME NEW i \in DOMAIN t, NEW j \in DOMAIN t, <<t[i], t[j]>> \in R
               PROVE  i = j
    BY DEF Apart
  <2>2. CASE i \in DOMAIN s /\ j \in DOMAIN s
    BY <1>2, <1>4, <2>2 DEF Apart
  <2>3. CASE i \in DOMAIN s /\ j = Len(s) + 1
    BY <1>1, <1>2, <1>4, <2>1, <2>3
  <2>4. CASE i = Len(s) + 1 /\ j \in DOMAIN s
    BY <1>1, <1>2, <1>4, <2>1, <2>4
  <2> QED BY <1>2, <2>2, <2>3, <2>4
<1> QED BY <1>3, <1>4 DEF t

LEMMA OnlyApart ==
  ASSUME NEW T, NEW S, NEW R, NEW s \in Seq(T), Apart(s, R)
  PROVE  Apart(Only(s, S), R)
<1> DEFINE Q == {t \in Seq(T) : Apart(t, R) => Apart(Only(t, S), R)}
<1>1. <<>> \in Q
  <2>1. <<>> \in Seq(T) /\ Apart(<<>>, R)
    BY DEF Apart
  <2> QED BY <2>1, OnlyEmpty
<1>2. ASSUME NEW t \in Seq(T), NEW e \in T, t \in Q
      PROVE  Append(t, e) \in Q
  <2>1. Append(t, e) \in Seq(T)
    OBVIOUS
  <2> SUFFICES ASSUME Apart(Append(t, e), R)
               PROVE  Apart(Only(Append(t, e), S), R)
    BY <2>1
  <2>2. /\ Apart(t, R)
        /\ \A x \in Elements(t) : <<x, e>> \notin R /\ <<e, x>> \notin R
    BY ApartAppend
  <2>3. /\ Only(t, S) \in Seq(T) /\ Elements(Only(t, S)) = Elements(t) \cap S
        /\ Apart(Only(t, S), R)
    BY <1>2, <2>2, OnlyType
  <2>4. CASE e \in S
    <3>1. Only(Append(t, e), S) = Append(Only(t, S), e)
      BY <2>4, OnlyAppend
    <3>2. \A x \in Elements(Only(t, S)) : <<x, e>> \notin R /\ <<e, x>> \notin R
      BY <2>2, <2>3
    <3>3. Apart(Append(Only(t, S), e), R)
      BY <2>3, <3>2, ApartAppend
    <3> QED BY <3>1, <3>3
  <2>5. CASE e \notin S
    <3>1. Only(Append(t, e), S) = Only(t, S)
      BY <2>5, OnlyAppend
    <3> QED BY <2>3, <3>1
  <2> QED BY <2>4, <2>5
<1> HIDE DEF Q
<1>3. Seq(T) \subseteq Q
  BY <1>1, <1>2, AllSequences
<1> QED BY <1>3 DEF Q

-----------------------------------------------------------------------------
(* Concatenating. *)

LEMMA ConcatApart ==
  ASSUME NEW T, NEW s \in Seq(T), NEW t \in Seq(T), NEW R, Apart(s, R), Apart(t, R),
         \A x \in Elements(s), y \in Elements(t) : <<x, y>> \notin R /\ <<y, x>> \notin R
  PROVE  /\ s \o t \in Seq(T)
         /\ Elements(s \o t) = Elements(s) \cup Elements(t)
         /\ Apart(s \o t, R)
<1> DEFINE u == s \o t
           m == Len(s)
           n == Len(t)
<1>1. /\ u \in Seq(T) /\ m \in Nat /\ n \in Nat /\ Len(u) = m + n
      /\ DOMAIN s = 1 .. m /\ DOMAIN t = 1 .. n /\ DOMAIN u = 1 .. m + n
      /\ \A i \in 1 .. m + n : u[i] = IF i <= m THEN s[i] ELSE t[i - m]
  BY ConcatProperties
<1> HIDE DEF u, m, n
<1>2. /\ \A i \in DOMAIN s : i \in DOMAIN u /\ u[i] = s[i]
      /\ \A i \in DOMAIN t : i + m \in DOMAIN u /\ u[i + m] = t[i]
  <2>1. \A i \in 1 .. m : i \in 1 .. m + n /\ i <= m
    BY <1>1
  <2>2. \A i \in 1 .. n : i + m \in 1 .. m + n /\ ~(i + m <= m) /\ (i + m) - m = i
    BY <1>1
  <2> QED BY <1>1, <2>1, <2>2
<1>3. \A i \in DOMAIN u : \/ i \in DOMAIN s /\ u[i] = s[i]
                          \/ i - m \in DOMAIN t /\ u[i] = t[i - m] /\ i \notin DOMAIN s
  <2>1. \A i \in 1 .. m + n : i \in 1 .. m \/ (i - m \in 1 .. n /\ ~(i <= m) /\ i \notin 1 .. m)
    BY <1>1
  <2> QED BY <1>1, <2>1
<1>4. Elements(u) = Elements(s) \cup Elements(t)
  BY <1>2, <1>3 DEF Elements
<1>5. Apart(u, R)
  <2> SUFFICES ASSUME NEW i \in DOMAIN u, NEW j \in DOMAIN u, <<u[i], u[j]>> \in R
               PROVE  i = j
    BY DEF Apart
  <2>1. /\ \A k \in DOMAIN s : s[k] \in Elements(s)
        /\ \A k \in DOMAIN t : t[k] \in Elements(t)
    BY DEF Elements
  <2>2. CASE i \in DOMAIN s /\ u[i] = s[i] /\ j \in DOMAIN s /\ u[j] = s[j]
    BY <2>2 DEF Apart
  <2>3. CASE /\ i - m \in DOMAIN t /\ u[i] = t[i - m]
             /\ j - m \in DOMAIN t /\ u[j] = t[j - m]
    <3>1. i - m = j - m
      BY <2>3 DEF Apart
    <3> QED BY <1>1, <3>1
  <2>4. CASE i \in DOMAIN s /\ u[i] = s[i] /\ j - m \in DOMAIN t /\ u[j] = t[j - m]
    BY <2>1, <2>4
  <2>5. CASE j \in DOMAIN s /\ u[j] = s[j] /\ i - m \in DOMAIN t /\ u[i] = t[i - m]
    BY <2>1, <2>5
  <2> QED BY <1>3, <2>2, <2>3, <2>4, <2>5
<1> QED BY <1>1, <1>4, <1>5 DEF u

-----------------------------------------------------------------------------
(* Selecting from a concatenation, from all, from none. *)


\* What a concatenation holds.
LEMMA ElementsJoined ==
  ASSUME NEW T, NEW s \in Seq(T), NEW t \in Seq(T)
  PROVE  s \o t \in Seq(T) /\ Elements(s \o t) = Elements(s) \cup Elements(t)
<1>1. Apart(s, {}) /\ Apart(t, {})
  BY DEF Apart
<1> QED BY <1>1, ConcatApart

\* Sets that agree on the elements select the same.
LEMMA OnlySame ==
  ASSUME NEW T, NEW S, NEW U, NEW s \in Seq(T), \A x \in Elements(s) : x \in S <=> x \in U
  PROVE  Only(s, S) = Only(s, U)
<1> DEFINE Q == {t \in Seq(T) : (\A x \in Elements(t) : x \in S <=> x \in U) => Only(t, S) = Only(t, U)}
<1>1. <<>> \in Q
  BY OnlyEmpty
<1>2. ASSUME NEW t \in Seq(T), NEW e \in T, t \in Q
      PROVE  Append(t, e) \in Q
  <2>1. /\ Append(t, e) \in Seq(T) /\ Elements(Append(t, e)) = Elements(t) \cup {e}
    BY Appending
  <2>2. /\ Only(Append(t, e), S) = IF e \in S THEN Append(Only(t, S), e) ELSE Only(t, S)
        /\ Only(Append(t, e), U) = IF e \in U THEN Append(Only(t, U), e) ELSE Only(t, U)
    BY OnlyAppend
  <2> SUFFICES ASSUME \A x \in Elements(t) \cup {e} : x \in S <=> x \in U
               PROVE  Only(Append(t, e), S) = Only(Append(t, e), U)
    BY <2>1
  <2>3. Only(t, S) = Only(t, U) /\ (e \in S <=> e \in U)
    BY <1>2
  <2> QED BY <2>2, <2>3
<1> HIDE DEF Q
<1>3. Seq(T) \subseteq Q
  BY <1>1, <1>2, AllSequences
<1> QED BY <1>3 DEF Q

\* All, or none.
LEMMA OnlyAll ==
  ASSUME NEW T, NEW S, NEW s \in Seq(T), Elements(s) \subseteq S
  PROVE  Only(s, S) = s
<1> DEFINE Q == {t \in Seq(T) : Elements(t) \subseteq S => Only(t, S) = t}
<1>1. <<>> \in Q
  BY OnlyEmpty
<1>2. ASSUME NEW t \in Seq(T), NEW e \in T, t \in Q
      PROVE  Append(t, e) \in Q
  <2>1. /\ Append(t, e) \in Seq(T) /\ Elements(Append(t, e)) = Elements(t) \cup {e}
    BY Appending
  <2>2. Only(Append(t, e), S) = IF e \in S THEN Append(Only(t, S), e) ELSE Only(t, S)
    BY OnlyAppend
  <2> SUFFICES ASSUME Elements(t) \cup {e} \subseteq S
               PROVE  Only(Append(t, e), S) = Append(t, e)
    BY <2>1
  <2>3. Only(t, S) = t /\ e \in S
    BY <1>2
  <2> QED BY <2>2, <2>3
<1> HIDE DEF Q
<1>3. Seq(T) \subseteq Q
  BY <1>1, <1>2, AllSequences
<1> QED BY <1>3 DEF Q

LEMMA OnlyNone ==
  ASSUME NEW T, NEW S, NEW s \in Seq(T), Elements(s) \cap S = {}
  PROVE  Only(s, S) = <<>>
<1>1. Only(s, S) \in Seq(T) /\ Elements(Only(s, S)) = {}
  BY OnlyType
<1>2. Len(Only(s, S)) \in Nat /\ (Len(Only(s, S)) # 0 => 1 \in DOMAIN Only(s, S))
  BY <1>1
<1>3. Len(Only(s, S)) = 0
  BY <1>1, <1>2 DEF Elements
<1> QED BY <1>1, <1>3, EmptySeq

LEMMA ConcatAppend ==
  ASSUME NEW T, NEW s \in Seq(T), NEW t \in Seq(T), NEW e \in T
  PROVE  s \o Append(t, e) = Append(s \o t, e)
<1> DEFINE m == <<e>>
           c == s \o t
<1>1. m \in Seq(T) /\ Append(t, e) = t \o m
  BY AppendIsConcat
<1>2. c \in Seq(T)
  BY ConcatProperties
<1>3. c \o m = Append(c, e)
  <2> HIDE DEF c
  <2> QED BY <1>2, AppendIsConcat
<1> HIDE DEF m
<1>4. s \o (t \o m) = (s \o t) \o m
  BY <1>1, ConcatAssociative
<1> QED BY <1>1, <1>3, <1>4 DEF c

\* In a concatenation, either part.
LEMMA OnlyConcat ==
  ASSUME NEW T, NEW S, NEW s \in Seq(T), NEW t \in Seq(T)
  PROVE  Only(s \o t, S) = Only(s, S) \o Only(t, S)
<1> DEFINE Q == {u \in Seq(T) : Only(s \o u, S) = Only(s, S) \o Only(u, S)}
<1>1. <<>> \in Q
  <2>1. s \o <<>> = s /\ <<>> \in Seq(T)
    BY ConcatEmptySeq
  <2>2. Only(s, S) \in Seq(T)
    BY OnlyType
  <2>3. Only(s, S) \o <<>> = Only(s, S)
    BY <2>2, ConcatEmptySeq
  <2> QED BY <2>1, <2>3, OnlyEmpty
<1>2. ASSUME NEW u \in Seq(T), NEW e \in T, u \in Q
      PROVE  Append(u, e) \in Q
  <2> DEFINE a == Only(s, S)
             b == Only(u, S)
             v == s \o u
  <2>1. Append(u, e) \in Seq(T) /\ Only(v, S) = a \o b
    BY <1>2
  <2>2. a \in Seq(T) /\ b \in Seq(T)
    BY OnlyType
  <2>3. v \in Seq(T)
    BY ConcatProperties
  <2>4. s \o Append(u, e) = Append(v, e)
    BY ConcatAppend
  <2>5. Only(Append(u, e), S) = IF e \in S THEN Append(b, e) ELSE b
    BY OnlyAppend
  <2> HIDE DEF a, b, v
  <2>6. Only(Append(v, e), S) = IF e \in S THEN Append(Only(v, S), e) ELSE Only(v, S)
    BY <2>3, OnlyAppend
  <2>7. a \o Append(b, e) = Append(a \o b, e)
    BY <2>2, ConcatAppend
  <2>8. Only(s \o Append(u, e), S) = a \o Only(Append(u, e), S)
    BY <2>1, <2>4, <2>5, <2>6, <2>7
  <2> QED BY <2>1, <2>8 DEF a
<1> HIDE DEF Q
<1>3. Seq(T) \subseteq Q
  BY <1>1, <1>2, AllSequences
<1> QED BY <1>3 DEF Q

\* An element put first.
LEMMA Preceded ==
  ASSUME NEW T, NEW e \in T, NEW t \in Seq(T)
  PROVE  /\ <<e>> \o t \in Seq(T) /\ Len(<<e>> \o t) = Len(t) + 1
         /\ \A i \in 1 .. Len(t) + 1 : (<<e>> \o t)[i] = IF i = 1 THEN e ELSE t[i - 1]
<1> DEFINE m == <<e>>
           n == Len(t)
<1>1. m \in Seq(T) /\ Len(m) = 1 /\ m[1] = e /\ n \in Nat
  OBVIOUS
<1> HIDE DEF m
<1>2. m \in Seq(T)
  BY <1>1
<1>3. /\ m \o t \in Seq(T) /\ Len(m \o t) = Len(m) + Len(t)
      /\ \A i \in 1 .. Len(m) + Len(t) : (m \o t)[i] = IF i <= Len(m) THEN m[i] ELSE t[i - Len(m)]
  BY <1>2, ConcatProperties
<1> HIDE DEF n
<1>4. /\ Len(m \o t) = 1 + n
      /\ \A i \in 1 .. 1 + n : (m \o t)[i] = IF i <= 1 THEN m[i] ELSE t[i - 1]
  BY <1>1, <1>3 DEF n
<1>5. ASSUME NEW i \in 1 .. n + 1
      PROVE  (m \o t)[i] = IF i = 1 THEN e ELSE t[i - 1]
  <2>1. i \in 1 .. 1 + n /\ (i <= 1 <=> i = 1)
    BY <1>1
  <2> QED BY <1>1, <1>4, <2>1
<1>6. 1 + n = n + 1
  BY <1>1
<1> QED BY <1>3, <1>4, <1>5, <1>6 DEF m, n

\* A list that is not empty is its first element and the others.
LEMMA HeadAndTail ==
  ASSUME NEW T, NEW s \in Seq(T), s # <<>>
  PROVE  /\ Head(s) \in T /\ Tail(s) \in Seq(T) /\ s = <<Head(s)>> \o Tail(s)
         /\ \A i \in DOMAIN Tail(s) : Tail(s)[i] = s[i + 1] /\ i + 1 \in DOMAIN s /\ i + 1 # 1
<1> DEFINE h == Head(s)
           r == Tail(s)
           u == <<h>> \o r
<1>1. /\ h \in T /\ r \in Seq(T) /\ Len(s) \in Nat /\ Len(s) # 0 /\ Len(r) = Len(s) - 1
      /\ \A i \in 1 .. Len(r) : r[i] = s[i + 1]
  BY EmptySeq, HeadTailProperties
<1>2. h = s[1] /\ DOMAIN s = 1 .. Len(s) /\ DOMAIN r = 1 .. Len(r)
  BY <1>1
<1> HIDE DEF h, r
<1>3. /\ u \in Seq(T) /\ Len(u) = Len(r) + 1
      /\ \A i \in 1 .. Len(r) + 1 : u[i] = IF i = 1 THEN h ELSE r[i - 1]
  BY <1>1, Preceded
<1> HIDE DEF u
<1>4. Len(u) = Len(s)
  BY <1>1, <1>3
<1>5. ASSUME NEW i \in 1 .. Len(s)
      PROVE  s[i] = u[i]
  <2>1. CASE i = 1
    BY <1>1, <1>2, <1>3, <2>1
  <2>2. CASE i # 1
    <3>1. i - 1 \in 1 .. Len(r) /\ (i - 1) + 1 = i /\ i \in 1 .. Len(r) + 1
      BY <1>1, <2>2
    <3>2. r[i - 1] = s[i]
      BY <1>1, <3>1
    <3> QED BY <1>3, <2>2, <3>1, <3>2
  <2> QED BY <2>1, <2>2
<1>6. s = u
  BY <1>3, <1>4, <1>5, SeqEqual
<1>7. \A i \in DOMAIN r : r[i] = s[i + 1] /\ i + 1 \in DOMAIN s /\ i + 1 # 1
  BY <1>1, <1>2
<1> QED BY <1>1, <1>6, <1>7 DEF u, h, r

\* All but the first.
LEMMA OnlyTail ==
  ASSUME NEW T, NEW s \in Seq(T), s # <<>>, \A i \in DOMAIN s : s[i] = Head(s) => i = 1
  PROVE  Only(s, T \ {Head(s)}) = Tail(s)
<1> DEFINE h == Head(s)
           r == Tail(s)
           m == <<h>>
           S == T \ {h}
<1>1. /\ h \in T /\ r \in Seq(T) /\ s = m \o r
      /\ \A i \in DOMAIN r : r[i] = s[i + 1] /\ i + 1 \in DOMAIN s /\ i + 1 # 1
  BY HeadAndTail
<1>2. Elements(r) \subseteq S
  <2> SUFFICES ASSUME NEW i \in DOMAIN r
               PROVE  r[i] \in T /\ r[i] # h
    BY DEF Elements
  <2> HIDE DEF r
  <2> QED BY <1>1
<1> HIDE DEF h, r
<1>3. m \in Seq(T) /\ Elements(m) = {h}
  <2>1. m \in Seq(T) /\ DOMAIN m = {1} /\ m[1] = h
    BY <1>1
  <2> QED BY <2>1 DEF Elements
<1>4. Elements(m) \cap S = {}
  BY <1>3
<1> HIDE DEF S, m
<1>5. Only(m, S) = <<>> /\ Only(r, S) = r
  BY <1>1, <1>2, <1>3, <1>4, OnlyNone, OnlyAll
<1>6. Only(m \o r, S) = Only(m, S) \o Only(r, S)
  BY <1>1, <1>3, OnlyConcat
<1>7. <<>> \o r = r
  BY <1>1, ConcatEmptySeq
<1> QED BY <1>1, <1>5, <1>6, <1>7 DEF S, h, r

-----------------------------------------------------------------------------
(* Lists of whatever there is in them. *)

LEMMA ListIs ==
  ASSUME NEW s
  PROVE  IsList(s) <=> \E n \in Nat : s = [i \in 1 .. n |-> s[i]]
<1> DEFINE T == {s[i] : i \in DOMAIN s}
<1>1. ASSUME NEW n \in Nat, s = [i \in 1 .. n |-> s[i]]
      PROVE  IsList(s)
  <2>1. DOMAIN s = 1 .. n
    BY <1>1
  <2>2. \A i \in 1 .. n : s[i] \in T
    BY <2>1
  <2> HIDE DEF T
  <2>3. [i \in 1 .. n |-> s[i]] \in Seq(T)
    BY <2>2
  <2> QED BY <1>1, <2>3 DEF IsList, T
<1>2. ASSUME s \in Seq(T)
      PROVE  \E n \in Nat : s = [i \in 1 .. n |-> s[i]]
  <2> HIDE DEF T
  <2>1. Len(s) \in Nat /\ s = [i \in 1 .. Len(s) |-> s[i]]
    BY <1>2
  <2> QED BY <2>1
<1> QED BY <1>1, <1>2 DEF IsList

LEMMA ListLen ==
  ASSUME NEW s, IsList(s)
  PROVE  Len(s) \in Nat /\ DOMAIN s = 1 .. Len(s) /\ s = [i \in 1 .. Len(s) |-> s[i]]
<1> DEFINE T == {s[i] : i \in DOMAIN s}
<1>1. s \in Seq(T)
  BY DEF IsList
<1> HIDE DEF T
<1> QED BY <1>1

\* A list with as many elements.
LEMMA ListOf ==
  ASSUME NEW s, NEW n \in Nat, s = [i \in 1 .. n |-> s[i]]
  PROVE  IsList(s) /\ Len(s) = n /\ DOMAIN s = 1 .. n
<1>1. IsList(s) /\ DOMAIN s = 1 .. n
  BY ListIs
<1>2. Len(s) \in Nat /\ DOMAIN s = 1 .. Len(s)
  BY <1>1, ListLen
<1>3. Len(s) = n
  BY <1>1, <1>2
<1> QED BY <1>1, <1>3

LEMMA ListedSame ==
  ASSUME NEW s, IsList(s)
  PROVE  Listed(s) = s
<1> DEFINE T == {s[i] : i \in DOMAIN s}
<1>1. s \in Seq(T)
  BY DEF IsList
<1> HIDE DEF T
<1> QED BY <1>1, ConcatEmptySeq DEF Listed

LEMMA ListIn ==
  ASSUME NEW s, NEW T, IsList(s), \A i \in DOMAIN s : s[i] \in T
  PROVE  s \in Seq(T)
<1>1. Len(s) \in Nat /\ DOMAIN s = 1 .. Len(s) /\ s = [i \in 1 .. Len(s) |-> s[i]]
  BY ListLen
<1>2. [i \in 1 .. Len(s) |-> s[i]] \in Seq(T)
  BY <1>1
<1> QED BY <1>1, <1>2

LEMMA ListAppend ==
  ASSUME NEW s, NEW e, IsList(s)
  PROVE  /\ IsList(Append(s, e)) /\ Len(Append(s, e)) = Len(s) + 1
         /\ Append(s, e)[Len(s) + 1] = e
         /\ \A i \in 1 .. Len(s) : Append(s, e)[i] = s[i]
<1> DEFINE T == {s[i] : i \in DOMAIN s} \cup {e}
           a == Append(s, e)
<1>1. s \in Seq(T) /\ e \in T
  BY ListIn
<1> HIDE DEF T
<1>2. /\ a \in Seq(T) /\ Len(s) \in Nat /\ Len(a) = Len(s) + 1
      /\ a[Len(s) + 1] = e /\ \A i \in 1 .. Len(s) : a[i] = s[i]
  BY <1>1, Appending
<1> HIDE DEF a
<1>3. a = [i \in 1 .. Len(a) |-> a[i]] /\ Len(a) \in Nat
  BY <1>2
<1>4. IsList(a)
  BY <1>3, ListIs
<1> QED BY <1>2, <1>4 DEF a

LEMMA ListConcat ==
  ASSUME NEW s, NEW t, IsList(s), IsList(t)
  PROVE  /\ IsList(s \o t) /\ Len(s \o t) = Len(s) + Len(t)
         /\ \A i \in 1 .. Len(s) + Len(t) :
              (s \o t)[i] = IF i <= Len(s) THEN s[i] ELSE t[i - Len(s)]
<1> DEFINE T == {s[i] : i \in DOMAIN s} \cup {t[i] : i \in DOMAIN t}
           u == s \o t
<1>1. s \in Seq(T) /\ t \in Seq(T)
  BY ListIn
<1> HIDE DEF T
<1>2. /\ u \in Seq(T) /\ Len(u) = Len(s) + Len(t)
      /\ \A i \in 1 .. Len(s) + Len(t) : u[i] = IF i <= Len(s) THEN s[i] ELSE t[i - Len(s)]
  BY <1>1, ConcatProperties
<1> HIDE DEF u
<1>3. u = [i \in 1 .. Len(u) |-> u[i]] /\ Len(u) \in Nat
  BY <1>2
<1>4. IsList(u)
  BY <1>3, ListIs
<1> QED BY <1>2, <1>4 DEF u

\* One element replaced.
LEMMA ListExcept ==
  ASSUME NEW s, NEW i, NEW e, IsList(s)
  PROVE  IsList([s EXCEPT ![i] = e]) /\ Len([s EXCEPT ![i] = e]) = Len(s)
<1> DEFINE t == [s EXCEPT ![i] = e]
<1>1. Len(s) \in Nat /\ DOMAIN s = 1 .. Len(s)
  BY ListLen
<1>2. t = [j \in 1 .. Len(s) |-> t[j]]
  BY <1>1
<1> HIDE DEF t
<1>3. IsList(t) /\ Len(t) = Len(s)
  BY <1>1, <1>2, ListOf
<1> QED BY <1>3 DEF t
=============================================================================
